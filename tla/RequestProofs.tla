---------------------------- MODULE RequestProofs ----------------------------
(***************************************************************************)
(* Theorems about one request, for any parser, any writer, any trees, cost *)
(* models, configurations and requests.                                    *)
(*                                                                         *)
(* What walks a tree is a recursive function: that it exists, and so obeys *)
(* its own equation, follows from its step's looking at smaller trees only *)
(* (SizeRecursion); what it returns follows by induction on the size.      *)
(***************************************************************************)
EXTENDS QueryPolicy, FiniteSetTheorems, WellFoundedInduction, TLAPS

\* The least number of a set.
LEMMA LeastNumber ==
    ASSUME NEW S \in SUBSET Nat, S # {}
    PROVE  \E k \in S : \A j \in S : k <= j
<1>1. IsWellFoundedOn(OpToRel(<, Nat), Nat)
      BY NatLessThanWellFounded
<1>2. PICK k \in S : \A j \in S : ~ (<<j, k>> \in OpToRel(<, Nat))
      BY <1>1, WFMin
<1>3. \A j \in S : ~ (j < k)
      BY <1>2 DEF OpToRel
<1>4. QED
      BY <1>3

\* T has an element of S whenever it has all smaller ones.
Hereditary(S, size, T) == \A x \in S : (\A y \in S : size[y] < size[x] => y \in T) => x \in T

LEMMA SizeInduction ==
    ASSUME NEW S, NEW size \in [S -> Nat], NEW T, Hereditary(S, size, T)
    PROVE  S \subseteq T
<1> SUFFICES ASSUME NEW bad \in S, bad \notin T PROVE FALSE
    OBVIOUS
<1> DEFINE sizes == {size[x] : x \in S \ T}
<1>1. sizes \in SUBSET Nat /\ sizes # {}
      OBVIOUS
<1>2. PICK k \in sizes : \A j \in sizes : k <= j
      BY <1>1, LeastNumber
<1>3. PICK x \in S \ T : k = size[x]
      BY <1>2
<1>4. ASSUME NEW y \in S, size[y] < size[x], y \notin T PROVE FALSE
   <2>1. size[y] \in sizes /\ size[y] \in Nat /\ size[x] \in Nat
         BY <1>4
   <2> HIDE DEF sizes
   <2>2. size[x] <= size[y]
         BY <1>2, <1>3, <2>1
   <2>3. QED
         BY <1>4, <2>1, <2>2
<1>5. QED
      BY <1>3, <1>4 DEF Hereditary

LEMMA NumberInduction ==
    ASSUME NEW T, 0 \in T, \A k \in Nat : k \in T => k + 1 \in T
    PROVE  Nat \subseteq T
<1> DEFINE size == [k \in Nat |-> k]
<1>1. ASSUME NEW x \in Nat, \A y \in Nat : size[y] < size[x] => y \in T
      PROVE  x \in T
   <2>1. CASE x = 0
         BY <2>1
   <2>2. CASE x # 0
         BY <1>1, <2>2, x - 1 \in Nat, x = (x - 1) + 1
   <2>3. QED
         BY <2>1, <2>2
<1>2. size \in [Nat -> Nat]
      OBVIOUS
<1>3. \A x \in Nat : (\A y \in Nat : size[y] < size[x] => y \in T) => x \in T
      BY <1>1
<1> HIDE DEF size
<1>4. QED
      BY <1>2, <1>3, SizeInduction DEF Hereditary

\* F is the sequence of what step makes of first.
Iterates(F, T, step, first) ==
    /\ F \in [Nat -> T]
    /\ F[0] = first
    /\ \A k \in Nat : F[k + 1] = step[F[k]]

\* Every function from a set into itself can be iterated.
LEMMA Iteration ==
    ASSUME NEW T, NEW step \in [T -> T], NEW first \in T
    PROVE  \E F : Iterates(F, T, step, first)
<1> DEFINE Upto(g, n) == /\ g \in [0 .. n -> T]
                         /\ g[0] = first
                         /\ \A k \in 0 .. n : k + 1 \in 0 .. n => g[k + 1] = step[g[k]]
           good == {n \in Nat : \E g : Upto(g, n)}
<1>1. 0 \in good
   <2>1. Upto([k \in 0 .. 0 |-> first], 0)
         OBVIOUS
   <2>2. QED
         BY <2>1
<1>2. ASSUME NEW n \in Nat, n \in good PROVE n + 1 \in good
   <2>1. PICK g : Upto(g, n)
         BY <1>2
   <2> DEFINE h == [k \in 0 .. n + 1 |-> IF k = n + 1 THEN step[g[n]] ELSE g[k]]
   <2>2. h \in [0 .. n + 1 -> T]
         BY <2>1
   <2>3. h[0] = first
         BY <2>1
   <2>4. ASSUME NEW k \in 0 .. n + 1, k + 1 \in 0 .. n + 1 PROVE h[k + 1] = step[h[k]]
      <3>1. h[k] = g[k] /\ k \in 0 .. n
            BY <2>4
      <3>2. CASE k = n
            BY <3>1, <3>2
      <3>3. CASE k # n
         <4>1. k + 1 \in 0 .. n /\ h[k + 1] = g[k + 1]
               BY <2>4, <3>3
         <4>2. QED
               BY <2>1, <3>1, <4>1
      <3>4. QED
            BY <3>2, <3>3
   <2>5. Upto(h, n + 1)
         BY <2>2, <2>3, <2>4
   <2>6. n + 1 \in Nat
         OBVIOUS
   <2> HIDE DEF Upto, h
   <2>7. QED
         BY <2>5, <2>6
<1>3. \A n \in Nat : \E g : Upto(g, n)
      BY <1>1, <1>2, NumberInduction
<1>4. ASSUME NEW m \in Nat, NEW n \in Nat, NEW g, NEW h, Upto(g, m), Upto(h, n), NEW k \in Nat, k <= m, k <= n
      PROVE  g[k] = h[k]
   <2> DEFINE same == {j \in Nat : j <= m /\ j <= n => g[j] = h[j]}
   <2>1. 0 \in same
         BY <1>4
   <2>2. ASSUME NEW j \in Nat, j \in same PROVE j + 1 \in same
         BY <1>4, <2>2
   <2>3. Nat \subseteq same
      <3> HIDE DEF same
      <3>1. QED
            BY <2>1, <2>2, NumberInduction
   <2>4. QED
         BY <1>4, <2>3
<1> DEFINE G(n) == CHOOSE g : Upto(g, n)
           F == [n \in Nat |-> G(n)[n]]
<1>5. \A n \in Nat : Upto(G(n), n)
      BY <1>3
<1> HIDE DEF G
<1>6. F \in [Nat -> T]
      BY <1>5
<1>7. F[0] = first
      BY <1>5
<1>8. ASSUME NEW k \in Nat PROVE F[k + 1] = step[F[k]]
   <2>1. Upto(G(k + 1), k + 1) /\ Upto(G(k), k)
         BY <1>5
   <2>2. G(k + 1)[k + 1] = step[G(k + 1)[k]]
         BY <2>1
   <2>3. G(k + 1)[k] = G(k)[k]
      <3> HIDE DEF Upto
      <3>1. k \in Nat /\ k + 1 \in Nat /\ k <= k /\ k <= k + 1
            OBVIOUS
      <3>2. QED
            BY <1>4, <2>1, <3>1
   <2>4. QED
         BY <2>2, <2>3
<1>9. QED
   <2> HIDE DEF F
   <2>1. QED
         BY <1>6, <1>7, <1>8 DEF Iterates

\* What step makes of a function at x depends on its values at smaller elements.
IsLocal(S, size, V, step) ==
    \A g, h \in [S -> V] : \A x \in S :
        (\A y \in S : size[y] < size[x] => g[y] = h[y]) => step[g][x] = step[h][x]

IsFixed(f, S, V, step) == f \in [S -> V] /\ f = step[f]

\* A recursive function whose argument gets smaller exists.
LEMMA SizeRecursion ==
    ASSUME NEW S, NEW size \in [S -> Nat], NEW V, NEW v \in V,
           NEW step \in [[S -> V] -> [S -> V]], IsLocal(S, size, V, step)
    PROVE  \E f : IsFixed(f, S, V, step)
<1>1. [x \in S |-> v] \in [S -> V]
      OBVIOUS
<1>2. PICK F \in [Nat -> [S -> V]] : \A k \in Nat : F[k + 1] = step[F[k]]
   <2>1. \E F : Iterates(F, [S -> V], step, [x \in S |-> v])
         BY <1>1, Iteration
   <2>2. QED
         BY <2>1 DEF Iterates
\* Beyond the size of x, F says the same of x.
<1> DEFINE settled == {x \in S : \A k \in Nat : k > size[x] => F[k][x] = F[size[x] + 1][x]}
<1>3. S \subseteq settled
   <2>1. ASSUME NEW x \in S, \A y \in S : size[y] < size[x] => y \in settled,
                NEW k \in Nat, k > size[x]
         PROVE  F[k][x] = F[size[x] + 1][x]
      <3>1. k - 1 \in Nat /\ k - 1 >= size[x] /\ size[x] \in Nat
            BY <2>1
      <3>2. ASSUME NEW y \in S, size[y] < size[x] PROVE F[k - 1][y] = F[size[x]][y]
            BY <2>1, <3>1, <3>2
      <3>3. step[F[k - 1]][x] = step[F[size[x]]][x]
         <4>1. F[k - 1] \in [S -> V] /\ F[size[x]] \in [S -> V]
               BY <1>2, <3>1
         <4>2. QED
               BY <3>2, <4>1 DEF IsLocal
      <3>4. F[(k - 1) + 1] = step[F[k - 1]] /\ F[size[x] + 1] = step[F[size[x]]]
            BY <1>2, <3>1
      <3>5. QED
            BY <3>1, <3>3, <3>4
   <2>2. \A x \in S : (\A y \in S : size[y] < size[x] => y \in settled) => x \in settled
         BY <2>1
   <2> HIDE DEF settled
   <2>3. QED
      <3>1. Hereditary(S, size, settled)
            BY <2>2 DEF Hereditary
      <3>2. QED
            BY <3>1, SizeInduction
<1> DEFINE f == [x \in S |-> F[size[x] + 1][x]]
<1>4. f \in [S -> V]
   <2>1. ASSUME NEW x \in S PROVE F[size[x] + 1][x] \in V
      <3>1. size[x] + 1 \in Nat
            OBVIOUS
      <3>2. F[size[x] + 1] \in [S -> V]
            BY <1>2, <3>1
      <3>3. QED
            BY <3>2
   <2>2. QED
         BY <2>1
<1>5. ASSUME NEW x \in S PROVE f[x] = step[f][x]
   <2>1. size[x] \in Nat /\ F[size[x]] \in [S -> V]
         BY <1>2
   <2>2. ASSUME NEW y \in S, size[y] < size[x] PROVE f[y] = F[size[x]][y]
         BY <1>3, <2>1, <2>2
   <2>3. step[f][x] = step[F[size[x]]][x]
         BY <1>4, <2>1, <2>2 DEF IsLocal
   <2>4. QED
         BY <1>2, <2>1, <2>3
<1>6. step[f] \in [S -> V]
      BY <1>4
<1>7. f = step[f]
   <2> HIDE DEF f
   <2>1. QED
         BY <1>4, <1>5, <1>6
<1>8. QED
      BY <1>4, <1>7 DEF IsFixed
\* A set of numbers up to n has a greatest element, and Max is it.
LEMMA MaxIsGreatest ==
    ASSUME NEW n \in Nat, NEW S \in SUBSET (1 .. n), S # {}
    PROVE  Max(S) \in S /\ \A y \in S : y <= Max(S)
<1> DEFINE above == {x .. n : x \in S}
<1>1. above \subseteq FiniteSubsetsOf(Nat)
   <2>1. \A x \in S : IsFiniteSet(x .. n) /\ x .. n \subseteq Nat
         BY FS_Interval
   <2>2. QED
         BY <2>1 DEF FiniteSubsetsOf
<1>2. IsWellFoundedOn(StrictSubsetOrdering(Nat), FiniteSubsetsOf(Nat))
      BY FS_StrictSubsetOrderingWellFounded
<1>3. PICK a \in above : \A y \in above : ~ (<<y, a>> \in StrictSubsetOrdering(Nat))
   <2> HIDE DEF above
   <2>1. above # {}
         BY DEF above
   <2>2. QED
         BY <1>1, <1>2, <2>1, WFMin
<1>4. PICK x \in S : a = x .. n
      BY <1>3
<1>5. ASSUME NEW y \in S, x < y PROVE FALSE
   <2>1. y .. n \in above /\ y .. n \subseteq x .. n /\ x \notin y .. n /\ x \in x .. n /\ x .. n \subseteq Nat
         BY <1>5
   <2>2. <<y .. n, x .. n>> \in StrictSubsetOrdering(Nat)
         BY <2>1 DEF StrictSubsetOrdering
   <2>3. QED
         BY <1>3, <1>4, <2>1, <2>2
<1>6. \A y \in S : x >= y
      BY <1>5
<1>7. Max(S) \in S /\ \A y \in S : Max(S) >= y
      BY <1>6 DEF Max
<1>8. QED
      BY <1>7

\* The entry the right-most candidate of a line stands for.
LEMMA PickedIsCandidate ==
    ASSUME NEW entries, NEW trusted, Len(entries) \in Nat, DOMAIN entries = 1 .. Len(entries),
           Candidates(entries, trusted) # {}
    PROVE  LET i == Pick(Candidates(entries, trusted))
           IN  /\ i \in 1 .. Len(entries)
               /\ entries[i] \notin trusted
               /\ \A j \in i + 1 .. Len(entries) : entries[j] \in trusted \cup {Unparsable}
<1> DEFINE clients == Candidates(entries, trusted)
           i       == Pick(clients)
<1>1. clients \in SUBSET (1 .. Len(entries))
      BY DEF Candidates
<1>2. i \in clients /\ \A y \in clients : y <= i
      BY <1>1, MaxIsGreatest DEF Pick
<1>3. i \in 1 .. Len(entries) /\ entries[i] \notin trusted
      BY <1>1, <1>2 DEF Candidates
<1> HIDE DEF i
<1>4. ASSUME NEW j \in i + 1 .. Len(entries)
      PROVE  entries[j] \in trusted \cup {Unparsable}
   <2>1. j \in 1 .. Len(entries) /\ ~ (j <= i)
         BY <1>3, <1>4
   <2>2. j \notin clients
         BY <1>2, <2>1
   <2>3. QED
         BY <2>1, <2>2 DEF Candidates
<1>5. QED
      BY <1>3, <1>4 DEF i

\* What Header.Get reads is a line of the header.
LEMMA LineRead ==
    ASSUME NEW origin, IsOrigin(origin)
    PROVE  LET lines   == origin.forwardedFor
               entries == Get(lines)
           IN  /\ Len(entries) \in Nat /\ DOMAIN entries = 1 .. Len(entries)
               /\ \A i \in DOMAIN entries : entries[i] # None
               /\ DOMAIN entries # {} => 1 \in 1 .. Len(lines) /\ entries = lines[1]
<1>1. CASE Len(origin.forwardedFor) = 0
      BY <1>1 DEF Get
<1>2. CASE Len(origin.forwardedFor) # 0
   <2>1. 1 \in 1 .. Len(origin.forwardedFor)
         BY <1>2 DEF IsOrigin
   <2>2. Get(origin.forwardedFor) = origin.forwardedFor[1]
         BY <1>2 DEF Get
   <2>3. QED
         BY <2>1, <2>2 DEF IsOrigin
<1>3. QED
      BY <1>1, <1>2

\* What resolveClientIP returns for a peer that has an address.
LEMMA ResolvedIsVouched ==
    ASSUME NEW origin, IsOrigin(origin), NEW trusted, origin.peer # Unparsable,
           OneLineMatters(origin, trusted)
    PROVE  Vouched(ResolveClientIP(origin, trusted), origin, trusted)
<1> DEFINE lines   == origin.forwardedFor
           entries == Get(lines)
           clients == Candidates(entries, trusted)
           proxies == trusted \cup {Unparsable}
<1>1. CASE origin.peer \notin trusted
      BY <1>1 DEF ResolveClientIP, Vouched
<1>2. CASE origin.peer \in trusted /\ clients # {}
   <2> DEFINE i == Pick(clients)
   <2>1. Len(entries) \in Nat /\ DOMAIN entries = 1 .. Len(entries)
         BY LineRead
   <2>2. /\ i \in 1 .. Len(entries) /\ entries[i] \notin trusted
         /\ \A j \in i + 1 .. Len(entries) : entries[j] \in proxies
         BY <1>2, <2>1, PickedIsCandidate
   <2>3. ResolveClientIP(origin, trusted) = entries[i]
         BY <1>2 DEF ResolveClientIP
   <2>4. 1 \in 1 .. Len(lines) /\ entries = lines[1]
         BY <2>1, <2>2, LineRead
   <2>5. ASSUME NEW m \in 1 + 1 .. Len(lines), NEW j \in DOMAIN lines[m]
         PROVE  lines[m][j] \in proxies
      <3>1. Candidates(lines[m], trusted) = {}
            BY DEF OneLineMatters
      <3>2. QED
            BY <3>1 DEF Candidates
   <2> HIDE DEF i, entries, lines
   <2>6. /\ i \in DOMAIN lines[1] /\ lines[1][i] = entries[i]
         /\ \A j \in i + 1 .. Len(lines[1]) : lines[1][j] \in proxies
         BY <2>1, <2>2, <2>4
   <2>7. QED
         BY <1>2, <2>2, <2>3, <2>4, <2>5, <2>6 DEF Vouched, lines
<1>3. CASE /\ origin.peer \in trusted /\ clients = {}
           /\ origin.realIP \notin trusted \cup {Unparsable, None}
      BY <1>3 DEF ResolveClientIP, Vouched
<1>4. CASE /\ origin.peer \in trusted /\ clients = {}
           /\ origin.realIP \in trusted \cup {Unparsable, None}
      BY <1>4 DEF ResolveClientIP, Vouched
<1>5. QED
      BY <1>1, <1>2, <1>3, <1>4

\* The log names the address that goes upstream in X-Forwarded-For, and that
\* address is vouched for, whatever a client writes into its headers, unless a
\* second line of X-Forwarded-For names a client.
LEMMA LogIsVouched ==
    ASSUME NEW origin, IsOrigin(origin), NEW trusted, origin.peer # Unparsable,
           OneLineMatters(origin, trusted)
    PROVE  LET sanitised == Sanitised(origin, trusted)
               named     == LoggedIP(sanitised)
           IN  sanitised.forwardedFor = << <<named>> >> /\ Vouched(named, origin, trusted)
<1> DEFINE ip      == ResolveClientIP(origin, trusted)
           entries == Get(origin.forwardedFor)
           clients == Candidates(entries, trusted)
<1>1. ip # None
   <2>1. CASE origin.peer \in trusted /\ clients # {}
      <3>1. /\ Len(entries) \in Nat /\ DOMAIN entries = 1 .. Len(entries)
            /\ \A i \in DOMAIN entries : entries[i] # None
            BY LineRead
      <3>2. Pick(clients) \in DOMAIN entries
            BY <2>1, <3>1, PickedIsCandidate
      <3>3. ip = entries[Pick(clients)]
            BY <2>1 DEF ResolveClientIP
      <3>4. QED
            BY <3>1, <3>2, <3>3
   <2>2. CASE origin.peer \notin trusted \/ clients = {}
      <3>1. ip = origin.peer \/ (ip = origin.realIP /\ origin.realIP \notin trusted \cup {Unparsable, None})
            BY <2>2 DEF ResolveClientIP
      <3>2. QED
            BY <3>1 DEF IsOrigin
   <2>3. QED
         BY <2>1, <2>2
<1> HIDE DEF ip
<1>2. Sanitised(origin, trusted).forwardedFor = << <<ip>> >>
      BY <1>1 DEF Sanitised, IsOrigin, ip
<1>3. LoggedIP(Sanitised(origin, trusted)) = ip
      BY <1>2 DEF LoggedIP, Get
<1>4. Vouched(ip, origin, trusted)
      BY ResolvedIsVouched DEF ip
<1>5. QED
      BY <1>2, <1>3, <1>4

-----------------------------------------------------------------------------
\* The plan of an authenticated caller is the same whatever context the body
\* of the request brings (mergeContext and its order of arguments).
LEMMA BodyIsOverridden ==
    ASSUME NEW c, NEW rq, NEW other, c.auth # "none",
           rq = [text |-> rq.text, scheme |-> rq.scheme, key |-> rq.key, body |-> rq.body,
                 origin |-> rq.origin]
    PROVE  PlanFromContext(ContextOf(c, rq)) = PlanFromContext(ContextOf(c, [rq EXCEPT !.body = other]))
<1> DEFINE cred == ToMap(c.credentials[rq.key])
<1>1. [rq EXCEPT !.body = other].key = rq.key
      OBVIOUS
<1>2. "user" \in DOMAIN cred
      BY DEF ToMap, Over
<1>3. ASSUME NEW body
      PROVE  /\ "user" \in DOMAIN MergeContext(body, cred)
             /\ MergeContext(body, cred)["user"] = cred["user"]
      BY <1>2 DEF MergeContext, Over
<1> HIDE DEF cred
<1>4. ASSUME NEW body
      PROVE  PlanFromContext(MergeContext(body, cred)) = PlanFromContext(cred)
      BY <1>2, <1>3 DEF PlanFromContext
<1>5. /\ ContextOf(c, rq) = MergeContext(rq.body, cred)
      /\ ContextOf(c, [rq EXCEPT !.body = other]) = MergeContext([rq EXCEPT !.body = other].body, cred)
      BY <1>1 DEF ContextOf, cred
<1>6. QED
      BY <1>4, <1>5

-----------------------------------------------------------------------------
(* Trees.                                                                  *)

\* A set that has a tree whenever it has all smaller ones has every tree.
LEMMA TreeInduction ==
    ASSUME NEW T, \A n \in Nodes : (\A c \in Nodes : Size(c) < Size(n) => c \in T) => n \in T
    PROVE  Nodes \subseteq T
<1> DEFINE size == [n \in Nodes |-> Size(n)]
<1>1. size \in [Nodes -> Nat]
      BY NodesAssumption
<1>2. \A n \in Nodes : (\A c \in Nodes : size[c] < size[n] => c \in T) => n \in T
      OBVIOUS
<1> HIDE DEF size
<1>3. QED
   <2>1. Hereditary(Nodes, size, T)
         BY <1>2 DEF Hereditary
   <2>2. QED
         BY <1>1, <2>1, SizeInduction

\* Where the walks over a tree go from a node.
LEMMA SubtreesAreSmaller ==
    ASSUME NEW n \in Nodes
    PROVE  /\ n.kind = "group" => n.query \in Nodes /\ Size(n.query) < Size(n)
           /\ n.kind = "clause" => n.field \in Fields /\ n.term \in Nodes /\ Size(n.term) < Size(n)
           /\ n.kind = "boolean" => \A i \in DOMAIN n.clauses :
                 /\ n.clauses[i] \in Nodes /\ Size(n.clauses[i]) < Size(n)
                 /\ n.clauses[i].kind = "clause"
<1>1. n.kind = "clause" => n.field \in Fields
      BY DEF Fields
<1>2. ASSUME n.kind = "boolean", NEW i \in DOMAIN n.clauses
      PROVE  n.clauses[i] \in Range(n.clauses) /\ n.clauses[i] \in Nodes
   <2>1. n.clauses \in Seq(Nodes)
         BY <1>2, NodesAssumption
   <2>2. QED
         BY <2>1 DEF Range
<1>3. QED
      BY <1>1, <1>2, NodesAssumption

AllLeaves == [leaf : Nodes, field : Fields, negated : BOOLEAN]
Spots     == Nodes \X Fields \X BOOLEAN

LEMMA LeavesInType ==
    ASSUME NEW n \in Nodes, NEW field \in Fields, NEW negated \in BOOLEAN, NEW g,
           \A at \in Spots : Size(at[1]) < Size(n) => g[at] \in SUBSET AllLeaves
    PROVE  LeavesIn(g, n, field, negated) \in SUBSET AllLeaves
<1>0. /\ NoField \in Fields
      /\ \A c \in Nodes, f \in Fields, b \in BOOLEAN :
            Size(c) < Size(n) => g[<<c, f, b>>] \in SUBSET AllLeaves
      BY DEF Spots, Fields
<1>1. CASE n.kind \in LeafKinds
      BY <1>1 DEF LeavesIn, LeafKinds, AllLeaves
<1>2. CASE n.kind = "group"
      BY <1>0, <1>2, SubtreesAreSmaller DEF LeavesIn, LeafKinds
<1>3. CASE n.kind = "clause"
   <2>1. (negated \/ n.occur = "must_not") \in BOOLEAN
         OBVIOUS
   <2>2. LeavesIn(g, n, field, negated) = g[<<n.term, n.field, negated \/ n.occur = "must_not">>]
         BY <1>3 DEF LeavesIn, LeafKinds
   <2>3. QED
         BY <1>0, <1>3, <2>1, <2>2, SubtreesAreSmaller
<1>4. CASE n.kind = "boolean"
   <2>1. LeavesIn(g, n, field, negated) = UNION {g[<<c, NoField, negated>>] : c \in Range(n.clauses)}
         BY <1>4 DEF LeavesIn, LeafKinds
   <2>2. ASSUME NEW c \in Range(n.clauses) PROVE g[<<c, NoField, negated>>] \in SUBSET AllLeaves
      <3>1. c \in Nodes /\ Size(c) < Size(n)
            BY <1>4, SubtreesAreSmaller DEF Range
      <3>2. QED
            BY <1>0, <3>1
   <2>3. QED
         BY <2>1, <2>2
<1>5. QED
      BY <1>1, <1>2, <1>3, <1>4, NodesAssumption DEF Kinds

LEMMA LeavesInLocal ==
    ASSUME NEW n \in Nodes, NEW field \in Fields, NEW negated \in BOOLEAN, NEW g, NEW h,
           \A at \in Spots : Size(at[1]) < Size(n) => g[at] = h[at]
    PROVE  LeavesIn(g, n, field, negated) = LeavesIn(h, n, field, negated)
<1>0. /\ NoField \in Fields
      /\ \A c \in Nodes, f \in Fields, b \in BOOLEAN : Size(c) < Size(n) => g[<<c, f, b>>] = h[<<c, f, b>>]
      BY DEF Spots, Fields
<1>1. CASE n.kind \in LeafKinds
      BY <1>1 DEF LeavesIn, LeafKinds
<1>2. CASE n.kind = "group"
      BY <1>0, <1>2, SubtreesAreSmaller DEF LeavesIn, LeafKinds
<1>3. CASE n.kind = "clause"
   <2> DEFINE b == negated \/ n.occur = "must_not"
   <2>1. b \in BOOLEAN
         OBVIOUS
   <2>2. LeavesIn(g, n, field, negated) = g[<<n.term, n.field, b>>] /\ LeavesIn(h, n, field, negated) = h[<<n.term, n.field, b>>]
         BY <1>3 DEF LeavesIn, LeafKinds
   <2> HIDE DEF b
   <2>3. QED
         BY <1>0, <1>3, <2>1, <2>2, SubtreesAreSmaller
<1>4. CASE n.kind = "boolean"
   <2>1. \A c \in Range(n.clauses) : g[<<c, NoField, negated>>] = h[<<c, NoField, negated>>]
         BY <1>0, <1>4, SubtreesAreSmaller DEF Range
   <2>2. QED
         BY <1>4, <2>1 DEF LeavesIn, LeafKinds
<1>5. QED
      BY <1>1, <1>2, <1>3, <1>4, NodesAssumption DEF Kinds

\* Leaves is defined: it satisfies its own equation.
LEMMA LeavesDefined ==
    Leaves \in [Spots -> SUBSET AllLeaves]
    /\ \A n \in Nodes, field \in Fields, negated \in BOOLEAN :
          Leaves[<<n, field, negated>>] = LeavesIn(Leaves, n, field, negated)
<1> DEFINE size    == [at \in Spots |-> Size(at[1])]
           V       == SUBSET AllLeaves
           In(g)   == [at \in Spots |-> LeavesIn(g, at[1], at[2], at[3])]
           step    == [g \in [Spots -> V] |-> In(g)]
<1>1. size \in [Spots -> Nat]
      BY NodesAssumption DEF Spots
<1>2. step \in [[Spots -> V] -> [Spots -> V]]
   <2>1. ASSUME NEW g \in [Spots -> V], NEW at \in Spots PROVE LeavesIn(g, at[1], at[2], at[3]) \in V
      <3>1. at[1] \in Nodes /\ at[2] \in Fields /\ at[3] \in BOOLEAN
            BY DEF Spots
      <3>2. QED
            BY <3>1, LeavesInType
   <2>2. QED
         BY <2>1
<1>3. ASSUME NEW g \in [Spots -> V], NEW h \in [Spots -> V], NEW at \in Spots,
             \A other \in Spots : size[other] < size[at] => g[other] = h[other]
      PROVE  step[g][at] = step[h][at]
   <2>1. at[1] \in Nodes /\ at[2] \in Fields /\ at[3] \in BOOLEAN
         BY DEF Spots
   <2>2. LeavesIn(g, at[1], at[2], at[3]) = LeavesIn(h, at[1], at[2], at[3])
         BY <1>3, <2>1, LeavesInLocal
   <2>3. QED
         BY <2>2
<1>4. IsLocal(Spots, size, V, step)
   <2> HIDE DEF size, V, step
   <2>1. QED
         BY <1>3 DEF IsLocal
<1>5. \E f : f = In(f)
   <2>1. {} \in V
         OBVIOUS
   <2>2. \E f : IsFixed(f, Spots, V, step)
      <3> HIDE DEF size, V, step
      <3>1. QED
            BY <1>1, <1>2, <1>4, <2>1, SizeRecursion
   <2>3. QED
         BY <2>2 DEF IsFixed
<1>6. Leaves = In(Leaves)
      BY <1>5 DEF Leaves, Spots
<1>7. \A n \in Nodes, field \in Fields, negated \in BOOLEAN :
          Leaves[<<n, field, negated>>] = LeavesIn(Leaves, n, field, negated)
      BY <1>6 DEF Spots
<1> DEFINE T == {n \in Nodes : \A field \in Fields, negated \in BOOLEAN : Leaves[<<n, field, negated>>] \in V}
<1>8. Nodes \subseteq T
   <2>1. ASSUME NEW n \in Nodes, \A c \in Nodes : Size(c) < Size(n) => c \in T PROVE n \in T
      <3>1. \A at \in Spots : Size(at[1]) < Size(n) => Leaves[at] \in V
            BY <2>1 DEF Spots
      <3>2. \A field \in Fields, negated \in BOOLEAN : LeavesIn(Leaves, n, field, negated) \in V
            BY <3>1, LeavesInType
      <3>3. QED
            BY <1>7, <3>2
   <2> HIDE DEF T
   <2>2. QED
         BY <2>1, TreeInduction
<1>9. Leaves \in [Spots -> V]
   <2>1. Leaves = [at \in Spots |-> Leaves[at]]
         BY <1>6
   <2>2. \A at \in Spots : Leaves[at] \in V
         BY <1>8 DEF Spots
   <2>3. QED
         BY <2>1, <2>2
<1>10. QED
       BY <1>7, <1>9

-----------------------------------------------------------------------------
(* FindWindow.                                                             *)

LEMMA MinIsLeast ==
    ASSUME NEW S \in SUBSET Nat, S # {}
    PROVE  Min(S) \in S
<1>1. \E k \in S : \A j \in S : k <= j
      BY LeastNumber
<1>2. QED
      BY <1>1 DEF Min

Dates    == {c.dateFields : c \in Configs}
Searches == Nodes \X Dates
Windows  == Nodes \cup {NoNode}

LEMMA FindInType ==
    ASSUME NEW n \in Nodes, NEW ds \in Dates, NEW g,
           \A at \in Searches : Size(at[1]) < Size(n) => g[at] \in Windows
    PROVE  FindIn(g, n, ds) \in Windows
<1>0. \A c \in Nodes : Size(c) < Size(n) => g[<<c, ds>>] \in Windows
      BY DEF Searches
<1>1. CASE n.kind \in {"term", "phrase"}
      BY <1>1 DEF FindIn, Windows
<1>2. CASE n.kind = "range"
      BY <1>2 DEF FindIn, Windows
<1>3. CASE n.kind = "clause"
   <2>1. FindIn(g, n, ds) = IF n.field \in ds /\ n.term.kind = "range" THEN n.term ELSE g[<<n.term, ds>>]
         BY <1>3 DEF FindIn
   <2>2. QED
         BY <1>0, <1>3, <2>1, SubtreesAreSmaller DEF Windows
<1>4. CASE n.kind = "group"
      BY <1>0, <1>4, SubtreesAreSmaller DEF FindIn
<1>5. CASE n.kind = "boolean"
   <2> DEFINE hits == {i \in DOMAIN n.clauses : g[<<n.clauses[i], ds>>] # NoNode}
   <2>1. FindIn(g, n, ds) = IF hits = {} THEN NoNode ELSE g[<<n.clauses[Min(hits)], ds>>]
         BY <1>5 DEF FindIn
   <2>2. hits # {} => Min(hits) \in DOMAIN n.clauses
      <3>1. n.clauses \in Seq(Nodes)
            BY <1>5, NodesAssumption
      <3>2. hits \in SUBSET Nat
            BY <3>1
      <3>3. hits # {} => Min(hits) \in hits
            BY <3>2, MinIsLeast
      <3>4. QED
            BY <3>3
   <2> HIDE DEF hits
   <2>3. QED
         BY <1>0, <1>5, <2>1, <2>2, SubtreesAreSmaller DEF Windows
<1>6. QED
      BY <1>1, <1>2, <1>3, <1>4, <1>5, NodesAssumption DEF Kinds, LeafKinds

LEMMA FindInLocal ==
    ASSUME NEW n \in Nodes, NEW ds \in Dates, NEW g, NEW h,
           \A at \in Searches : Size(at[1]) < Size(n) => g[at] = h[at]
    PROVE  FindIn(g, n, ds) = FindIn(h, n, ds)
<1>0. \A c \in Nodes : Size(c) < Size(n) => g[<<c, ds>>] = h[<<c, ds>>]
      BY DEF Searches
<1>1. CASE n.kind \in {"term", "phrase"}
      BY <1>1 DEF FindIn
<1>2. CASE n.kind = "range"
      BY <1>2 DEF FindIn
<1>3. CASE n.kind = "clause"
   <2>1. \A f \in {g, h} :
            FindIn(f, n, ds) = IF n.field \in ds /\ n.term.kind = "range" THEN n.term ELSE f[<<n.term, ds>>]
         BY <1>3 DEF FindIn
   <2>2. QED
         BY <1>0, <1>3, <2>1, SubtreesAreSmaller
<1>4. CASE n.kind = "group"
      BY <1>0, <1>4, SubtreesAreSmaller DEF FindIn
<1>5. CASE n.kind = "boolean"
   <2> DEFINE hits(f) == {i \in DOMAIN n.clauses : f[<<n.clauses[i], ds>>] # NoNode}
   <2>1. \A f \in {g, h} :
            FindIn(f, n, ds) = IF hits(f) = {} THEN NoNode ELSE f[<<n.clauses[Min(hits(f))], ds>>]
         BY <1>5 DEF FindIn
   <2>2. \A i \in DOMAIN n.clauses : g[<<n.clauses[i], ds>>] = h[<<n.clauses[i], ds>>]
         BY <1>0, <1>5, SubtreesAreSmaller
   <2>3. hits(g) = hits(h)
         BY <2>2
   <2>4. hits(g) # {} => Min(hits(g)) \in DOMAIN n.clauses
      <3>1. n.clauses \in Seq(Nodes)
            BY <1>5, NodesAssumption
      <3>2. hits(g) \in SUBSET Nat
            BY <3>1
      <3>3. hits(g) # {} => Min(hits(g)) \in hits(g)
            BY <3>2, MinIsLeast
      <3>4. QED
            BY <3>3
   <2> HIDE DEF hits
   <2>5. QED
         BY <2>1, <2>2, <2>3, <2>4
<1>6. QED
      BY <1>1, <1>2, <1>3, <1>4, <1>5, NodesAssumption DEF Kinds, LeafKinds

\* FindWindow is defined: it satisfies its own equation.
LEMMA FindWindowDefined ==
    \A n \in Nodes, ds \in Dates :
        /\ FindWindow[<<n, ds>>] = FindIn(FindWindow, n, ds)
        /\ FindWindow[<<n, ds>>] \in Windows
<1> DEFINE size    == [at \in Searches |-> Size(at[1])]
           In(g)   == [at \in Searches |-> FindIn(g, at[1], at[2])]
           step    == [g \in [Searches -> Windows] |-> In(g)]
<1>1. size \in [Searches -> Nat]
      BY NodesAssumption DEF Searches
<1>2. step \in [[Searches -> Windows] -> [Searches -> Windows]]
   <2>1. ASSUME NEW g \in [Searches -> Windows], NEW at \in Searches PROVE FindIn(g, at[1], at[2]) \in Windows
      <3>1. at[1] \in Nodes /\ at[2] \in Dates
            BY DEF Searches
      <3>2. QED
            BY <3>1, FindInType
   <2>2. QED
         BY <2>1
<1>3. ASSUME NEW g \in [Searches -> Windows], NEW h \in [Searches -> Windows], NEW at \in Searches,
             \A other \in Searches : size[other] < size[at] => g[other] = h[other]
      PROVE  step[g][at] = step[h][at]
   <2>1. at[1] \in Nodes /\ at[2] \in Dates
         BY DEF Searches
   <2>2. FindIn(g, at[1], at[2]) = FindIn(h, at[1], at[2])
         BY <1>3, <2>1, FindInLocal
   <2>3. QED
         BY <2>2
<1>4. IsLocal(Searches, size, Windows, step)
   <2> HIDE DEF size, step
   <2>1. QED
         BY <1>3 DEF IsLocal
<1>5. \E f : f = In(f)
   <2>1. NoNode \in Windows
         BY DEF Windows
   <2>2. \E f : IsFixed(f, Searches, Windows, step)
      <3> HIDE DEF size, step
      <3>1. QED
            BY <1>1, <1>2, <1>4, <2>1, SizeRecursion
   <2>3. QED
         BY <2>2 DEF IsFixed
<1>6. FindWindow = In(FindWindow)
      BY <1>5 DEF FindWindow, Searches, Dates
<1>7. \A n \in Nodes, ds \in Dates : FindWindow[<<n, ds>>] = FindIn(FindWindow, n, ds)
      BY <1>6 DEF Searches
<1> DEFINE T == {n \in Nodes : \A ds \in Dates : FindWindow[<<n, ds>>] \in Windows}
<1>8. Nodes \subseteq T
   <2>1. ASSUME NEW n \in Nodes, \A c \in Nodes : Size(c) < Size(n) => c \in T PROVE n \in T
      <3>1. \A at \in Searches : Size(at[1]) < Size(n) => FindWindow[at] \in Windows
            BY <2>1 DEF Searches
      <3>2. \A ds \in Dates : FindIn(FindWindow, n, ds) \in Windows
            BY <3>1, FindInType
      <3>3. QED
            BY <1>7, <3>2
   <2> HIDE DEF T
   <2>2. QED
         BY <2>1, TreeInduction
<1>9. QED
      BY <1>7, <1>8

\* A range with a sound span that FindWindow returns is the term of a clause on
\* a date field, wherever it stands in the tree.
IsOwn(w, n, ds) ==
    \A field \in Fields, negated \in BOOLEAN :
        \E l \in Leaves[<<n, field, negated>>] : l.leaf = w /\ l.leaf.kind = "range" /\ l.field \in ds

LEMMA FoundIsOwn ==
    ASSUME NEW ds \in Dates
    PROVE  \A n \in Nodes : LET w == FindWindow[<<n, ds>>]
                            IN  w = NoNode \/ Span(w).kind = "bad" \/ IsOwn(w, n, ds)
<1> DEFINE Found(n) == LET w == FindWindow[<<n, ds>>]
                       IN  w = NoNode \/ Span(w).kind = "bad" \/ IsOwn(w, n, ds)
           T == {n \in Nodes : Found(n)}
<1>1. ASSUME NEW n \in Nodes, \A c \in Nodes : Size(c) < Size(n) => c \in T PROVE n \in T
   <2> DEFINE w == FindWindow[<<n, ds>>]
   <2>0. \A c \in Nodes : Size(c) < Size(n) => Found(c)
         BY <1>1
   <2>1. w = FindIn(FindWindow, n, ds)
         BY FindWindowDefined
   <2>2. NoField \in Fields
         BY DEF Fields
   <2> HIDE DEF w
   <2>3. ASSUME NEW c \in Nodes, w = FindWindow[<<c, ds>>], Size(c) < Size(n),
                \A field \in Fields, negated \in BOOLEAN :
                    \E f \in Fields, b \in BOOLEAN : Leaves[<<c, f, b>>] \subseteq Leaves[<<n, field, negated>>]
         PROVE  w = NoNode \/ Span(w).kind = "bad" \/ IsOwn(w, n, ds)
      <3>1. w = NoNode \/ Span(w).kind = "bad" \/ IsOwn(w, c, ds)
            BY <2>0, <2>3
      <3>2. IsOwn(w, c, ds) => IsOwn(w, n, ds)
            BY <2>3 DEF IsOwn
      <3>3. QED
            BY <3>1, <3>2
   <2>4. CASE n.kind \in {"term", "phrase"}
         BY <2>1, <2>4 DEF FindIn, w
   <2>5. CASE n.kind = "range"
         BY <2>1, <2>5 DEF FindIn, w
   <2>6. CASE n.kind = "clause"
      <3> DEFINE b(negated) == negated \/ n.occur = "must_not"
      <3>1. \A field \in Fields, negated \in BOOLEAN :
               Leaves[<<n, field, negated>>] = Leaves[<<n.term, n.field, b(negated)>>]
            BY <2>6, LeavesDefined DEF LeavesIn, LeafKinds
      <3>2. \A negated \in BOOLEAN : b(negated) \in BOOLEAN
            OBVIOUS
      <3> HIDE DEF b
      <3>3. n.field \in Fields /\ n.term \in Nodes /\ Size(n.term) < Size(n)
            BY <2>6, SubtreesAreSmaller
      <3>4. w = IF n.field \in ds /\ n.term.kind = "range" THEN n.term ELSE FindWindow[<<n.term, ds>>]
            BY <2>1, <2>6 DEF FindIn
      <3>5. CASE n.field \in ds /\ n.term.kind = "range"
         <4>1. \A negated \in BOOLEAN :
                  Leaves[<<n.term, n.field, negated>>] = {[leaf |-> n.term, field |-> n.field, negated |-> negated]}
               BY <3>3, <3>5, LeavesDefined DEF LeavesIn, LeafKinds
         <4>2. IsOwn(w, n, ds)
            <5>1. w = n.term
                  BY <3>4, <3>5
            <5>2. ASSUME NEW field \in Fields, NEW negated \in BOOLEAN
                  PROVE  \E l \in Leaves[<<n, field, negated>>] : l.leaf = w /\ l.leaf.kind = "range" /\ l.field \in ds
               <6> DEFINE l == [leaf |-> n.term, field |-> n.field, negated |-> b(negated)]
               <6>1. l \in Leaves[<<n, field, negated>>]
                     BY <3>1, <3>2, <4>1
               <6>2. l.leaf = w /\ l.leaf.kind = "range" /\ l.field \in ds
                     BY <3>5, <5>1
               <6> HIDE DEF l
               <6>3. QED
                     BY <6>1, <6>2
            <5>3. QED
                  BY <5>2 DEF IsOwn
         <4>3. QED
               BY <4>2 DEF w
      <3>6. CASE ~ (n.field \in ds /\ n.term.kind = "range")
         <4>1. w = NoNode \/ Span(w).kind = "bad" \/ IsOwn(w, n, ds)
               BY <2>3, <3>1, <3>2, <3>3, <3>4, <3>6
         <4>2. QED
               BY <4>1 DEF w
      <3>7. QED
            BY <3>5, <3>6
   <2>7. CASE n.kind = "group"
      <3>1. \A field \in Fields, negated \in BOOLEAN :
               Leaves[<<n, field, negated>>] = Leaves[<<n.query, field, negated>>]
            BY <2>7, LeavesDefined DEF LeavesIn, LeafKinds
      <3>2. w = FindWindow[<<n.query, ds>>]
            BY <2>1, <2>7 DEF FindIn
      <3>3. w = NoNode \/ Span(w).kind = "bad" \/ IsOwn(w, n, ds)
            BY <2>3, <2>7, <3>1, <3>2, SubtreesAreSmaller
      <3>4. QED
            BY <3>3 DEF w
   <2>8. CASE n.kind = "boolean"
      <3> DEFINE hits == {i \in DOMAIN n.clauses : FindWindow[<<n.clauses[i], ds>>] # NoNode}
      <3>1. w = IF hits = {} THEN NoNode ELSE FindWindow[<<n.clauses[Min(hits)], ds>>]
            BY <2>1, <2>8 DEF FindIn
      <3>2. CASE hits = {}
            BY <3>1, <3>2 DEF w
      <3>3. CASE hits # {}
         <4>1. n.clauses \in Seq(Nodes)
               BY <2>8, NodesAssumption
         <4>2. Min(hits) \in hits
            <5>1. hits \in SUBSET Nat
                  BY <4>1
            <5>2. QED
                  BY <3>3, <5>1, MinIsLeast
         <4> DEFINE c == n.clauses[Min(hits)]
         <4>3. c \in Nodes /\ Size(c) < Size(n) /\ c \in Range(n.clauses)
               BY <2>8, <4>2, SubtreesAreSmaller DEF Range
         <4>4. w = FindWindow[<<c, ds>>]
               BY <3>1, <3>3
         <4> HIDE DEF c
         <4>5. ASSUME NEW field \in Fields, NEW negated \in BOOLEAN
               PROVE  Leaves[<<c, NoField, negated>>] \subseteq Leaves[<<n, field, negated>>]
            <5>1. Leaves[<<n, field, negated>>] = UNION {Leaves[<<x, NoField, negated>>] : x \in Range(n.clauses)}
                  BY <2>8, LeavesDefined DEF LeavesIn, LeafKinds
            <5>2. QED
                  BY <4>3, <5>1
         <4>6. w = NoNode \/ Span(w).kind = "bad" \/ IsOwn(w, n, ds)
               BY <2>2, <2>3, <4>3, <4>4, <4>5
         <4>7. QED
               BY <4>6 DEF w
      <3>4. QED
            BY <3>2, <3>3
   <2>9. QED
         BY <2>4, <2>5, <2>6, <2>7, <2>8, NodesAssumption DEF Kinds, LeafKinds
<1> HIDE DEF T
<1>2. Nodes \subseteq T
      BY <1>1, TreeInduction
<1>3. QED
      BY <1>2 DEF T

-----------------------------------------------------------------------------
(* Dates.                                                                  *)

\* Truncation drops less than an hour, and nothing of a whole amount.
LEMMA TruncationLoses ==
    ASSUME NEW a \in DOMAIN Amounts
    PROVE  LET short == Truncated(Amounts[a])
               whole == (Amounts[a].tenths * Minute[Amounts[a].unit]) \div 10
           IN  /\ short \in Nat /\ whole \in Nat
               /\ short <= whole
               /\ whole - short <= IF Amounts[a].tenths % 10 # 0 THEN 59 ELSE 0
<1> DEFINE t == Amounts[a].tenths
           u == Amounts[a].unit
<1>1. t \in Nat /\ u \in {"m", "h", "d", "w", "M", "y"}
      BY AmountsAssumption DEF Minute
<1>2. /\ Truncated(Amounts[a]) = IF u \in {"m", "h"} THEN (t \div 10) * Minute[u]
                                 ELSE ((t * (Minute[u] \div 60)) \div 10) * 60
      BY DEF Truncated
<1> HIDE DEF t, u
<1>3. PICK q \in Nat, r \in 0 .. 9 : t = 10 * q + r
      BY <1>1, t = 10 * (t \div 10) + (t % 10), t \div 10 \in Nat, t % 10 \in 0 .. 9
<1>4. t \div 10 = q /\ t % 10 = r
      BY <1>3
<1>5. CASE u = "m"
   <2>1. (t * 1) \div 10 = q
         BY <1>1, <1>4
   <2>2. Minute[u] = 1
         BY <1>5 DEF Minute
   <2>3. Truncated(Amounts[a]) = q /\ (t * Minute[u]) \div 10 = q
         BY <1>2, <1>4, <1>5, <2>1, <2>2
   <2>4. QED
         BY <1>3, <2>3 DEF t, u
<1>6. CASE u = "h"
   <2>1. (t * 60) \div 10 = 60 * q + 6 * r
         BY <1>3
   <2>2. QED
         BY <1>2, <1>3, <1>4, <1>6, <2>1 DEF Minute, t, u
<1>7. ASSUME NEW hours \in Nat, u \notin {"m", "h"}, Minute[u] = 60 * hours, Minute[u] \div 60 = hours
      PROVE  LET short == Truncated(Amounts[a])
                 whole == (t * Minute[u]) \div 10
             IN  /\ short \in Nat /\ whole \in Nat /\ short <= whole
                 /\ whole - short <= IF r # 0 THEN 59 ELSE 0
   <2> DEFINE n == t * hours
   <2>1. n \in Nat /\ t * (60 * hours) = 60 * n
         BY <1>1, <1>7
   <2>2. n = 10 * (q * hours) + r * hours /\ q * hours \in Nat /\ r * hours \in Nat /\ (r = 0 => r * hours = 0)
         BY <1>3, <1>7
   <2>3. Truncated(Amounts[a]) = (n \div 10) * 60
         BY <1>2, <1>7
   <2> HIDE DEF n
   <2>4. (60 * n) \div 10 = 6 * n
         BY <2>1
   <2>5. (n \div 10) * 60 <= 6 * n /\ 6 * n - (n \div 10) * 60 <= 54 /\ n \div 10 \in Nat
         BY <2>1
   <2>6. r = 0 => (n \div 10) * 60 = 6 * n
      <3>1. r = 0 => n = 10 * (q * hours)
            BY <2>2
      <3> DEFINE m == q * hours
      <3> HIDE DEF m
      <3>2. r = 0 => n = 10 * m /\ m \in Nat
            BY <3>1, <2>2 DEF m
      <3>3. QED
            BY <3>2
   <2>7. t * Minute[u] = 60 * n
         BY <1>7, <2>1
   <2>8. QED
         BY <2>1, <2>3, <2>4, <2>5, <2>6, <2>7
<1>8. CASE u \notin {"m", "h"}
   <2>1. \E hours \in Nat : Minute[u] = 60 * hours /\ Minute[u] \div 60 = hours
      <3>1. u \in {"d", "w", "M", "y"}
            BY <1>1, <1>8
      <3>2. Minute["d"] = 60 * 24 /\ Minute["w"] = 60 * 168 /\ Minute["M"] = 60 * 720 /\ Minute["y"] = 60 * 8760
            BY DEF Minute
      <3>3. QED
            BY <3>1, <3>2
   <2>2. PICK hours \in Nat : Minute[u] = 60 * hours /\ Minute[u] \div 60 = hours
         BY <2>1
   <2>3. QED
         BY <1>4, <1>7, <1>8, <2>2 DEF t, u
<1>9. QED
      BY <1>1, <1>5, <1>6, <1>8

\* An amount that a time.Duration can hold is not wrapped.
LEMMA LengthInRange ==
    ASSUME NEW a \in DOMAIN Amounts
    PROVE  /\ Length(a) \in Int
           /\ Truncated(Amounts[a]) <= Longest => Length(a) = Truncated(Amounts[a])
<1>1. Truncated(Amounts[a]) \in Nat
      BY TruncationLoses
<1>2. Longest = 153722867 /\ Turn = 307445735
      BY DEF Longest, Turn
<1> DEFINE x == Truncated(Amounts[a])
<1>3. Length(a) = ((x + Longest) % Turn) - Longest
      BY DEF Length, Wrapped
<1> HIDE DEF x
<1>4. x \in Nat /\ ((x + 153722867) % 307445735) \in Nat
      BY <1>1 DEF x
<1>5. x <= 153722867 => (x + 153722867) % 307445735 = x + 153722867
      BY <1>4
<1>6. QED
      BY <1>2, <1>3, <1>4, <1>5 DEF x

\* What the gate reads of a bound is what Elasticsearch does, but for a fraction.
LEMMA BoundIsClose ==
    ASSUME NEW bound, ParseBound(bound) \notin {Unknown, Missing}, Holds(bound)
    PROVE  /\ ParseBound(bound).at \in Int /\ TrueAt(bound) \in Int /\ Fraction(bound) \in Nat
           /\ TrueAt(bound) - ParseBound(bound).at <= Fraction(bound)
           /\ ParseBound(bound).at - TrueAt(bound) <= Fraction(bound)
<1> DEFINE b == Unrounded(bound)
<1>0. bound # <<"*">>
      BY DEF ParseBound
<1>1. CASE b = <<"now">>
   <2>1. ~ Relative(b)
         BY <1>1 DEF Relative
   <2>2. ParseBound(bound).at = 0 /\ TrueAt(bound) = 0 /\ Fraction(bound) = 0
         BY <1>0, <1>1, <2>1 DEF ParseBound, TrueAt, Fraction, Time
   <2>3. QED
         BY <2>2
<1>2. CASE b # <<"now">> /\ Relative(b)
   <2> DEFINE a     == Amounts[b[3]]
              whole == (a.tenths * Minute[a.unit]) \div 10
              short == Truncated(a)
   <2>1. b[3] \in DOMAIN Amounts
         BY <1>2 DEF Relative
   <2>2. /\ short \in Nat /\ whole \in Nat /\ short <= whole
         /\ whole - short <= IF a.tenths % 10 # 0 THEN 59 ELSE 0
         BY <2>1, TruncationLoses
   <2>3. Length(b[3]) = short
         BY <1>2, <2>1, LengthInRange DEF Holds
   <2>4. ParseBound(bound).at = Away(b, short)
         BY <1>0, <1>2, <2>3 DEF ParseBound, Time
   <2>5. TrueAt(bound) = Away(b, whole)
         BY <1>2 DEF TrueAt
   <2>6. Fraction(bound) = IF a.tenths % 10 # 0 THEN 59 ELSE 0
         BY <1>2 DEF Fraction
   <2> HIDE DEF a, whole, short
   <2>7. QED
         BY <2>2, <2>4, <2>5, <2>6 DEF Away
<1>3. CASE b # <<"now">> /\ ~ Relative(b)
   <2>1. b \in DOMAIN Calendar /\ ParseBound(bound) = Time(Calendar[b])
         BY <1>0, <1>3 DEF ParseBound
   <2>2. ParseBound(bound).at = Calendar[b] /\ TrueAt(bound) = Calendar[b] /\ Fraction(bound) = 0
         BY <1>3, <2>1 DEF TrueAt, Fraction, Time
   <2>3. QED
         BY <2>1, <2>2, CalendarAssumption
<1>4. QED
      BY <1>1, <1>2, <1>3

\* A span that passes as short is short.
LEMMA ShortSpan ==
    ASSUME NEW range, NEW limit \in Int, limit < Longest,
           Span(range).kind \notin {"bad", "open"}, ~ (Span(range).length > limit),
           Holds(range.low), Holds(range.high)
    PROVE  TrueAt(range.high) - TrueAt(range.low) <= limit + Fraction(range.low) + Fraction(range.high)
<1> DEFINE lo == ParseBound(range.low)
           hi == ParseBound(range.high)
<1>1. lo \notin {Unknown, Missing} /\ hi \notin {Unknown, Missing}
      BY DEF Span
<1>2. Span(range).length = Difference(lo.at, hi.at)
      BY <1>1 DEF Span
<1>3. /\ lo.at \in Int /\ hi.at \in Int
      /\ TrueAt(range.low) \in Int /\ TrueAt(range.high) \in Int
      /\ Fraction(range.low) \in Nat /\ Fraction(range.high) \in Nat
      /\ lo.at - TrueAt(range.low) <= Fraction(range.low)
      /\ TrueAt(range.high) - hi.at <= Fraction(range.high)
      BY <1>1, BoundIsClose
<1> HIDE DEF lo, hi
<1>4. Longest = 153722867
      BY DEF Longest, Turn
<1>5. hi.at - lo.at <= limit
      BY <1>2, <1>3, <1>4 DEF Difference
<1>6. QED
      BY <1>3, <1>5

LEMMA WindowLimitIsLength ==
    ASSUME NEW c, NEW p
    PROVE  WindowLimit(c, p) \in Int
BY LengthInRange, DefaultWindowAssumption DEF WindowLimit

-----------------------------------------------------------------------------
(* Estimates.                                                              *)

Keys == {"match_all", "term", "prefix_wildcard_keyword", "leading_wildcard_keyword", "wildcard_keyword",
         "prefix_wildcard", "leading_wildcard", "wildcard", "phrase", "open_range", "range",
         "must_not", "or_clauses", "depth"}

Costs    == [cost : Nat, keys : SUBSET Keys]
Pricings == Nodes \X Models \X Fields \X Nat

LEMMA ProductType == \A x, y \in Nat : x * y \in Nat
OBVIOUS

LEMMA TenthsType == \A x, w \in Nat : Tenths(x, w) \in Nat
<1>1. \A z \in Nat : z \div 10 \in Nat
      OBVIOUS
<1>2. QED
      BY <1>1, ProductType DEF Tenths

LEMMA EntryType ==
    ASSUME NEW key \in Keys, NEW cost \in Nat
    PROVE  /\ Entry(key, cost) \in Costs
           /\ Entry(key, cost).cost = cost
           /\ cost > 0 => key \in Entry(key, cost).keys
BY DEF Entry, Costs

LEMMA ModelType ==
    ASSUME NEW m \in Models
    PROVE  /\ \A p \in Prices : m[p] \in Nat
           /\ m.term \in Nat /\ m.phrase \in Nat /\ m.wildcard \in Nat /\ m.leading \in Nat
           /\ m.matchAll \in Nat /\ m.range \in Nat /\ m.openRange \in Nat /\ m.orClause \in Nat
           /\ m.depth \in Nat /\ m.keywordWildcard \in Nat
           /\ \A field : Weight(m, field) \in Nat /\ Unfielded(m, field) \in Nat
<1>1. \A p \in Prices : m[p] \in Nat
      BY ModelsAssumption
<1>2. m.unlisted \in Nat /\ m.noField \in Nat
      BY <1>1 DEF Prices
<1>3. \A field : Weight(m, field) \in Nat /\ Unfielded(m, field) \in Nat
      BY <1>2, ModelsAssumption DEF Weight, Unfielded
<1>4. QED
      BY <1>1, <1>3 DEF Prices

LEMMA TermCostType ==
    ASSUME NEW m \in Models, NEW v, NEW field
    PROVE  TermCost(v, m, field) \in Costs
<1> DEFINE base    == Tenths(m.term * Point, Weight(m, field)) * Unfielded(m, field)
           leading == IF v[1] \in Wild THEN m.leading * Point ELSE 0
           keyword == IF IsKeyword(field) THEN m.keywordWildcard ELSE 1
<1>1. Point \in Nat
      BY DEF Point
<1>2. base \in Nat
      BY <1>1, ModelType, ProductType, TenthsType
<1>3. leading \in Nat /\ keyword \in Nat /\ m.matchAll * Point \in Nat
      BY <1>1, ModelType, ProductType
<1>4. (base * m.wildcard + leading) * keyword \in Nat
   <2> HIDE DEF base, leading, keyword
   <2>1. base * m.wildcard \in Nat
         BY <1>2, ModelType, ProductType
   <2>2. base * m.wildcard + leading \in Nat
         BY <1>3, <2>1
   <2>3. QED
         BY <1>3, <2>2, ProductType
<1>5. WildcardKey(v, field) \in Keys /\ {"match_all", "term"} \subseteq Keys
      BY DEF WildcardKey, Keys
<1>6. TermCost(v, m, field) = IF v = <<"*">> THEN Entry("match_all", m.matchAll * Point)
                              ELSE IF ~ Wildcard(v) THEN Entry("term", base)
                              ELSE Entry(WildcardKey(v, field), (base * m.wildcard + leading) * keyword)
      BY DEF TermCost
<1> HIDE DEF base, leading, keyword
<1>7. QED
      BY <1>2, <1>3, <1>4, <1>5, <1>6, EntryType

LEMMA PhraseCostType ==
    ASSUME NEW m \in Models, NEW v \in Seq(STRING), NEW field
    PROVE  PhraseCost(v, m, field) \in Costs
<1> DEFINE begins == {i \in DOMAIN v : v[i] \notin White /\ (i = 1 \/ v[i - 1] \in White)}
<1>1. IsFiniteSet(begins)
   <2>1. IsFiniteSet(1 .. Len(v)) /\ begins \subseteq 1 .. Len(v)
         BY FS_Interval
   <2>2. QED
         BY <2>1, FS_Subset
<1>2. Cardinality(begins) \in Nat
      BY <1>1, FS_CardinalityType
<1>3. Words(v) \in Nat
      BY <1>2 DEF Words
<1>4. Point \in Nat
      BY DEF Point
<1>5. Tenths(m.phrase * Point, Weight(m, field)) \in Nat
      BY <1>4, ModelType, ProductType, TenthsType
<1>6. Tenths(m.phrase * Point, Weight(m, field)) * Words(v) * Unfielded(m, field) \in Nat
      BY <1>3, <1>5, ModelType, ProductType
<1>7. QED
      BY <1>6, EntryType, "phrase" \in Keys DEF PhraseCost, Keys

LEMMA RangeCostType ==
    ASSUME NEW m \in Models, NEW n, NEW field
    PROVE  RangeCost(n, m, field) \in Costs
<1>1. Point \in Nat
      BY DEF Point
<1>2. Tenths(m.openRange * Point, Weight(m, field)) \in Nat /\ Tenths(m.range * Point, Weight(m, field)) \in Nat
      BY <1>1, ModelType, ProductType, TenthsType
<1>3. Tenths(m.range * Point, Weight(m, field)) * Unfielded(m, field) \in Nat
      BY <1>2, ModelType, ProductType
<1>4. QED
      BY <1>2, <1>3, EntryType, {"open_range", "range"} \subseteq Keys DEF RangeCost, Keys

Sums == [must : Nat, should : Nat, optional : Nat]

LEMMA AddClauseType ==
    ASSUME NEW sum \in Sums, NEW occur \in Occurs, NEW cost \in Nat
    PROVE  AddClause(sum, occur, cost) \in Sums
<1>1. Tenths(cost, 1) \in Nat
      BY TenthsType
<1>2. CASE occur = "must"
      BY <1>2 DEF AddClause, Sums
<1>3. CASE occur = "should"
   <2>1. AddClause(sum, occur, cost) = [sum EXCEPT !.should = @ + cost, !.optional = @ + 1]
         BY <1>3 DEF AddClause
   <2>2. sum.should + cost \in Nat /\ sum.optional + 1 \in Nat
         BY DEF Sums
   <2>3. [sum EXCEPT !.should = sum.should + cost, !.optional = sum.optional + 1] \in Sums
         BY <2>2 DEF Sums
   <2>4. QED
         BY <2>1, <2>3
<1>4. CASE occur = "must_not"
      BY <1>1, <1>4 DEF AddClause, Sums
<1>5. QED
      BY <1>2, <1>3, <1>4 DEF Occurs

\* The walk over the clauses is defined and adds up to something.
LEMMA SummedType ==
    ASSUME NEW cs, Len(cs) \in Nat, NEW costs,
           \A i \in 1 .. Len(cs) : cs[i].occur \in Occurs /\ costs[i] \in Nat
    PROVE  Summed(cs, costs) \in Sums
<1> DEFINE S       == 0 .. Len(cs)
           size    == [i \in S |-> i]
           Next1(g, i) == IF i = 0 THEN NoClauses ELSE AddClause(g[i - 1], cs[i].occur, costs[i])
           In(g)   == [i \in S |-> Next1(g, i)]
           step    == [g \in [S -> Sums] |-> In(g)]
           sum     == CHOOSE f : f = In(f)
<1>0. NoClauses \in Sums
      BY DEF NoClauses, Sums
<1>1. ASSUME NEW g, NEW i \in S, i # 0 => g[i - 1] \in Sums
      PROVE  Next1(g, i) \in Sums
   <2>1. CASE i = 0
         BY <1>0, <2>1
   <2>2. CASE i # 0
      <3>1. i \in 1 .. Len(cs)
            BY <2>2
      <3>2. QED
            BY <1>1, <2>2, <3>1, AddClauseType
   <2>3. QED
         BY <2>1, <2>2
<1>2. size \in [S -> Nat]
      OBVIOUS
<1>3. step \in [[S -> Sums] -> [S -> Sums]]
   <2>1. ASSUME NEW g \in [S -> Sums], NEW i \in S PROVE Next1(g, i) \in Sums
      <3>1. i # 0 => i - 1 \in S
            OBVIOUS
      <3>2. i # 0 => g[i - 1] \in Sums
            BY <3>1
      <3> HIDE DEF Next1
      <3>3. QED
            BY <1>1, <3>2
   <2> HIDE DEF Next1
   <2>2. QED
         BY <2>1
<1>4. ASSUME NEW g \in [S -> Sums], NEW h \in [S -> Sums], NEW i \in S,
             \A j \in S : size[j] < size[i] => g[j] = h[j]
      PROVE  step[g][i] = step[h][i]
   <2>1. i # 0 => i - 1 \in S /\ size[i - 1] < size[i]
         OBVIOUS
   <2>2. i # 0 => g[i - 1] = h[i - 1]
         BY <1>4, <2>1
   <2>3. Next1(g, i) = Next1(h, i)
         BY <2>2
   <2> HIDE DEF Next1
   <2>4. QED
         BY <2>3
<1>5. \E f : IsFixed(f, S, Sums, step)
   <2>1. IsLocal(S, size, Sums, step)
      <3> HIDE DEF S, size, step
      <3>1. QED
            BY <1>4 DEF IsLocal
   <2> HIDE DEF S, size, step
   <2>2. QED
         BY <1>0, <1>2, <1>3, <2>1, SizeRecursion
<1>6. \E f : f = In(f)
   <2>1. PICK f : f \in [S -> Sums] /\ f = step[f]
         BY <1>5 DEF IsFixed
   <2>2. step[f] = In(f)
         BY <2>1
   <2>3. QED
         BY <2>1, <2>2
<1>7. sum = In(sum)
   <2> HIDE DEF In
   <2>1. QED
         BY <1>6
<1>8. Summed(cs, costs) = sum[Len(cs)]
      BY DEF Summed
<1> HIDE DEF sum
<1>9. \A i \in S : sum[i] = Next1(sum, i)
      BY <1>7
<1> DEFINE T == {k \in Nat : k <= Len(cs) => sum[k] \in Sums}
<1>10. 0 \in T
   <2>1. 0 \in S
         OBVIOUS
   <2>2. Next1(sum, 0) \in Sums
         BY <1>0
   <2> HIDE DEF Next1
   <2>3. QED
         BY <1>9, <2>1, <2>2
<1>11. ASSUME NEW k \in Nat, k \in T PROVE k + 1 \in T
   <2>1. CASE k + 1 <= Len(cs)
      <3>1. k + 1 \in S /\ sum[(k + 1) - 1] \in Sums
            BY <1>11, <2>1
      <3>2. Next1(sum, k + 1) \in Sums
         <4> HIDE DEF Next1
         <4>1. QED
               BY <1>1, <3>1
      <3> HIDE DEF Next1
      <3>3. QED
            BY <1>9, <3>1, <3>2
   <2>2. CASE ~ (k + 1 <= Len(cs))
         BY <2>2
   <2>3. QED
         BY <2>1, <2>2
<1>12. Nat \subseteq T
   <2> HIDE DEF T
   <2>1. QED
         BY <1>10, <1>11, NumberInduction
<1>13. sum[Len(cs)] \in Sums
       BY <1>12
<1>14. QED
       BY <1>8, <1>13

LEMMA ClauseCostType ==
    ASSUME NEW child \in Costs, NEW occur, NEW weight \in Nat
    PROVE  ClauseCost(child, occur, weight) \in Costs
<1> DEFINE denied == Entry("must_not", IF occur = "must_not" THEN 2 * Point ELSE 0)
<1>1. denied \in Costs
      BY EntryType, "must_not" \in Keys, 2 * Point \in Nat DEF Keys, Point
<1>2. child.cost \in Nat /\ child.keys \subseteq Keys
      BY DEF Costs
<1>3. Tenths(child.cost, weight) \in Nat
      BY <1>2, TenthsType
<1>4. ClauseCost(child, occur, weight) =
          [cost |-> Tenths(child.cost, weight) + denied.cost, keys |-> child.keys \cup denied.keys]
      BY DEF ClauseCost, KeysOf
<1> HIDE DEF denied
<1>5. QED
      BY <1>1, <1>2, <1>3, <1>4 DEF Costs

LEMMA GroupCostType ==
    ASSUME NEW inner \in Costs, NEW m \in Models, NEW depth \in Nat
    PROVE  GroupCost(inner, m, depth) \in Costs
<1> DEFINE deeper == Entry("depth", m.depth * (depth + 1) * Point)
<1>1. m.depth * (depth + 1) * Point \in Nat
   <2>1. depth + 1 \in Nat /\ Point \in Nat
         BY DEF Point
   <2>2. QED
         BY <2>1, ModelType, ProductType
<1>2. deeper \in Costs
      BY <1>1, EntryType, "depth" \in Keys DEF Keys
<1>3. GroupCost(inner, m, depth) = [cost |-> inner.cost + deeper.cost, keys |-> inner.keys \cup deeper.keys]
      BY DEF GroupCost
<1> HIDE DEF deeper
<1>4. QED
      BY <1>2, <1>3 DEF Costs

LEMMA BooleanCostType ==
    ASSUME NEW cs, Len(cs) \in Nat, DOMAIN cs = 1 .. Len(cs), NEW m \in Models, NEW children,
           \A i \in DOMAIN cs : cs[i].occur \in Occurs /\ children[i] \in Costs
    PROVE  BooleanCost(cs, m, children) \in Costs
<1> DEFINE costs  == [i \in DOMAIN cs |-> children[i].cost]
           sum    == Summed(cs, costs)
           either == Entry("or_clauses", sum.optional * m.orClause * Point)
<1>1. BooleanCost(cs, m, children) =
          [cost |-> sum.must + sum.should + either.cost, keys |-> Shown(cs, children) \cup either.keys]
      BY DEF BooleanCost
<1>2. \A i \in 1 .. Len(cs) : cs[i].occur \in Occurs /\ costs[i] \in Nat
      BY DEF Costs
<1> HIDE DEF costs
<1>3. sum \in Sums
      BY <1>2, SummedType
<1> HIDE DEF sum
<1>4. either \in Costs
   <2>1. Point \in Nat /\ sum.optional \in Nat
         BY <1>3 DEF Point, Sums
   <2>2. sum.optional * m.orClause * Point \in Nat
         BY <2>1, ModelType, ProductType
   <2>3. QED
         BY <2>2, EntryType, "or_clauses" \in Keys DEF Keys
<1> HIDE DEF either
<1>5. Shown(cs, children) \subseteq Keys
      BY DEF Costs, Shown
<1>6. QED
      BY <1>1, <1>3, <1>4, <1>5 DEF Costs, Sums

LEMMA EstimateInType ==
    ASSUME NEW n \in Nodes, NEW m \in Models, NEW field \in Fields, NEW depth \in Nat, NEW g,
           \A at \in Pricings : Size(at[1]) < Size(n) => g[at] \in Costs
    PROVE  EstimateIn(g, n, m, field, depth) \in Costs
<1>0. /\ NoField \in Fields
      /\ \A c \in Nodes, f \in Fields, d \in Nat : Size(c) < Size(n) => g[<<c, m, f, d>>] \in Costs
      BY DEF Pricings, Fields
<1>1. CASE n.kind = "term"
      BY <1>1, TermCostType DEF EstimateIn
<1>2. CASE n.kind = "phrase"
      BY <1>2, PhraseCostType, NodesAssumption DEF EstimateIn
<1>3. CASE n.kind = "range"
      BY <1>3, RangeCostType DEF EstimateIn
<1>4. CASE n.kind = "group"
   <2>1. g[<<n.query, m, field, depth + 1>>] \in Costs
         BY <1>0, <1>4, SubtreesAreSmaller
   <2>2. EstimateIn(g, n, m, field, depth) = GroupCost(g[<<n.query, m, field, depth + 1>>], m, depth)
         BY <1>4 DEF EstimateIn
   <2>3. QED
         BY <2>1, <2>2, GroupCostType
<1>5. CASE n.kind = "clause"
   <2>1. g[<<n.term, m, n.field, depth>>] \in Costs
         BY <1>0, <1>5, SubtreesAreSmaller
   <2>2. EstimateIn(g, n, m, field, depth) = ClauseCost(g[<<n.term, m, n.field, depth>>], n.occur, Weight(m, n.field))
         BY <1>5 DEF EstimateIn
   <2>3. QED
         BY <2>1, <2>2, ClauseCostType, ModelType
<1>6. CASE n.kind = "boolean"
   <2> DEFINE children == [i \in DOMAIN n.clauses |-> g[<<n.clauses[i], m, NoField, depth>>]]
   <2>1. \A i \in DOMAIN n.clauses : children[i] \in Costs
         BY <1>0, <1>6, SubtreesAreSmaller
   <2>2. EstimateIn(g, n, m, field, depth) = BooleanCost(n.clauses, m, children)
         BY <1>6 DEF EstimateIn
   <2>3. Len(n.clauses) \in Nat /\ DOMAIN n.clauses = 1 .. Len(n.clauses)
         BY <1>6, NodesAssumption
   <2>4. \A i \in DOMAIN n.clauses : n.clauses[i].occur \in Occurs
         BY <1>6, SubtreesAreSmaller, NodesAssumption
   <2> HIDE DEF children
   <2>5. QED
         BY <2>1, <2>2, <2>3, <2>4, BooleanCostType
<1>7. QED
      BY <1>1, <1>2, <1>3, <1>4, <1>5, <1>6, NodesAssumption DEF Kinds, LeafKinds

LEMMA EstimateInLocal ==
    ASSUME NEW n \in Nodes, NEW m \in Models, NEW field \in Fields, NEW depth \in Nat, NEW g, NEW h,
           \A at \in Pricings : Size(at[1]) < Size(n) => g[at] = h[at]
    PROVE  EstimateIn(g, n, m, field, depth) = EstimateIn(h, n, m, field, depth)
<1>0. /\ NoField \in Fields
      /\ \A c \in Nodes, f \in Fields, d \in Nat :
            Size(c) < Size(n) => g[<<c, m, f, d>>] = h[<<c, m, f, d>>]
      BY DEF Pricings, Fields
<1>1. CASE n.kind = "term"
      BY <1>1 DEF EstimateIn
<1>2. CASE n.kind = "phrase"
      BY <1>2 DEF EstimateIn
<1>3. CASE n.kind = "range"
      BY <1>3 DEF EstimateIn
<1>4. CASE n.kind = "group"
   <2>1. g[<<n.query, m, field, depth + 1>>] = h[<<n.query, m, field, depth + 1>>]
         BY <1>0, <1>4, SubtreesAreSmaller
   <2>2. \A f \in {g, h} : EstimateIn(f, n, m, field, depth) = GroupCost(f[<<n.query, m, field, depth + 1>>], m, depth)
         BY <1>4 DEF EstimateIn
   <2>3. QED
         BY <2>1, <2>2
<1>5. CASE n.kind = "clause"
   <2>1. g[<<n.term, m, n.field, depth>>] = h[<<n.term, m, n.field, depth>>]
         BY <1>0, <1>5, SubtreesAreSmaller
   <2>2. \A f \in {g, h} : EstimateIn(f, n, m, field, depth)
                               = ClauseCost(f[<<n.term, m, n.field, depth>>], n.occur, Weight(m, n.field))
         BY <1>5 DEF EstimateIn
   <2>3. QED
         BY <2>1, <2>2
<1>6. CASE n.kind = "boolean"
   <2> DEFINE children(f) == [i \in DOMAIN n.clauses |-> f[<<n.clauses[i], m, NoField, depth>>]]
   <2>1. \A i \in DOMAIN n.clauses : g[<<n.clauses[i], m, NoField, depth>>] = h[<<n.clauses[i], m, NoField, depth>>]
         BY <1>0, <1>6, SubtreesAreSmaller
   <2>2. children(g) = children(h)
         BY <2>1
   <2>3. \A f \in {g, h} : EstimateIn(f, n, m, field, depth) = BooleanCost(n.clauses, m, children(f))
         BY <1>6 DEF EstimateIn
   <2> HIDE DEF children
   <2>4. QED
         BY <2>2, <2>3
<1>7. QED
      BY <1>1, <1>2, <1>3, <1>4, <1>5, <1>6, NodesAssumption DEF Kinds, LeafKinds

\* Estimated is defined: it satisfies its own equation.
LEMMA EstimatedDefined ==
    \A n \in Nodes, m \in Models, field \in Fields, depth \in Nat :
        /\ Estimated[<<n, m, field, depth>>] = EstimateIn(Estimated, n, m, field, depth)
        /\ Estimated[<<n, m, field, depth>>] \in Costs
<1> DEFINE size    == [at \in Pricings |-> Size(at[1])]
           In(g)   == [at \in Pricings |-> EstimateIn(g, at[1], at[2], at[3], at[4])]
           step    == [g \in [Pricings -> Costs] |-> In(g)]
<1>1. size \in [Pricings -> Nat]
      BY NodesAssumption DEF Pricings
<1>2. step \in [[Pricings -> Costs] -> [Pricings -> Costs]]
   <2>1. ASSUME NEW g \in [Pricings -> Costs], NEW at \in Pricings
         PROVE  EstimateIn(g, at[1], at[2], at[3], at[4]) \in Costs
      <3>1. at[1] \in Nodes /\ at[2] \in Models /\ at[3] \in Fields /\ at[4] \in Nat
            BY DEF Pricings
      <3>2. QED
            BY <3>1, EstimateInType
   <2>2. QED
         BY <2>1
<1>3. ASSUME NEW g \in [Pricings -> Costs], NEW h \in [Pricings -> Costs], NEW at \in Pricings,
             \A other \in Pricings : size[other] < size[at] => g[other] = h[other]
      PROVE  step[g][at] = step[h][at]
   <2>1. at[1] \in Nodes /\ at[2] \in Models /\ at[3] \in Fields /\ at[4] \in Nat
         BY DEF Pricings
   <2>2. EstimateIn(g, at[1], at[2], at[3], at[4]) = EstimateIn(h, at[1], at[2], at[3], at[4])
         BY <1>3, <2>1, EstimateInLocal
   <2>3. QED
         BY <2>2
<1>4. IsLocal(Pricings, size, Costs, step)
   <2> HIDE DEF size, step
   <2>1. QED
         BY <1>3 DEF IsLocal
<1>5. \E f : f = In(f)
   <2>1. [cost |-> 0, keys |-> {}] \in Costs
         BY DEF Costs
   <2>2. \E f : IsFixed(f, Pricings, Costs, step)
      <3> HIDE DEF size, step
      <3>1. QED
            BY <1>1, <1>2, <1>4, <2>1, SizeRecursion
   <2>3. QED
         BY <2>2 DEF IsFixed
<1>6. Estimated = In(Estimated)
      BY <1>5 DEF Estimated, Pricings
<1>7. \A n \in Nodes, m \in Models, field \in Fields, depth \in Nat :
          Estimated[<<n, m, field, depth>>] = EstimateIn(Estimated, n, m, field, depth)
      BY <1>6 DEF Pricings
<1> DEFINE T == {n \in Nodes : \A m \in Models, field \in Fields, depth \in Nat :
                                   Estimated[<<n, m, field, depth>>] \in Costs}
<1>8. Nodes \subseteq T
   <2>1. ASSUME NEW n \in Nodes, \A c \in Nodes : Size(c) < Size(n) => c \in T PROVE n \in T
      <3>1. \A at \in Pricings : Size(at[1]) < Size(n) => Estimated[at] \in Costs
            BY <2>1 DEF Pricings
      <3>2. \A m \in Models, field \in Fields, depth \in Nat : EstimateIn(Estimated, n, m, field, depth) \in Costs
            BY <3>1, EstimateInType
      <3>3. QED
            BY <1>7, <3>2
   <2> HIDE DEF T
   <2>2. QED
         BY <2>1, TreeInduction
<1>9. QED
      BY <1>7, <1>8

LEMMA EstimateType ==
    ASSUME NEW n \in Nodes, NEW m \in Models
    PROVE  Estimate(n, m).cost \in Nat
<1>1. NoField \in Fields
      BY DEF Fields
<1>2. Estimated[<<n, m, NoField, 0>>].cost \in Nat
      BY <1>1, EstimatedDefined DEF Costs
<1>3. \A x \in Nat : Round(x) \in Nat
   <2>1. Point \div 100 = 100 /\ 100 \div 2 = 50
         BY DEF Point
   <2>2. \A x \in Nat : ((x + 50) \div 100) * 100 \in Nat
         OBVIOUS
   <2>3. QED
         BY <2>1, <2>2 DEF Round
<1>4. QED
      BY <1>2, <1>3 DEF Estimate

-----------------------------------------------------------------------------
(* The cost in any order.                                                  *)

LEMMA UptoInduction ==
    ASSUME NEW N \in Nat, NEW T, 0 \in T, \A i \in 1 .. N : i - 1 \in T => i \in T
    PROVE  0 .. N \subseteq T
<1> DEFINE U == {k \in Nat : k <= N => k \in T}
<1>1. 0 \in U
      OBVIOUS
<1>2. ASSUME NEW k \in Nat, k \in U PROVE k + 1 \in U
   <2>1. CASE k + 1 <= N
      <3>1. k + 1 \in 1 .. N /\ (k + 1) - 1 = k /\ k \in T
            BY <1>2, <2>1
      <3>2. QED
            BY <3>1
   <2>2. CASE ~ (k + 1 <= N)
         BY <2>2
   <2>3. QED
         BY <2>1, <2>2
<1> HIDE DEF U
<1>3. Nat \subseteq U
      BY <1>1, <1>2, NumberInduction
<1>4. QED
      BY <1>3 DEF U

\* f goes from first to one value after the other.
Follows(f, N, V, first, next) ==
    /\ f \in [0 .. N -> V]
    /\ f = [i \in 0 .. N |-> IF i = 0 THEN first ELSE next[<<f[i - 1], i>>]]

LEMMA WalkExists ==
    ASSUME NEW N \in Nat, NEW V, NEW first \in V, NEW next \in [V \X (1 .. N) -> V]
    PROVE  \E f : Follows(f, N, V, first, next)
<1> DEFINE S     == 0 .. N
           size  == [i \in S |-> i]
           At(g, i) == IF i = 0 THEN first ELSE next[<<g[i - 1], i>>]
           In(g) == [i \in S |-> At(g, i)]
           step  == [g \in [S -> V] |-> In(g)]
<1>1. size \in [S -> Nat]
      OBVIOUS
<1>2. ASSUME NEW g \in [S -> V], NEW i \in S PROVE At(g, i) \in V
   <2>1. CASE i = 0
         BY <2>1
   <2>2. CASE i # 0
      <3>1. i - 1 \in S /\ i \in 1 .. N
            BY <2>2
      <3>2. <<g[i - 1], i>> \in V \X (1 .. N)
            BY <3>1
      <3>3. QED
            BY <2>2, <3>2
   <2>3. QED
         BY <2>1, <2>2
<1>3. step \in [[S -> V] -> [S -> V]]
   <2> HIDE DEF At, S
   <2>1. QED
         BY <1>2
<1>4. ASSUME NEW g \in [S -> V], NEW h \in [S -> V], NEW i \in S,
             \A j \in S : size[j] < size[i] => g[j] = h[j]
      PROVE  step[g][i] = step[h][i]
   <2>1. i # 0 => i - 1 \in S /\ size[i - 1] < size[i]
         OBVIOUS
   <2>2. i # 0 => g[i - 1] = h[i - 1]
         BY <1>4, <2>1
   <2>3. At(g, i) = At(h, i)
         BY <2>2
   <2> HIDE DEF At
   <2>4. QED
         BY <2>3
<1>5. IsLocal(S, size, V, step)
   <2> HIDE DEF S, size, step
   <2>1. QED
         BY <1>4 DEF IsLocal
<1>6. PICK f : IsFixed(f, S, V, step)
   <2> HIDE DEF S, size, step
   <2>1. QED
         BY <1>1, <1>3, <1>5, SizeRecursion
<1>7. f \in [S -> V] /\ f = step[f]
      BY <1>6 DEF IsFixed
<1>8. step[f] = In(f)
      BY <1>7
<1>9. QED
      BY <1>7, <1>8 DEF Follows

\* What Summed walks through.
Walk(sum, cs, costs) ==
    /\ sum \in [0 .. Len(cs) -> Sums]
    /\ sum[0] = NoClauses
    /\ \A i \in 1 .. Len(cs) : sum[i] = AddClause(sum[i - 1], cs[i].occur, costs[i])
    /\ Summed(cs, costs) = sum[Len(cs)]

LEMMA SummedWalks ==
    ASSUME NEW cs, Len(cs) \in Nat, NEW costs,
           \A i \in 1 .. Len(cs) : cs[i].occur \in Occurs /\ costs[i] \in Nat
    PROVE  \E sum : Walk(sum, cs, costs)
<1> DEFINE N     == Len(cs)
           next  == [p \in Sums \X (1 .. N) |-> AddClause(p[1], cs[p[2]].occur, costs[p[2]])]
           In(g) == [i \in 0 .. N |-> IF i = 0 THEN NoClauses ELSE AddClause(g[i - 1], cs[i].occur, costs[i])]
           sum   == CHOOSE f : f = In(f)
<1>0. NoClauses \in Sums
      BY DEF NoClauses, Sums
<1>1. next \in [Sums \X (1 .. N) -> Sums]
   <2>1. ASSUME NEW p \in Sums \X (1 .. N) PROVE AddClause(p[1], cs[p[2]].occur, costs[p[2]]) \in Sums
      <3>1. p[1] \in Sums /\ p[2] \in 1 .. N
            OBVIOUS
      <3>2. QED
            BY <3>1, AddClauseType
   <2>2. QED
         BY <2>1
<1>2. PICK f : Follows(f, N, Sums, NoClauses, next)
   <2> HIDE DEF next
   <2>1. QED
         BY <1>0, <1>1, WalkExists
<1>3. f = In(f)
   <2>0. f \in [0 .. N -> Sums]
         BY <1>2 DEF Follows
   <2>1. ASSUME NEW i \in 0 .. N
         PROVE  (IF i = 0 THEN NoClauses ELSE next[<<f[i - 1], i>>])
                   = (IF i = 0 THEN NoClauses ELSE AddClause(f[i - 1], cs[i].occur, costs[i]))
      <3>1. CASE i = 0
            BY <3>1
      <3>2. CASE i # 0
         <4>1. i - 1 \in 0 .. N /\ i \in 1 .. N
               BY <3>2
         <4>2. <<f[i - 1], i>> \in Sums \X (1 .. N)
               BY <2>0, <4>1
         <4>3. QED
               BY <3>2, <4>2
      <3>3. QED
            BY <3>1, <3>2
   <2> HIDE DEF next
   <2>2. QED
         BY <1>2, <2>1 DEF Follows
<1>4. sum = In(sum)
   <2> HIDE DEF In
   <2>1. QED
         BY <1>3
<1>5. Summed(cs, costs) = sum[N]
      BY DEF Summed
<1> HIDE DEF sum, next
<1>6. /\ sum[0] = NoClauses
      /\ \A i \in 1 .. N : sum[i] = AddClause(sum[i - 1], cs[i].occur, costs[i])
   <2>1. \A i \in 0 .. N : sum[i] = IF i = 0 THEN NoClauses ELSE AddClause(sum[i - 1], cs[i].occur, costs[i])
         BY <1>4
   <2>2. QED
         BY <2>1
<1>7. \A i \in 0 .. N : sum[i] \in Sums
   <2> DEFINE T == {i \in 0 .. N : sum[i] \in Sums}
   <2>1. 0 \in T
         BY <1>0, <1>6
   <2>2. ASSUME NEW i \in 1 .. N, i - 1 \in T PROVE i \in T
      <3>1. sum[i - 1] \in Sums /\ cs[i].occur \in Occurs /\ costs[i] \in Nat
            BY <2>2
      <3>2. AddClause(sum[i - 1], cs[i].occur, costs[i]) \in Sums
            BY <3>1, AddClauseType
      <3>3. QED
            BY <1>6, <3>2
   <2> HIDE DEF T
   <2>3. 0 .. N \subseteq T
         BY <2>1, <2>2, UptoInduction
   <2>4. QED
         BY <2>3 DEF T
<1>8. sum \in [0 .. N -> Sums]
   <2>1. sum = [i \in 0 .. N |-> sum[i]]
         BY <1>4
   <2>2. QED
         BY <1>7, <2>1
<1>9. Walk(sum, cs, costs)
      BY <1>5, <1>6, <1>8 DEF Walk
<1>10. QED
       BY <1>9

\* What Total walks through.
Adds(sum, amounts) ==
    /\ sum \in [0 .. Len(amounts) -> Nat]
    /\ sum[0] = 0
    /\ \A i \in 1 .. Len(amounts) : sum[i] = sum[i - 1] + amounts[i]
    /\ Total(amounts) = sum[Len(amounts)]

LEMMA TotalAdds ==
    ASSUME NEW amounts, Len(amounts) \in Nat, \A i \in 1 .. Len(amounts) : amounts[i] \in Nat
    PROVE  \E sum : Adds(sum, amounts)
<1> DEFINE N     == Len(amounts)
           next  == [p \in Nat \X (1 .. N) |-> p[1] + amounts[p[2]]]
           In(g) == [i \in 0 .. N |-> IF i = 0 THEN 0 ELSE g[i - 1] + amounts[i]]
           sum   == CHOOSE f : f = In(f)
<1>1. next \in [Nat \X (1 .. N) -> Nat]
      OBVIOUS
<1>2. PICK f : Follows(f, N, Nat, 0, next)
   <2> HIDE DEF next
   <2>1. QED
         BY <1>1, WalkExists
<1>3. f = In(f)
   <2>0. f \in [0 .. N -> Nat]
         BY <1>2 DEF Follows
   <2>1. ASSUME NEW i \in 0 .. N
         PROVE  (IF i = 0 THEN 0 ELSE next[<<f[i - 1], i>>]) = (IF i = 0 THEN 0 ELSE f[i - 1] + amounts[i])
      <3>1. CASE i = 0
            BY <3>1
      <3>2. CASE i # 0
         <4>1. i - 1 \in 0 .. N /\ i \in 1 .. N
               BY <3>2
         <4>2. <<f[i - 1], i>> \in Nat \X (1 .. N)
               BY <2>0, <4>1
         <4>3. QED
               BY <3>2, <4>2
      <3>3. QED
            BY <3>1, <3>2
   <2> HIDE DEF next
   <2>2. QED
         BY <1>2, <2>1 DEF Follows
<1>4. sum = In(sum)
   <2> HIDE DEF In
   <2>1. QED
         BY <1>3
<1>5. Total(amounts) = sum[N]
      BY DEF Total
<1> HIDE DEF sum, next
<1>6. sum[0] = 0 /\ \A i \in 1 .. N : sum[i] = sum[i - 1] + amounts[i]
   <2>1. \A i \in 0 .. N : sum[i] = IF i = 0 THEN 0 ELSE sum[i - 1] + amounts[i]
         BY <1>4
   <2>2. QED
         BY <2>1
<1>7. \A i \in 0 .. N : sum[i] \in Nat
   <2> DEFINE T == {i \in 0 .. N : sum[i] \in Nat}
   <2>1. 0 \in T
         BY <1>6
   <2>2. ASSUME NEW i \in 1 .. N, i - 1 \in T PROVE i \in T
         BY <1>6, <2>2
   <2> HIDE DEF T
   <2>3. 0 .. N \subseteq T
         BY <2>1, <2>2, UptoInduction
   <2>4. QED
         BY <2>3 DEF T
<1>8. sum \in [0 .. N -> Nat]
   <2>1. sum = [i \in 0 .. N |-> sum[i]]
         BY <1>4
   <2>2. QED
         BY <1>7, <2>1
<1>9. QED
      BY <1>5, <1>6, <1>8 DEF Adds

LEMMA AddClauseGives ==
    ASSUME NEW sum \in Sums, NEW cost
    PROVE  /\ AddClause(sum, "must", cost).must = IF cost > sum.must THEN cost ELSE sum.must
           /\ AddClause(sum, "must", cost).should = sum.should
           /\ AddClause(sum, "must", cost).optional = sum.optional
           /\ AddClause(sum, "should", cost).must = sum.must
           /\ AddClause(sum, "should", cost).should = sum.should + cost
           /\ AddClause(sum, "should", cost).optional = sum.optional + 1
           /\ AddClause(sum, "must_not", cost).must = sum.must + Tenths(cost, 1)
           /\ AddClause(sum, "must_not", cost).should = sum.should
           /\ AddClause(sum, "must_not", cost).optional = sum.optional
BY DEF AddClause, Sums

LEMMA TenthsGrows ==
    ASSUME NEW x \in Nat, NEW y \in Nat, NEW w \in Nat, x <= y
    PROVE  Tenths(x, w) <= Tenths(y, w)
<1>1. x * w <= y * w
   <2>1. y * w = x * w + (y - x) * w
         OBVIOUS
   <2>2. y - x \in Nat
         OBVIOUS
   <2>3. (y - x) * w \in Nat /\ x * w \in Nat
         BY <2>2, ProductType
   <2>4. QED
         BY <2>1, <2>3
<1>2. \A a, b \in Nat : a <= b => a \div 10 <= b \div 10
      OBVIOUS
<1>3. x * w \in Nat /\ y * w \in Nat
      BY ProductType
<1>4. QED
      BY <1>1, <1>2, <1>3 DEF Tenths

LEMMA RoundGrows ==
    \A x, y \in Nat : x <= y => Round(x) <= Round(y)
<1>1. Point \div 100 = 100 /\ 100 \div 2 = 50
      BY DEF Point
<1>2. \A x, y \in Nat : x <= y => ((x + 50) \div 100) * 100 <= ((y + 50) \div 100) * 100
      OBVIOUS
<1>3. QED
      BY <1>1, <1>2 DEF Round

\* The greatest of a set is unique.
LEMMA MaxIs ==
    ASSUME NEW S \in SUBSET Nat, NEW x \in S, \A y \in S : y <= x
    PROVE  Max(S) = x
<1>1. \A y \in S : x >= y
      OBVIOUS
<1>2. Max(S) \in S /\ \A y \in S : Max(S) >= y
      BY <1>1 DEF Max
<1>3. Max(S) \in Nat /\ x \in Nat
      BY <1>2
<1>4. Max(S) >= x /\ x >= Max(S)
      BY <1>1, <1>2
<1>5. QED
      BY <1>3, <1>4

\* What is added to both sides of a bound leaves it standing.
LEMMA BothAdded ==
    ASSUME NEW a \in Nat, NEW b \in Nat, NEW c \in Nat, NEW d \in Nat, NEW e \in Nat, NEW p \in Nat,
           a + b <= p, c <= d
    PROVE  (a + c) + (b + e) <= p + (d + e)
OBVIOUS

LEMMA ShareAdded ==
    ASSUME NEW a \in Nat, NEW x \in Nat, NEW n \in Nat, NEW c \in Nat, NEW d \in Nat,
           a <= x + n, c <= d
    PROVE  a + c <= x + (n + d)
OBVIOUS

LEMMA ProductsRegrouped ==
    ASSUME NEW a \in Nat, NEW b \in Nat, NEW c \in Nat
    PROVE  a * b * c = a * (b * c)
OBVIOUS

\* Clauses that cost no more than in any order, and just that if early is empty.
NoDearer(cs, costs, docs, early) ==
    /\ Len(cs) \in Nat /\ DOMAIN cs = 1 .. Len(cs)
    /\ \A i \in 1 .. Len(cs) : /\ cs[i].occur \in Occurs
                               /\ costs[i] \in Nat /\ docs[i] \in Nat /\ costs[i] <= docs[i]
    /\ early = {} => Early(cs) = {} /\ \A i \in 1 .. Len(cs) : costs[i] = docs[i]

\* What the walk of booleanCost holds is no more than the sums of
\* the clauses so far, and just that if no negated clause comes too early.
LEMMA WalkIsOrderless ==
    ASSUME NEW cs, NEW m \in Models, NEW costs, NEW docs, NEW early, NoDearer(cs, costs, docs, early)
    PROVE  LET sum  == Summed(cs, costs)
               cost == sum.must + sum.should + sum.optional * m.orClause * Point
           IN  /\ cost <= Combined(cs, m, docs)
               /\ early = {} => cost = Combined(cs, m, docs)
               /\ Combined(cs, m, docs) \in Nat
<1> DEFINE N     == Len(cs)
           opt   == Only(cs, "should", [i \in DOMAIN cs |-> docs[i] + m.orClause * Point])
           neg   == Only(cs, "must_not", [i \in DOMAIN cs |-> Tenths(docs[i], 1)])
           Req(k) == {0} \cup {docs[i] : i \in {j \in DOMAIN cs : cs[j].occur = "must" /\ j <= k}}
<1>0. /\ N \in Nat /\ DOMAIN cs = 1 .. N
      /\ \A i \in 1 .. N : /\ cs[i].occur \in Occurs
                           /\ costs[i] \in Nat /\ docs[i] \in Nat /\ costs[i] <= docs[i]
      /\ early = {} => Early(cs) = {} /\ \A i \in 1 .. N : costs[i] = docs[i]
      BY DEF NoDearer
<1>1. PICK fine \in Nat : fine = m.orClause * Point
   <2>1. m.orClause \in Nat /\ Point \in Nat
         BY ModelType DEF Point
   <2>2. QED
         BY <2>1, ProductType
<1>2. /\ DOMAIN opt = 1 .. N /\ DOMAIN neg = 1 .. N
      /\ \A i \in 1 .. N : opt[i] = IF cs[i].occur = "should" THEN docs[i] + fine ELSE 0
      /\ \A i \in 1 .. N : neg[i] = IF cs[i].occur = "must_not" THEN Tenths(docs[i], 1) ELSE 0
      BY <1>1 DEF Only
<1>3. Len(opt) = N /\ Len(neg) = N
      BY <1>2
<1>4. \A i \in 1 .. N : opt[i] \in Nat /\ neg[i] \in Nat /\ Tenths(docs[i], 1) \in Nat
   <2> HIDE DEF opt, neg
   <2>1. ASSUME NEW i \in 1 .. N PROVE Tenths(docs[i], 1) \in Nat /\ docs[i] + fine \in Nat
      <3>1. docs[i] \in Nat /\ fine \in Nat
            BY <1>0, <1>1
      <3>2. docs[i] + fine \in Nat
            BY <3>1
      <3>3. Tenths(docs[i], 1) \in Nat
            BY <3>1, TenthsType
      <3>4. QED
            BY <3>2, <3>3
   <2>2. QED
         BY <1>2, <2>1
<1>5. PICK sum : Walk(sum, cs, costs)
      BY <1>0, SummedWalks
<1> HIDE DEF opt, neg
<1>6. PICK o : Adds(o, opt)
      BY <1>3, <1>4, TotalAdds
<1>7. PICK n : Adds(n, neg)
      BY <1>3, <1>4, TotalAdds
<1>8. /\ o \in [0 .. N -> Nat] /\ o[0] = 0 /\ \A i \in 1 .. N : o[i] = o[i - 1] + opt[i]
      /\ n \in [0 .. N -> Nat] /\ n[0] = 0 /\ \A i \in 1 .. N : n[i] = n[i - 1] + neg[i]
      /\ Total(opt) = o[N] /\ Total(neg) = n[N]
      BY <1>3, <1>6, <1>7 DEF Adds
<1>9. /\ sum \in [0 .. N -> Sums] /\ sum[0] = NoClauses
      /\ \A i \in 1 .. N : sum[i] = AddClause(sum[i - 1], cs[i].occur, costs[i])
      /\ Summed(cs, costs) = sum[N]
      BY <1>5 DEF Walk

<1>10. ASSUME NEW i \in 1 .. N
       PROVE  /\ i - 1 \in 0 .. N /\ i \in 0 .. N /\ i \in DOMAIN cs
              /\ sum[i - 1] \in Sums /\ sum[i] \in Sums
              /\ sum[i - 1].must \in Nat /\ sum[i - 1].should \in Nat /\ sum[i - 1].optional \in Nat
              /\ o[i - 1] \in Nat /\ n[i - 1] \in Nat
   <2>1. i - 1 \in 0 .. N /\ i \in 0 .. N /\ i \in DOMAIN cs
         OBVIOUS
   <2>2. sum[i - 1] \in Sums /\ sum[i] \in Sums
         BY <1>9, <2>1
   <2>3. \A s \in Sums : s.must \in Nat /\ s.should \in Nat /\ s.optional \in Nat
         BY DEF Sums
   <2>4. o[i - 1] \in Nat /\ n[i - 1] \in Nat
         BY <1>8, <2>1
   <2>5. QED
         BY <2>1, <2>2, <2>3, <2>4
<1>11. ASSUME NEW i \in 1 .. N, cs[i].occur = "must"
       PROVE  /\ sum[i].must = IF costs[i] > sum[i - 1].must THEN costs[i] ELSE sum[i - 1].must
              /\ sum[i].should = sum[i - 1].should /\ sum[i].optional = sum[i - 1].optional
              /\ o[i] = o[i - 1] /\ n[i] = n[i - 1]
   <2>1. sum[i] = AddClause(sum[i - 1], "must", costs[i])
         BY <1>9, <1>11
   <2>2. o[i] = o[i - 1] + 0 /\ n[i] = n[i - 1] + 0
         BY <1>2, <1>8, <1>11
   <2>3. sum[i - 1] \in Sums /\ o[i - 1] \in Nat /\ n[i - 1] \in Nat
         BY <1>10
   <2>4. o[i] = o[i - 1] /\ n[i] = n[i - 1]
         BY <2>2, <2>3
   <2>5. /\ sum[i].must = IF costs[i] > sum[i - 1].must THEN costs[i] ELSE sum[i - 1].must
         /\ sum[i].should = sum[i - 1].should /\ sum[i].optional = sum[i - 1].optional
         BY <2>1, <2>3, AddClauseGives
   <2>6. QED
         BY <2>4, <2>5, Zenon
<1>12. ASSUME NEW i \in 1 .. N, cs[i].occur = "should"
       PROVE  /\ sum[i].must = sum[i - 1].must /\ sum[i].should = sum[i - 1].should + costs[i]
              /\ sum[i].optional = sum[i - 1].optional + 1
              /\ o[i] = o[i - 1] + (docs[i] + fine) /\ n[i] = n[i - 1]
   <2>1. sum[i] = AddClause(sum[i - 1], "should", costs[i])
         BY <1>9, <1>12
   <2>2. o[i] = o[i - 1] + (docs[i] + fine)
         BY <1>2, <1>8, <1>12
   <2>3. n[i] = n[i - 1] + 0
         BY <1>2, <1>8, <1>12
   <2>4. sum[i - 1] \in Sums /\ n[i - 1] \in Nat
         BY <1>10
   <2>5. n[i] = n[i - 1]
         BY <2>3, <2>4
   <2>6. /\ sum[i].must = sum[i - 1].must /\ sum[i].should = sum[i - 1].should + costs[i]
         /\ sum[i].optional = sum[i - 1].optional + 1
         BY <2>1, <2>4, AddClauseGives
   <2>7. QED
         BY <2>2, <2>5, <2>6
<1>13. ASSUME NEW i \in 1 .. N, cs[i].occur = "must_not"
       PROVE  /\ sum[i].must = sum[i - 1].must + Tenths(costs[i], 1)
              /\ sum[i].should = sum[i - 1].should /\ sum[i].optional = sum[i - 1].optional
              /\ o[i] = o[i - 1] /\ n[i] = n[i - 1] + Tenths(docs[i], 1)
   <2>1. sum[i] = AddClause(sum[i - 1], "must_not", costs[i])
         BY <1>9, <1>13
   <2>2. o[i] = o[i - 1] + 0 /\ n[i] = n[i - 1] + Tenths(docs[i], 1)
         BY <1>2, <1>8, <1>13
   <2>3. sum[i - 1] \in Sums /\ o[i - 1] \in Nat
         BY <1>10
   <2>4. o[i] = o[i - 1]
         BY <2>2, <2>3
   <2>5. /\ sum[i].must = sum[i - 1].must + Tenths(costs[i], 1)
         /\ sum[i].should = sum[i - 1].should /\ sum[i].optional = sum[i - 1].optional
         BY <2>1, <2>3, AddClauseGives
   <2>6. QED
         BY <2>2, <2>4, <2>5, Zenon
<1>14. (\A k \in 0 .. N : Req(k) \in SUBSET Nat) /\ Req(0) = {0}
   <2>1. \A j \in DOMAIN cs : docs[j] \in Nat /\ ~ (j <= 0)
         BY <1>0
   <2>2. QED
         BY <2>1
<1>15. ASSUME NEW i \in 1 .. N
       PROVE  Req(i) = IF cs[i].occur = "must" THEN Req(i - 1) \cup {docs[i]} ELSE Req(i - 1)
   <2>1. \A j \in DOMAIN cs : j <= i <=> j <= i - 1 \/ j = i
         OBVIOUS
   <2>2. i \in DOMAIN cs
         OBVIOUS
   <2>3. QED
         BY <2>1, <2>2
<1>16. Req(N) = {0} \cup {docs[i] : i \in {j \in DOMAIN cs : cs[j].occur = "must"}}
   <2>1. \A j \in DOMAIN cs : j <= N
         OBVIOUS
   <2>2. QED
         BY <2>1
<1> HIDE DEF Req
<1> DEFINE Paid(k)  == \E x \in Req(k) : /\ \A y \in Req(k) : y <= x
                                         /\ sum[k].must <= x + n[k]
                                         /\ early = {} => sum[k].must = x + n[k]
           Fined(k) == /\ sum[k].should + sum[k].optional * fine <= o[k]
                       /\ early = {} => sum[k].should + sum[k].optional * fine = o[k]
           Clean(k) == (\A j \in 1 .. k : cs[j].occur # "must_not") => n[k] = 0
           T        == {k \in 0 .. N : Paid(k) /\ Fined(k) /\ Clean(k)}
<1>17. 0 \in T
   <2>1. sum[0].must = 0 /\ sum[0].should = 0 /\ sum[0].optional = 0 /\ n[0] = 0 /\ o[0] = 0
         BY <1>8, <1>9 DEF NoClauses
   <2>2. 0 * fine = 0
         BY <1>1
   <2>3. 0 \in 0 .. N
         OBVIOUS
   <2>4. QED
         BY <1>14, <2>1, <2>2, <2>3
<1>18. ASSUME NEW i \in 1 .. N, i - 1 \in T PROVE Fined(i)
   <2>1. /\ sum[i - 1].should + sum[i - 1].optional * fine <= o[i - 1]
         /\ early = {} => sum[i - 1].should + sum[i - 1].optional * fine = o[i - 1]
         BY <1>18
   <2>2. CASE cs[i].occur = "should"
      <3> DEFINE done == sum[i - 1].optional * fine
      <3>1. (sum[i - 1].optional + 1) * fine = done + fine
            BY <1>1, <1>10
      <3>2. done \in Nat /\ fine \in Nat /\ costs[i] \in Nat /\ docs[i] \in Nat /\ costs[i] <= docs[i]
            BY <1>0, <1>1, <1>10, ProductType
      <3>3. early = {} => costs[i] = docs[i]
            BY <1>0
      <3>4. sum[i].optional * fine = done + fine
            BY <1>12, <2>2, <3>1
      <3> HIDE DEF done
      <3>5. /\ sum[i].should = sum[i - 1].should + costs[i] /\ o[i] = o[i - 1] + (docs[i] + fine)
            /\ sum[i - 1].should \in Nat /\ o[i - 1] \in Nat
            BY <1>10, <1>12, <2>2
      <3>6. /\ sum[i - 1].should + done <= o[i - 1]
            /\ early = {} => sum[i - 1].should + done = o[i - 1]
            BY <2>1 DEF done
      <3>7. sum[i].should + (done + fine) <= o[i]
         <4>1. (sum[i - 1].should + costs[i]) + (done + fine) <= o[i - 1] + (docs[i] + fine)
               BY <3>2, <3>5, <3>6, BothAdded, Zenon
         <4>2. QED
               BY <3>5, <4>1, Zenon
      <3>8. ASSUME early = {} PROVE sum[i].should + (done + fine) = o[i]
         <4>1. costs[i] = docs[i] /\ sum[i - 1].should + done = o[i - 1]
               BY <3>3, <3>6, <3>8
         <4>2. QED
               BY <3>2, <3>5, <4>1
      <3>9. QED
            BY <3>4, <3>7, <3>8
   <2>3. CASE cs[i].occur # "should"
      <3>1. sum[i].should = sum[i - 1].should /\ sum[i].optional = sum[i - 1].optional /\ o[i] = o[i - 1]
            BY <1>0, <1>11, <1>13, <2>3 DEF Occurs
      <3>2. QED
            BY <2>1, <3>1
   <2>4. QED
         BY <2>2, <2>3
<1>19. ASSUME NEW i \in 1 .. N, i - 1 \in T PROVE Clean(i)
   <2>1. CASE cs[i].occur = "must_not"
      <3>1. i \in 1 .. i
            OBVIOUS
      <3>2. QED
            BY <2>1, <3>1
   <2>2. CASE cs[i].occur # "must_not"
      <3>1. n[i] = n[i - 1]
            BY <1>0, <1>11, <1>12, <2>2 DEF Occurs
      <3>2. \A j \in 1 .. i - 1 : j \in 1 .. i
            OBVIOUS
      <3>3. QED
            BY <1>19, <3>1, <3>2
   <2>3. QED
         BY <2>1, <2>2
<1>20. ASSUME NEW i \in 1 .. N, i - 1 \in T PROVE Paid(i)
   <2>0. Paid(i - 1)
      <3> HIDE DEF Paid
      <3>1. QED
            BY <1>20
   <2>1. PICK x \in Req(i - 1) : /\ \A y \in Req(i - 1) : y <= x
                                 /\ sum[i - 1].must <= x + n[i - 1]
                                 /\ early = {} => sum[i - 1].must = x + n[i - 1]
         BY <2>0
   <2>2. /\ x \in Nat /\ sum[i - 1].must \in Nat /\ n[i - 1] \in Nat
         /\ costs[i] \in Nat /\ docs[i] \in Nat /\ costs[i] <= docs[i]
         /\ early = {} => costs[i] = docs[i]
         BY <1>0, <1>10, <1>14
   <2>3. CASE cs[i].occur = "must"
      <3> DEFINE z == IF docs[i] > x THEN docs[i] ELSE x
      <3>1. Req(i) = Req(i - 1) \cup {docs[i]}
            BY <1>15, <2>3
      <3>2. Req(i - 1) \in SUBSET Nat
            BY <1>10, <1>14
      <3>3. z \in Req(i) /\ \A y \in Req(i) : y <= z
            BY <2>1, <2>2, <3>1, <3>2
      <3>4. sum[i].must = (IF costs[i] > sum[i - 1].must THEN costs[i] ELSE sum[i - 1].must) /\ n[i] = n[i - 1]
            BY <1>11, <2>3
      <3>5. early = {} => n[i - 1] = 0
         <4>1. SUFFICES ASSUME early = {} PROVE n[i - 1] = 0
               OBVIOUS
         <4>2. ASSUME NEW j \in 1 .. i - 1 PROVE cs[j].occur # "must_not"
            <5>1. j \in DOMAIN cs /\ i \in DOMAIN cs /\ j < i
                  OBVIOUS
            <5>2. cs[j].occur = "must_not" => cs[j] \in Early(cs)
                  BY <2>3, <5>1 DEF Early
            <5>3. QED
                  BY <1>0, <4>1, <5>2
         <4>3. QED
               BY <1>20, <4>2
      <3>6. sum[i].must <= z + n[i] /\ (early = {} => sum[i].must = z + n[i])
         <4>1. z \in Nat /\ x <= z /\ docs[i] <= z /\ (z = docs[i] \/ z = x)
               BY <2>2
         <4>2. sum[i - 1].must <= x + n[i - 1] /\ n[i] = n[i - 1]
               BY <2>1, <3>4
         <4> DEFINE before == sum[i - 1].must
                    here   == sum[i].must
         <4>3. here = IF costs[i] > before THEN costs[i] ELSE before
               BY <3>4
         <4>4. before \in Nat
               BY <2>2
         <4>5. ASSUME early = {} PROVE before = x /\ costs[i] = docs[i] /\ n[i] = 0
               BY <2>1, <2>2, <3>4, <3>5, <4>5
         <4>6. ASSUME early = {} PROVE here = z
               BY <2>2, <4>3, <4>5, <4>6
         <4> HIDE DEF z, before, here
         <4>7. here <= z + n[i]
            <5>1. CASE costs[i] > before
                  BY <2>2, <4>1, <4>2, <4>3, <5>1
            <5>2. CASE ~ (costs[i] > before)
                  BY <2>2, <4>1, <4>2, <4>3, <4>4, <5>2 DEF before
            <5>3. QED
                  BY <5>1, <5>2
         <4>8. ASSUME early = {} PROVE here = z + n[i]
               BY <4>1, <4>5, <4>6, <4>8
         <4>9. QED
               BY <4>7, <4>8 DEF here
      <3> HIDE DEF z
      <3>7. QED
            BY <3>3, <3>6
   <2>4. CASE cs[i].occur = "must_not"
      <3>1. Req(i) = Req(i - 1)
            BY <1>15, <2>4
      <3>2. sum[i].must = sum[i - 1].must + Tenths(costs[i], 1) /\ n[i] = n[i - 1] + Tenths(docs[i], 1)
            BY <1>13, <2>4
      <3>3. /\ Tenths(costs[i], 1) \in Nat /\ Tenths(docs[i], 1) \in Nat
            /\ Tenths(costs[i], 1) <= Tenths(docs[i], 1)
            BY <2>2, TenthsType, TenthsGrows
      <3>4. early = {} => Tenths(costs[i], 1) = Tenths(docs[i], 1)
            BY <2>2
      <3>5. sum[i].must <= x + n[i] /\ (early = {} => sum[i].must = x + n[i])
         <4> DEFINE c == Tenths(costs[i], 1)
                    d == Tenths(docs[i], 1)
         <4>1. sum[i - 1].must <= x + n[i - 1] /\ c <= d
               BY <2>1, <3>3
         <4>2. c \in Nat /\ d \in Nat
               BY <3>3
         <4>3. sum[i].must = sum[i - 1].must + c /\ n[i] = n[i - 1] + d
               BY <3>2
         <4> HIDE DEF c, d
         <4>4. sum[i - 1].must + c <= x + (n[i - 1] + d)
               BY <2>2, <4>1, <4>2, ShareAdded, Zenon
         <4>5. ASSUME early = {} PROVE sum[i - 1].must + c = x + (n[i - 1] + d)
            <5>1. sum[i - 1].must = x + n[i - 1] /\ c = d
                  BY <2>1, <3>4, <4>5 DEF c, d
            <5>2. (x + n[i - 1]) + d = x + (n[i - 1] + d)
                  BY <2>2, <4>2
            <5>3. QED
                  BY <5>1, <5>2, Zenon
         <4>6. QED
               BY <4>3, <4>4, <4>5, Zenon
      <3>6. QED
            BY <2>1, <3>1, <3>5
   <2>5. CASE cs[i].occur = "should"
      <3>1. Req(i) = Req(i - 1)
            BY <1>15, <2>5
      <3>2. sum[i].must = sum[i - 1].must /\ n[i] = n[i - 1]
            BY <1>12, <2>5
      <3>3. QED
            BY <2>1, <3>1, <3>2
   <2>6. QED
         BY <1>0, <2>3, <2>4, <2>5 DEF Occurs
<1>21. N \in T
   <2>1. \A i \in 1 .. N : i - 1 \in T => i \in T
      <3> HIDE DEF Paid, Fined, Clean
      <3>1. QED
            BY <1>18, <1>19, <1>20
   <2> HIDE DEF T
   <2>2. 0 .. N \subseteq T
         BY <1>0, <1>17, <2>1, UptoInduction
   <2>3. QED
         BY <1>0, <2>2
<1> DEFINE cost  == sum[N].must + sum[N].should + sum[N].optional * m.orClause * Point
           whole == Max(Req(N)) + o[N] + n[N]
<1>22. sum[N].must \in Nat /\ sum[N].should \in Nat /\ sum[N].optional \in Nat /\ o[N] \in Nat /\ n[N] \in Nat
   <2>1. N \in 0 .. N
         OBVIOUS
   <2>2. QED
         BY <1>8, <1>9, <2>1 DEF Sums
<1>23. cost <= whole /\ (early = {} => cost = whole) /\ whole \in Nat
   <2> DEFINE done == sum[N].optional * fine
   <2>1. sum[N].optional * m.orClause * Point = done /\ done \in Nat
      <3>1. m.orClause \in Nat /\ Point \in Nat
            BY ModelType DEF Point
      <3>2. sum[N].optional * m.orClause * Point = sum[N].optional * (m.orClause * Point)
            BY <1>22, <3>1, ProductsRegrouped
      <3>3. sum[N].optional * fine \in Nat
            BY <1>1, <1>22, ProductType, Zenon
      <3>4. QED
            BY <1>1, <3>2, <3>3, Zenon
   <2>0. Paid(N) /\ Fined(N)
      <3> HIDE DEF Paid, Fined
      <3>1. QED
            BY <1>21
   <2>2. PICK x \in Req(N) : /\ \A y \in Req(N) : y <= x
                             /\ sum[N].must <= x + n[N]
                             /\ early = {} => sum[N].must = x + n[N]
         BY <2>0
   <2>3. Req(N) \in SUBSET Nat
         BY <1>14
   <2>4. Max(Req(N)) = x /\ x \in Nat
         BY <2>2, <2>3, MaxIs
   <2>5. sum[N].should + done <= o[N] /\ (early = {} => sum[N].should + done = o[N])
         BY <2>0
   <2>6. cost = sum[N].must + sum[N].should + done /\ whole = x + o[N] + n[N]
         BY <2>1, <2>4
   <2> HIDE DEF done, cost, whole
   <2>7. cost <= whole
      <3>1. \A a, b, c, p, q, r \in Nat : a <= p + r /\ b + c <= q => a + b + c <= p + q + r
            OBVIOUS
      <3>2. QED
            BY <1>22, <2>1, <2>2, <2>4, <2>5, <2>6, <3>1
   <2>8. ASSUME early = {} PROVE cost = whole
      <3>1. sum[N].must = x + n[N] /\ sum[N].should + done = o[N]
            BY <2>2, <2>5, <2>8
      <3>2. cost = (x + n[N]) + sum[N].should + done /\ whole = x + (sum[N].should + done) + n[N]
            BY <2>6, <3>1
      <3>3. (x + n[N]) + sum[N].should + done = x + (sum[N].should + done) + n[N]
            BY <1>22, <2>1, <2>4
      <3>4. QED
            BY <3>2, <3>3, Zenon
   <2>9. whole \in Nat
         BY <1>22, <2>4, <2>6
   <2>10. QED
         BY <2>7, <2>8, <2>9
<1>24. Combined(cs, m, docs) = whole
       BY <1>8, <1>16 DEF Combined, opt, neg
<1>25. QED
       BY <1>9, <1>23, <1>24

\* The order-free cost of a boolean is a number.
LEMMA CombinedType ==
    ASSUME NEW cs, Len(cs) \in Nat, DOMAIN cs = 1 .. Len(cs), NEW m \in Models, NEW docs,
           \A i \in 1 .. Len(cs) : cs[i].occur \in Occurs /\ docs[i] \in Nat
    PROVE  Combined(cs, m, docs) \in Nat
<1>1. \A i \in 1 .. Len(cs) : docs[i] <= docs[i]
      OBVIOUS
<1>2. PICK early : early = {0}
      OBVIOUS
<1>3. early = {} => Early(cs) = {} /\ \A i \in 1 .. Len(cs) : docs[i] = docs[i]
      BY <1>2
<1>4. \A i \in 1 .. Len(cs) : /\ cs[i].occur \in Occurs
                               /\ docs[i] \in Nat /\ docs[i] \in Nat /\ docs[i] <= docs[i]
      BY <1>1
<1>5. QED
      BY <1>3, <1>4, WalkIsOrderless DEF NoDearer

LEMMA OrderlessInType ==
    ASSUME NEW n \in Nodes, NEW m \in Models, NEW field \in Fields, NEW depth \in Nat, NEW g,
           \A at \in Pricings : Size(at[1]) < Size(n) => g[at] \in Nat
    PROVE  OrderlessIn(g, n, m, field, depth) \in Nat
<1>0. /\ NoField \in Fields
      /\ \A c \in Nodes, f \in Fields, d \in Nat : Size(c) < Size(n) => g[<<c, m, f, d>>] \in Nat
      BY DEF Pricings, Fields
<1>1. CASE n.kind \in LeafKinds
   <2>1. OrderlessIn(g, n, m, field, depth) = Estimated[<<n, m, field, depth>>].cost
         BY <1>1 DEF OrderlessIn, LeafKinds
   <2>2. Estimated[<<n, m, field, depth>>] \in Costs
         BY EstimatedDefined
   <2>3. QED
         BY <2>1, <2>2 DEF Costs
<1>2. CASE n.kind = "group"
   <2>1. g[<<n.query, m, field, depth + 1>>] \in Nat
         BY <1>0, <1>2, SubtreesAreSmaller
   <2>2. OrderlessIn(g, n, m, field, depth) = g[<<n.query, m, field, depth + 1>>] + m.depth * (depth + 1) * Point
         BY <1>2 DEF OrderlessIn, LeafKinds
   <2>3. m.depth * (depth + 1) * Point \in Nat
      <3>1. depth + 1 \in Nat /\ Point \in Nat
            BY DEF Point
      <3>2. QED
            BY <3>1, ModelType, ProductType
   <2>4. QED
         BY <2>1, <2>2, <2>3
<1>3. CASE n.kind = "clause"
   <2> DEFINE inner == g[<<n.term, m, n.field, depth>>]
   <2>1. inner \in Nat
         BY <1>0, <1>3, SubtreesAreSmaller
   <2>2. OrderlessIn(g, n, m, field, depth)
             = Tenths(inner, Weight(m, n.field)) + (IF n.occur = "must_not" THEN 2 * Point ELSE 0)
         BY <1>3 DEF OrderlessIn, LeafKinds
   <2> HIDE DEF inner
   <2>3. Tenths(inner, Weight(m, n.field)) \in Nat
         BY <2>1, ModelType, TenthsType
   <2>4. 2 * Point \in Nat
         BY DEF Point
   <2>5. QED
         BY <2>2, <2>3, <2>4
<1>4. CASE n.kind = "boolean"
   <2> DEFINE docs == [i \in DOMAIN n.clauses |-> g[<<n.clauses[i], m, NoField, depth>>]]
   <2>1. \A i \in DOMAIN n.clauses : docs[i] \in Nat
         BY <1>0, <1>4, SubtreesAreSmaller
   <2>2. OrderlessIn(g, n, m, field, depth) = Combined(n.clauses, m, docs)
         BY <1>4 DEF OrderlessIn, LeafKinds
   <2>3. Len(n.clauses) \in Nat /\ DOMAIN n.clauses = 1 .. Len(n.clauses)
         BY <1>4, NodesAssumption
   <2>4. \A i \in DOMAIN n.clauses : n.clauses[i].occur \in Occurs
         BY <1>4, SubtreesAreSmaller, NodesAssumption
   <2> HIDE DEF docs
   <2>5. QED
         BY <2>1, <2>2, <2>3, <2>4, CombinedType
<1>5. QED
      BY <1>1, <1>2, <1>3, <1>4, NodesAssumption DEF Kinds

LEMMA OrderlessInLocal ==
    ASSUME NEW n \in Nodes, NEW m \in Models, NEW field \in Fields, NEW depth \in Nat, NEW g, NEW h,
           \A at \in Pricings : Size(at[1]) < Size(n) => g[at] = h[at]
    PROVE  OrderlessIn(g, n, m, field, depth) = OrderlessIn(h, n, m, field, depth)
<1>0. /\ NoField \in Fields
      /\ \A c \in Nodes, f \in Fields, d \in Nat :
            Size(c) < Size(n) => g[<<c, m, f, d>>] = h[<<c, m, f, d>>]
      BY DEF Pricings, Fields
<1>1. CASE n.kind \in LeafKinds
      BY <1>1 DEF OrderlessIn, LeafKinds
<1>2. CASE n.kind = "group"
   <2>1. g[<<n.query, m, field, depth + 1>>] = h[<<n.query, m, field, depth + 1>>]
         BY <1>0, <1>2, SubtreesAreSmaller
   <2>2. \A f \in {g, h} :
             OrderlessIn(f, n, m, field, depth) = f[<<n.query, m, field, depth + 1>>] + m.depth * (depth + 1) * Point
         BY <1>2 DEF OrderlessIn, LeafKinds
   <2>3. QED
         BY <2>1, <2>2
<1>3. CASE n.kind = "clause"
   <2>1. g[<<n.term, m, n.field, depth>>] = h[<<n.term, m, n.field, depth>>]
         BY <1>0, <1>3, SubtreesAreSmaller
   <2>2. \A f \in {g, h} : OrderlessIn(f, n, m, field, depth)
                               = Tenths(f[<<n.term, m, n.field, depth>>], Weight(m, n.field))
                                 + (IF n.occur = "must_not" THEN 2 * Point ELSE 0)
         BY <1>3 DEF OrderlessIn, LeafKinds
   <2>3. QED
         BY <2>1, <2>2
<1>4. CASE n.kind = "boolean"
   <2> DEFINE docs(f) == [i \in DOMAIN n.clauses |-> f[<<n.clauses[i], m, NoField, depth>>]]
   <2>1. \A i \in DOMAIN n.clauses : g[<<n.clauses[i], m, NoField, depth>>] = h[<<n.clauses[i], m, NoField, depth>>]
         BY <1>0, <1>4, SubtreesAreSmaller
   <2>2. docs(g) = docs(h)
         BY <2>1
   <2>3. \A f \in {g, h} : OrderlessIn(f, n, m, field, depth) = Combined(n.clauses, m, docs(f))
         BY <1>4 DEF OrderlessIn, LeafKinds
   <2> HIDE DEF docs
   <2>4. QED
         BY <2>2, <2>3
<1>5. QED
      BY <1>1, <1>2, <1>3, <1>4, NodesAssumption DEF Kinds

\* Orderless is defined: it satisfies its own equation.
LEMMA OrderlessDefined ==
    \A n \in Nodes, m \in Models, field \in Fields, depth \in Nat :
        /\ Orderless[<<n, m, field, depth>>] = OrderlessIn(Orderless, n, m, field, depth)
        /\ Orderless[<<n, m, field, depth>>] \in Nat
<1> DEFINE size    == [at \in Pricings |-> Size(at[1])]
           In(g)   == [at \in Pricings |-> OrderlessIn(g, at[1], at[2], at[3], at[4])]
           step    == [g \in [Pricings -> Nat] |-> In(g)]
<1>1. size \in [Pricings -> Nat]
      BY NodesAssumption DEF Pricings
<1>2. step \in [[Pricings -> Nat] -> [Pricings -> Nat]]
   <2>1. ASSUME NEW g \in [Pricings -> Nat], NEW at \in Pricings
         PROVE  OrderlessIn(g, at[1], at[2], at[3], at[4]) \in Nat
      <3>1. at[1] \in Nodes /\ at[2] \in Models /\ at[3] \in Fields /\ at[4] \in Nat
            BY DEF Pricings
      <3>2. QED
            BY <3>1, OrderlessInType
   <2>2. QED
         BY <2>1
<1>3. ASSUME NEW g \in [Pricings -> Nat], NEW h \in [Pricings -> Nat], NEW at \in Pricings,
             \A other \in Pricings : size[other] < size[at] => g[other] = h[other]
      PROVE  step[g][at] = step[h][at]
   <2>1. at[1] \in Nodes /\ at[2] \in Models /\ at[3] \in Fields /\ at[4] \in Nat
         BY DEF Pricings
   <2>2. OrderlessIn(g, at[1], at[2], at[3], at[4]) = OrderlessIn(h, at[1], at[2], at[3], at[4])
         BY <1>3, <2>1, OrderlessInLocal
   <2>3. QED
         BY <2>2
<1>4. IsLocal(Pricings, size, Nat, step)
   <2> HIDE DEF size, step
   <2>1. QED
         BY <1>3 DEF IsLocal
<1>5. \E f : f = In(f)
   <2>1. \E f : IsFixed(f, Pricings, Nat, step)
      <3> HIDE DEF size, step
      <3>1. QED
            BY <1>1, <1>2, <1>4, 0 \in Nat, SizeRecursion
   <2>2. QED
         BY <2>1 DEF IsFixed
<1>6. Orderless = In(Orderless)
      BY <1>5 DEF Orderless, Pricings
<1>7. \A n \in Nodes, m \in Models, field \in Fields, depth \in Nat :
          Orderless[<<n, m, field, depth>>] = OrderlessIn(Orderless, n, m, field, depth)
      BY <1>6 DEF Pricings
<1> DEFINE T == {n \in Nodes : \A m \in Models, field \in Fields, depth \in Nat :
                                   Orderless[<<n, m, field, depth>>] \in Nat}
<1>8. Nodes \subseteq T
   <2>1. ASSUME NEW n \in Nodes, \A c \in Nodes : Size(c) < Size(n) => c \in T PROVE n \in T
      <3>1. \A at \in Pricings : Size(at[1]) < Size(n) => Orderless[at] \in Nat
            BY <2>1 DEF Pricings
      <3>2. \A m \in Models, field \in Fields, depth \in Nat : OrderlessIn(Orderless, n, m, field, depth) \in Nat
            BY <3>1, OrderlessInType
      <3>3. QED
            BY <1>7, <3>2
   <2> HIDE DEF T
   <2>2. QED
         BY <2>1, TreeInduction
<1>9. QED
      BY <1>7, <1>8

LEMMA EarlyInType ==
    ASSUME NEW n \in Nodes, NEW g, \A c \in Nodes : Size(c) < Size(n) => g[c] \in SUBSET Nodes
    PROVE  EarlyIn(g, n) \in SUBSET Nodes
<1>1. CASE n.kind \in LeafKinds
      BY <1>1 DEF EarlyIn, LeafKinds
<1>2. CASE n.kind = "group"
      BY <1>2, SubtreesAreSmaller DEF EarlyIn, LeafKinds
<1>3. CASE n.kind = "clause"
      BY <1>3, SubtreesAreSmaller DEF EarlyIn, LeafKinds
<1>4. CASE n.kind = "boolean"
   <2> DEFINE below == UNION {g[c] : c \in Range(n.clauses)}
   <2>1. EarlyIn(g, n) = Early(n.clauses) \cup below
         BY <1>4 DEF EarlyIn, LeafKinds
   <2>2. Early(n.clauses) \subseteq Nodes
         BY <1>4, SubtreesAreSmaller DEF Early
   <2>3. ASSUME NEW x \in below PROVE x \in Nodes
      <3>1. PICK c \in Range(n.clauses) : x \in g[c]
            OBVIOUS
      <3>2. c \in Nodes /\ Size(c) < Size(n)
            BY <1>4, SubtreesAreSmaller DEF Range
      <3>3. QED
            BY <3>1, <3>2
   <2> HIDE DEF below
   <2>4. QED
         BY <2>1, <2>2, <2>3
<1>5. QED
      BY <1>1, <1>2, <1>3, <1>4, NodesAssumption DEF Kinds

LEMMA EarlyInLocal ==
    ASSUME NEW n \in Nodes, NEW g, NEW h, \A c \in Nodes : Size(c) < Size(n) => g[c] = h[c]
    PROVE  EarlyIn(g, n) = EarlyIn(h, n)
<1>1. CASE n.kind \in LeafKinds
      BY <1>1 DEF EarlyIn, LeafKinds
<1>2. CASE n.kind = "group"
      BY <1>2, SubtreesAreSmaller DEF EarlyIn, LeafKinds
<1>3. CASE n.kind = "clause"
      BY <1>3, SubtreesAreSmaller DEF EarlyIn, LeafKinds
<1>4. CASE n.kind = "boolean"
   <2>1. \A f \in {g, h} : EarlyIn(f, n) = Early(n.clauses) \cup UNION {f[c] : c \in Range(n.clauses)}
         BY <1>4 DEF EarlyIn, LeafKinds
   <2>2. \A c \in Range(n.clauses) : g[c] = h[c]
         BY <1>4, SubtreesAreSmaller DEF Range
   <2>3. UNION {g[c] : c \in Range(n.clauses)} = UNION {h[c] : c \in Range(n.clauses)}
         BY <2>2
   <2>4. QED
         BY <2>1, <2>3
<1>5. QED
      BY <1>1, <1>2, <1>3, <1>4, NodesAssumption DEF Kinds

\* EarlyNegations is defined: it satisfies its own equation.
LEMMA EarlyDefined ==
    \A n \in Nodes : EarlyNegations[n] = EarlyIn(EarlyNegations, n)
<1> DEFINE size    == [n \in Nodes |-> Size(n)]
           V       == SUBSET Nodes
           In(g)   == [n \in Nodes |-> EarlyIn(g, n)]
           step    == [g \in [Nodes -> V] |-> In(g)]
<1>1. size \in [Nodes -> Nat]
      BY NodesAssumption
<1>2. step \in [[Nodes -> V] -> [Nodes -> V]]
   <2>1. ASSUME NEW g \in [Nodes -> V], NEW n \in Nodes PROVE EarlyIn(g, n) \in V
         BY EarlyInType
   <2>2. QED
         BY <2>1
<1>3. ASSUME NEW g \in [Nodes -> V], NEW h \in [Nodes -> V], NEW n \in Nodes,
             \A c \in Nodes : size[c] < size[n] => g[c] = h[c]
      PROVE  step[g][n] = step[h][n]
   <2>1. EarlyIn(g, n) = EarlyIn(h, n)
         BY <1>3, EarlyInLocal
   <2>2. QED
         BY <2>1
<1>4. IsLocal(Nodes, size, V, step)
   <2> HIDE DEF size, V, step
   <2>1. QED
         BY <1>3 DEF IsLocal
<1>5. \E f : f = In(f)
   <2>1. {} \in V
         OBVIOUS
   <2>2. \E f : IsFixed(f, Nodes, V, step)
      <3> HIDE DEF size, V, step
      <3>1. QED
            BY <1>1, <1>2, <1>4, <2>1, SizeRecursion
   <2>3. QED
         BY <2>2 DEF IsFixed
<1>6. EarlyNegations = In(EarlyNegations)
      BY <1>5 DEF EarlyNegations
<1>7. QED
      BY <1>6

\* n is never priced above the cost it has in any order, and at just that if it has
\* no early negation.
PricedWell(n) ==
    \A m \in Models, field \in Fields, depth \in Nat :
        LET cost       == Estimated[<<n, m, field, depth>>].cost
            orderless == Orderless[<<n, m, field, depth>>]
        IN  /\ cost <= orderless
            /\ EarlyNegations[n] = {} => cost = orderless

LEMMA NumbersOf ==
    \A n \in Nodes, m \in Models, field \in Fields, depth \in Nat :
        Estimated[<<n, m, field, depth>>].cost \in Nat /\ Orderless[<<n, m, field, depth>>] \in Nat
<1>1. \A c \in Costs : c.cost \in Nat
      BY DEF Costs
<1>2. QED
      BY <1>1, EstimatedDefined, OrderlessDefined

\* The estimate of every tree is its cost in any order, but for early negations.
LEMMA EstimateIsOrderless == \A n \in Nodes : PricedWell(n)
<1> DEFINE T == {n \in Nodes : PricedWell(n)}
<1>1. ASSUME NEW n \in Nodes, \A c \in Nodes : Size(c) < Size(n) => c \in T PROVE n \in T
   <2>1. SUFFICES ASSUME NEW m \in Models, NEW field \in Fields, NEW depth \in Nat
                  PROVE  /\ Estimated[<<n, m, field, depth>>].cost <= Orderless[<<n, m, field, depth>>]
                         /\ EarlyNegations[n] = {} =>
                               Estimated[<<n, m, field, depth>>].cost = Orderless[<<n, m, field, depth>>]
         BY DEF PricedWell
   <2> DEFINE cost       == Estimated[<<n, m, field, depth>>].cost
              orderless == Orderless[<<n, m, field, depth>>]
              early      == EarlyNegations[n]
   <2>2. /\ Estimated[<<n, m, field, depth>>] = EstimateIn(Estimated, n, m, field, depth)
         /\ orderless = OrderlessIn(Orderless, n, m, field, depth)
         /\ early = EarlyIn(EarlyNegations, n)
         BY EstimatedDefined, OrderlessDefined, EarlyDefined
   <2>3. ASSUME NEW c \in Nodes, Size(c) < Size(n), NEW f \in Fields, NEW d \in Nat
         PROVE  /\ Estimated[<<c, m, f, d>>].cost <= Orderless[<<c, m, f, d>>]
                /\ EarlyNegations[c] = {} => Estimated[<<c, m, f, d>>].cost = Orderless[<<c, m, f, d>>]
                /\ Estimated[<<c, m, f, d>>] \in Costs
                /\ Estimated[<<c, m, f, d>>].cost \in Nat /\ Orderless[<<c, m, f, d>>] \in Nat
         BY <1>1, <2>3, NumbersOf, EstimatedDefined DEF PricedWell
   <2>4. CASE n.kind \in LeafKinds
      <3>1. orderless = cost
            BY <2>2, <2>4 DEF OrderlessIn, LeafKinds
      <3>2. cost \in Nat
            BY NumbersOf
      <3>3. QED
            BY <3>1, <3>2
   <2>5. CASE n.kind = "group"
      <3> DEFINE e     == Estimated[<<n.query, m, field, depth + 1>>]
                 d     == Orderless[<<n.query, m, field, depth + 1>>]
                 extra == m.depth * (depth + 1) * Point
      <3>1. n.query \in Nodes /\ Size(n.query) < Size(n) /\ depth + 1 \in Nat
            BY <2>5, SubtreesAreSmaller
      <3>2. /\ e.cost <= d /\ (EarlyNegations[n.query] = {} => e.cost = d)
            /\ e.cost \in Nat /\ d \in Nat
            BY <2>3, <3>1
      <3>3. extra \in Nat
         <4>1. Point \in Nat
               BY DEF Point
         <4>2. QED
               BY <3>1, <4>1, ModelType, ProductType
      <3>4. Estimated[<<n, m, field, depth>>] = GroupCost(e, m, depth) /\ orderless = d + extra
            BY <2>2, <2>5 DEF EstimateIn, OrderlessIn, LeafKinds
      <3>5. early = EarlyNegations[n.query]
            BY <2>2, <2>5 DEF EarlyIn, LeafKinds
      <3>6. cost = e.cost + extra
            BY <3>4 DEF GroupCost, Entry
      <3> HIDE DEF e, d, extra, cost, orderless, early
      <3>7. cost <= orderless
            BY <3>2, <3>3, <3>4, <3>6
      <3>8. ASSUME early = {} PROVE cost = orderless
            BY <3>2, <3>4, <3>5, <3>6, <3>8
      <3>9. QED
            BY <3>7, <3>8 DEF cost, orderless, early
   <2>6. CASE n.kind = "clause"
      <3> DEFINE e     == Estimated[<<n.term, m, n.field, depth>>]
                 d     == Orderless[<<n.term, m, n.field, depth>>]
                 w     == Weight(m, n.field)
                 extra == IF n.occur = "must_not" THEN 2 * Point ELSE 0
      <3>1. n.term \in Nodes /\ Size(n.term) < Size(n) /\ n.field \in Fields
            BY <2>6, SubtreesAreSmaller
      <3>2. /\ e.cost <= d /\ (EarlyNegations[n.term] = {} => e.cost = d)
            /\ e.cost \in Nat /\ d \in Nat
            BY <2>3, <3>1
      <3>3. extra \in Nat
            BY DEF Point
      <3>4. w \in Nat
            BY ModelType
      <3>5. Estimated[<<n, m, field, depth>>] = ClauseCost(e, n.occur, w) /\ orderless = Tenths(d, w) + extra
            BY <2>2, <2>6 DEF EstimateIn, OrderlessIn, LeafKinds
      <3>6. early = EarlyNegations[n.term]
            BY <2>2, <2>6 DEF EarlyIn, LeafKinds
      <3>7. cost = Tenths(e.cost, w) + extra
            BY <3>5 DEF ClauseCost, Entry
      <3> HIDE DEF e, d, w, extra, cost, orderless, early
      <3>8. Tenths(e.cost, w) <= Tenths(d, w) /\ Tenths(e.cost, w) \in Nat /\ Tenths(d, w) \in Nat
            BY <3>2, <3>4, TenthsGrows, TenthsType
      <3>9. cost <= orderless
            BY <3>3, <3>5, <3>7, <3>8
      <3>10. ASSUME early = {} PROVE cost = orderless
             BY <3>2, <3>5, <3>6, <3>7, <3>10
      <3>11. QED
             BY <3>9, <3>10 DEF cost, orderless, early
   <2>7. CASE n.kind = "boolean"
      <3> DEFINE cs       == n.clauses
                 children == [i \in DOMAIN cs |-> Estimated[<<cs[i], m, NoField, depth>>]]
                 costs    == [i \in DOMAIN cs |-> children[i].cost]
                 docs     == [i \in DOMAIN cs |-> Orderless[<<cs[i], m, NoField, depth>>]]
      <3>1. Len(cs) \in Nat /\ DOMAIN cs = 1 .. Len(cs) /\ NoField \in Fields
            BY <2>7, NodesAssumption DEF Fields
      <3>2. ASSUME NEW i \in DOMAIN cs
            PROVE  /\ cs[i].occur \in Occurs
                   /\ costs[i] \in Nat /\ docs[i] \in Nat /\ costs[i] <= docs[i]
                   /\ EarlyNegations[cs[i]] = {} => costs[i] = docs[i]
         <4>1. cs[i] \in Nodes /\ Size(cs[i]) < Size(n) /\ cs[i].kind = "clause"
               BY <2>7, SubtreesAreSmaller
         <4>2. cs[i].occur \in Occurs
               BY <4>1, NodesAssumption
         <4>3. QED
               BY <2>3, <3>1, <4>1, <4>2
      <3>3. Estimated[<<n, m, field, depth>>] = BooleanCost(cs, m, children) /\ orderless = Combined(cs, m, docs)
            BY <2>2, <2>7 DEF EstimateIn, OrderlessIn, LeafKinds
      <3>4. ASSUME early = {} PROVE Early(cs) = {} /\ \A i \in DOMAIN cs : EarlyNegations[cs[i]] = {}
         <4> DEFINE below == UNION {EarlyNegations[c] : c \in Range(cs)}
         <4>1. early = Early(cs) \cup below
               BY <2>2, <2>7 DEF EarlyIn, LeafKinds
         <4> HIDE DEF early
         <4>2. below = {} /\ Early(cs) = {}
            <5> HIDE DEF below
            <5>1. QED
                  BY <3>4, <4>1
         <4>3. \A c \in Range(cs) : EarlyNegations[c] = {}
               BY <4>2
         <4>4. \A i \in DOMAIN cs : cs[i] \in Range(cs)
               BY DEF Range
         <4>5. QED
               BY <4>2, <4>3, <4>4
      <3>5. costs = [i \in DOMAIN cs |-> children[i].cost]
            OBVIOUS
      <3> DEFINE sum   == Summed(cs, costs)
                 whole == sum.must + sum.should + sum.optional * m.orClause * Point
      <3>6. cost = whole
         <4>1. BooleanCost(cs, m, children).cost
                   = sum.must + sum.should + Entry("or_clauses", sum.optional * m.orClause * Point).cost
               BY DEF BooleanCost
         <4> HIDE DEF sum, children
         <4>2. QED
               BY <3>3, <4>1 DEF Entry
      <3> HIDE DEF children, costs, docs, cost, orderless, early, sum, whole
      <3>7. early = {} => Early(cs) = {} /\ \A i \in 1 .. Len(cs) : costs[i] = docs[i]
            BY <3>1, <3>2, <3>4
      <3>8. \A i \in 1 .. Len(cs) : /\ cs[i].occur \in Occurs
                                     /\ costs[i] \in Nat /\ docs[i] \in Nat /\ costs[i] <= docs[i]
            BY <3>1, <3>2
      <3> HIDE DEF cs
      <3>9. /\ whole <= Combined(cs, m, docs)
            /\ early = {} => whole = Combined(cs, m, docs)
         <4>1. NoDearer(cs, costs, docs, early)
               BY <3>1, <3>7, <3>8 DEF NoDearer
         <4>2. QED
               BY <4>1, WalkIsOrderless DEF sum, whole
      <3>10. QED
             BY <3>3, <3>6, <3>9 DEF cost, orderless, early
   <2>8. QED
         BY <2>4, <2>5, <2>6, <2>7, NodesAssumption DEF Kinds
<1> HIDE DEF T
<1>2. Nodes \subseteq T
      BY <1>1, TreeInduction
<1>3. QED
      BY <1>2 DEF T

-----------------------------------------------------------------------------
(* Forbidden features.                                                     *)

\* A wildcard at the start of a longer word makes no prefix of it.
LEMMA LeadingIsNoPrefix ==
    ASSUME NEW v \in Seq(STRING), v # <<>>, v # <<"*">>, v[1] \in Wild
    PROVE  Wildcard(v) /\ ~ Prefix(v)
<1>1. Len(v) \in Nat /\ Len(v) >= 1 /\ 1 \in DOMAIN v
      OBVIOUS
<1>2. Wildcard(v)
      BY <1>1 DEF Wildcard
<1>3. CASE Len(v) = 1
   <2>1. v = <<v[1]>>
         BY <1>3
   <2>2. Last(v) # "*"
         BY <1>3, <2>1 DEF Last
   <2>3. QED
         BY <1>2, <2>2 DEF Prefix
<1>4. CASE Len(v) > 1
   <2>1. Front(v) \in Seq(STRING) /\ 1 \in DOMAIN Front(v) /\ Front(v)[1] = v[1]
         BY <1>4 DEF Front
   <2>2. Wildcard(Front(v))
         BY <2>1 DEF Wildcard
   <2>3. QED
         BY <1>2, <2>2 DEF Prefix
<1>5. \A k \in Nat : k >= 1 => k = 1 \/ k > 1
      OBVIOUS
<1>6. QED
      BY <1>1, <1>3, <1>4, <1>5, Zenon

\* A leaf that is charged for shows its feature.
LEMMA LeafShows ==
    ASSUME NEW n \in Nodes, n.kind \in LeafKinds, NEW m \in Models, NEW field \in Fields, NEW negated,
           NEW depth \in Nat, NEW l, l = [leaf |-> n, field |-> field, negated |-> negated],
           FeatureOf(l) # "none", Charged(l, m)
    PROVE  FeatureOf(l) \in Estimated[<<n, m, field, depth>>].keys
<1> DEFINE e == Estimated[<<n, m, field, depth>>]
<1>1. e = EstimateIn(Estimated, n, m, field, depth)
      BY EstimatedDefined
<1>2. Estimated[<<n, m, field, 0>>] = EstimateIn(Estimated, n, m, field, 0)
      BY EstimatedDefined
<1>3. EstimateIn(Estimated, n, m, field, 0) = EstimateIn(Estimated, n, m, field, depth)
   <2>1. CASE n.kind = "term"
         BY <2>1 DEF EstimateIn
   <2>2. CASE n.kind = "phrase"
         BY <2>2 DEF EstimateIn
   <2>3. CASE n.kind = "range"
         BY <2>3 DEF EstimateIn
   <2>4. QED
         BY <2>1, <2>2, <2>3 DEF LeafKinds
<1>4. e.cost > 0
      BY <1>1, <1>2, <1>3 DEF Charged
<1> HIDE DEF e
<1>5. ASSUME NEW key, NEW cost, e = Entry(key, cost) PROVE key \in e.keys
   <2>1. e.cost = cost
         BY <1>5 DEF Entry
   <2>2. e.keys = IF cost > 0 THEN {key} ELSE {}
         BY <1>5 DEF Entry
   <2>3. QED
         BY <1>4, <2>1, <2>2
<1>6. CASE n.kind = "term" /\ n.value = <<"*">>
   <2>1. FeatureOf(l) = "match_all"
         BY <1>6 DEF FeatureOf
   <2>2. e = TermCost(n.value, m, field)
         BY <1>1, <1>6 DEF EstimateIn
   <2>3. e = Entry("match_all", m.matchAll * Point)
         BY <1>6, <2>2 DEF TermCost
   <2>4. QED
         BY <1>5, <2>1, <2>3 DEF e
<1>7. CASE n.kind = "range"
   <2>1. FeatureOf(l) = "open_range" /\ n.low = <<"*">> /\ n.high = <<"*">>
         BY <1>7 DEF FeatureOf
   <2>2. e = RangeCost(n, m, field)
         BY <1>1, <1>7 DEF EstimateIn
   <2>3. e = Entry("open_range", Tenths(m.openRange * Point, Weight(m, field)))
         BY <2>1, <2>2 DEF RangeCost
   <2>4. QED
         BY <1>5, <2>1, <2>3 DEF e
<1>8. CASE n.kind = "term" /\ n.value # <<"*">>
   <2>1. FeatureOf(l) = "leading_wildcard" /\ n.value[1] \in Wild /\ ~ IsKeyword(field)
         BY <1>8 DEF FeatureOf
   <2>2. n.value \in Seq(STRING) /\ n.value # <<>>
         BY <1>8, NodesAssumption
   <2>3. Wildcard(n.value) /\ ~ Prefix(n.value)
         BY <1>8, <2>1, <2>2, LeadingIsNoPrefix
   <2>4. WildcardKey(n.value, field) = "leading_wildcard"
         BY <2>1, <2>3 DEF WildcardKey
   <2>5. e = TermCost(n.value, m, field)
         BY <1>1, <1>8 DEF EstimateIn
   <2>6. \E cost : e = Entry("leading_wildcard", cost)
         BY <1>8, <2>3, <2>4, <2>5 DEF TermCost
   <2>7. QED
         BY <1>5, <2>1, <2>6 DEF e
<1>9. CASE n.kind = "phrase"
      BY <1>9 DEF FeatureOf
<1>10. QED
       BY <1>6, <1>7, <1>8, <1>9 DEF LeafKinds

\* So does a tree that has such a leaf, however deep, optional or negated.
LEMMA TreeShows ==
    ASSUME NEW m \in Models
    PROVE  \A n \in Nodes, field \in Fields, negated \in BOOLEAN, depth \in Nat :
               \A l \in Leaves[<<n, field, negated>>] :
                   FeatureOf(l) # "none" /\ Charged(l, m) => FeatureOf(l) \in Estimated[<<n, m, field, depth>>].keys
<1> DEFINE Shows(n) == \A field \in Fields, negated \in BOOLEAN, depth \in Nat :
               \A l \in Leaves[<<n, field, negated>>] :
                   FeatureOf(l) # "none" /\ Charged(l, m) => FeatureOf(l) \in Estimated[<<n, m, field, depth>>].keys
           T == {n \in Nodes : Shows(n)}
<1>1. ASSUME NEW n \in Nodes, \A c \in Nodes : Size(c) < Size(n) => c \in T PROVE n \in T
   <2>0. \A c \in Nodes : Size(c) < Size(n) => Shows(c)
         BY <1>1
   <2> SUFFICES ASSUME NEW field \in Fields, NEW negated \in BOOLEAN, NEW depth \in Nat,
                       NEW l \in Leaves[<<n, field, negated>>], FeatureOf(l) # "none", Charged(l, m)
                PROVE  FeatureOf(l) \in Estimated[<<n, m, field, depth>>].keys
       OBVIOUS
   <2> DEFINE f == FeatureOf(l)
              e == Estimated[<<n, m, field, depth>>]
   <2>1. l \in LeavesIn(Leaves, n, field, negated)
         BY LeavesDefined
   <2>2. e = EstimateIn(Estimated, n, m, field, depth)
         BY EstimatedDefined
   <2> HIDE DEF e, f
   <2>3. ASSUME NEW c \in Nodes, Size(c) < Size(n), NEW g \in Fields, NEW b \in BOOLEAN, NEW d \in Nat,
                l \in Leaves[<<c, g, b>>]
         PROVE  f \in Estimated[<<c, m, g, d>>].keys
         BY <2>0, <2>3 DEF f
   <2>4. CASE n.kind \in LeafKinds
      <3>1. l = [leaf |-> n, field |-> field, negated |-> negated]
            BY <2>1, <2>4 DEF LeavesIn, LeafKinds
      <3>2. QED
            BY <2>4, <3>1, LeafShows
   <2>5. CASE n.kind = "group"
      <3>1. l \in Leaves[<<n.query, field, negated>>]
            BY <2>1, <2>5 DEF LeavesIn, LeafKinds
      <3>2. f \in Estimated[<<n.query, m, field, depth + 1>>].keys
            BY <2>3, <2>5, <3>1, SubtreesAreSmaller
      <3>3. e = GroupCost(Estimated[<<n.query, m, field, depth + 1>>], m, depth)
            BY <2>2, <2>5 DEF EstimateIn
      <3>4. f \in e.keys
            BY <3>2, <3>3 DEF GroupCost
      <3>5. QED
            BY <3>4 DEF e, f
   <2>6. CASE n.kind = "clause"
      <3> DEFINE b == negated \/ n.occur = "must_not"
      <3>1. b \in BOOLEAN /\ l \in Leaves[<<n.term, n.field, b>>]
            BY <2>1, <2>6 DEF LeavesIn, LeafKinds
      <3> HIDE DEF b
      <3>2. f \in Estimated[<<n.term, m, n.field, depth>>].keys
            BY <2>3, <2>6, <3>1, SubtreesAreSmaller
      <3>3. e = ClauseCost(Estimated[<<n.term, m, n.field, depth>>], n.occur, Weight(m, n.field))
            BY <2>2, <2>6 DEF EstimateIn
      <3>4. f \in e.keys
            BY <3>2, <3>3 DEF ClauseCost, KeysOf
      <3>5. QED
            BY <3>4 DEF e, f
   <2>7. CASE n.kind = "boolean"
      <3> DEFINE children == [i \in DOMAIN n.clauses |-> Estimated[<<n.clauses[i], m, NoField, depth>>]]
      <3>1. PICK i \in DOMAIN n.clauses : l \in Leaves[<<n.clauses[i], NoField, negated>>]
         <4>1. LeavesIn(Leaves, n, field, negated) = UNION {Leaves[<<c, NoField, negated>>] : c \in Range(n.clauses)}
               BY <2>7 DEF LeavesIn, LeafKinds
         <4>2. PICK c \in Range(n.clauses) : l \in Leaves[<<c, NoField, negated>>]
               BY <2>1, <4>1
         <4>3. PICK i \in DOMAIN n.clauses : c = n.clauses[i]
               BY <4>2 DEF Range
         <4>4. QED
               BY <4>2, <4>3
      <3>2. f \in children[i].keys
            BY <2>3, <2>7, <3>1, SubtreesAreSmaller, NoField \in Fields DEF Fields
      <3>3. e = BooleanCost(n.clauses, m, children)
            BY <2>2, <2>7 DEF EstimateIn
      <3> HIDE DEF children
      <3>4. f \in Shown(n.clauses, children)
            BY <3>2 DEF Shown
      <3>5. f \in e.keys
            BY <3>3, <3>4 DEF BooleanCost
      <3>6. QED
            BY <3>5 DEF e, f
   <2>8. QED
         BY <2>4, <2>5, <2>6, <2>7, NodesAssumption DEF Kinds
<1> HIDE DEF T
<1>2. Nodes \subseteq T
      BY <1>1, TreeInduction
<1>3. QED
      BY <1>2 DEF T

-----------------------------------------------------------------------------
(* The abstraction Gate works with.                                        *)

\* An instance brings operators of the library of its own.
LEMMA SameCardinality == \A S : Abstract!Cardinality(S) = Cardinality(S)
BY DEF Abstract!Cardinality, Cardinality

LEMMA SameMin == \A S : Abstract!Min(S) = Min(S)
BY DEF Abstract!Min, Min

Classes == {"term", "match_all", "leading_wildcard", "range", "open_range"}

\* How many of the first j positions have a class.
Upto(class, k, j) == Cardinality({x \in 1 .. j : class[x] = k})

More(class, k, j) == IF class[j] = k THEN 1 ELSE 0

LEMMA UptoGrows ==
    ASSUME NEW class, NEW k
    PROVE  /\ Upto(class, k, 0) = 0
           /\ \A j \in Nat : Upto(class, k, j) \in Nat
           /\ \A j \in Nat : Upto(class, k, j + 1) = Upto(class, k, j) + More(class, k, j + 1)
<1> DEFINE S(j) == {x \in 1 .. j : class[x] = k}
<1>1. ASSUME NEW j \in Nat PROVE IsFiniteSet(S(j)) /\ Cardinality(S(j)) \in Nat
   <2>1. IsFiniteSet(1 .. j) /\ S(j) \in SUBSET (1 .. j)
         BY FS_Interval
   <2>2. IsFiniteSet(S(j))
         BY <2>1, FS_Subset
   <2>3. QED
         BY <2>2, FS_CardinalityType
<1>2. S(0) = {}
      OBVIOUS
<1>3. ASSUME NEW j \in Nat
      PROVE  Cardinality(S(j + 1)) = Cardinality(S(j)) + More(class, k, j + 1)
   <2>1. j + 1 \notin S(j)
         OBVIOUS
   <2>2. CASE class[j + 1] = k
      <3>1. S(j + 1) = S(j) \cup {j + 1}
            BY <2>2
      <3> HIDE DEF S
      <3>2. QED
            BY <1>1, <2>1, <2>2, <3>1, FS_AddElement DEF More
   <2>3. CASE class[j + 1] # k
      <3>1. \A x \in 1 .. j + 1 : class[x] = k => x \in 1 .. j
            BY <2>3
      <3>2. S(j + 1) = S(j)
            BY <3>1
      <3> HIDE DEF S
      <3>3. QED
            BY <1>1, <2>3, <3>2 DEF More
   <2>4. QED
         BY <2>2, <2>3
<1>4. Cardinality({}) = 0
      BY FS_EmptySet
<1>5. QED
      BY <1>1, <1>2, <1>3, <1>4 DEF Upto

\* A sum of one price each is, class by class, the number times the price.
ByClass(class, price, N) ==
    Upto(class, "term", N) * price["term"]
    + Upto(class, "match_all", N) * price["match_all"]
    + Upto(class, "leading_wildcard", N) * price["leading_wildcard"]
    + Upto(class, "range", N) * price["range"]
    + Upto(class, "open_range", N) * price["open_range"]

LEMMA ClassesAdd ==
    ASSUME NEW N \in Nat, NEW class, \A i \in 1 .. N : class[i] \in Classes,
           NEW price, \A k \in Classes : price[k] \in Nat,
           NEW sum, sum[0] = 0, \A i \in 1 .. N : sum[i] = sum[i - 1] + price[class[i]]
    PROVE  sum[N] = ByClass(class, price, N) /\ sum[N] \in Nat
<1> DEFINE T == {j \in 0 .. N : sum[j] = ByClass(class, price, j) /\ sum[j] \in Nat}
<1>1. 0 \in T
   <2>1. \A k \in Classes : Upto(class, k, 0) * price[k] = 0
         BY UptoGrows
   <2>2. ByClass(class, price, 0) = 0
         BY <2>1 DEF ByClass, Classes
   <2>3. QED
         BY <2>2
<1>2. ASSUME NEW i \in 1 .. N, i - 1 \in T PROVE i \in T
   <2>1. PICK j \in Nat : j = i - 1 /\ i = j + 1
         OBVIOUS
   <2>2. class[i] \in Classes /\ price[class[i]] \in Nat
         OBVIOUS
   <2>3. ASSUME NEW k \in Classes
         PROVE  /\ Upto(class, k, j) * price[k] \in Nat
                /\ Upto(class, k, i) * price[k]
                      = Upto(class, k, j) * price[k] + (IF class[i] = k THEN price[k] ELSE 0)
      <3>1. /\ Upto(class, k, j) \in Nat
            /\ Upto(class, k, j + 1) = Upto(class, k, j) + More(class, k, j + 1)
            BY <2>1, UptoGrows
      <3>2. /\ Upto(class, k, j) \in Nat /\ price[k] \in Nat
            /\ Upto(class, k, i) = Upto(class, k, j) + More(class, k, i)
            BY <2>1, <3>1
      <3>3. \A a, p \in Nat : (a + 1) * p = a * p + p /\ a * p \in Nat /\ (a + 0) * p = a * p + 0
            OBVIOUS
      <3>4. QED
            BY <3>2, <3>3 DEF More
   <2> DEFINE t(k) == Upto(class, k, j) * price[k]
              u(k) == Upto(class, k, i) * price[k]
              d(k) == IF class[i] = k THEN price[k] ELSE 0
   <2>4. \A k \in Classes : t(k) \in Nat /\ u(k) = t(k) + d(k)
         BY <2>3
   <2>5. sum[j] = t("term") + t("match_all") + t("leading_wildcard") + t("range") + t("open_range")
         BY <1>2, <2>1 DEF ByClass
   <2>6. ByClass(class, price, i) = u("term") + u("match_all") + u("leading_wildcard") + u("range") + u("open_range")
         BY DEF ByClass
   <2>7. sum[i] = sum[j] + price[class[i]]
         BY <2>1
   <2> HIDE DEF t, u
   <2>8. /\ t("term") \in Nat /\ t("match_all") \in Nat /\ t("leading_wildcard") \in Nat
         /\ t("range") \in Nat /\ t("open_range") \in Nat
         BY <2>4 DEF Classes
   <2>9. sum[i] = ByClass(class, price, i)
      <3>1. /\ u("term") = t("term") + d("term") /\ u("match_all") = t("match_all") + d("match_all")
            /\ u("leading_wildcard") = t("leading_wildcard") + d("leading_wildcard")
            /\ u("range") = t("range") + d("range") /\ u("open_range") = t("open_range") + d("open_range")
            BY <2>4 DEF Classes
      <3>2. d("term") + d("match_all") + d("leading_wildcard") + d("range") + d("open_range") = price[class[i]]
            BY <2>2 DEF Classes
      <3>3. \A k \in Classes : d(k) \in Nat
            OBVIOUS
      <3>4. /\ d("term") \in Nat /\ d("match_all") \in Nat /\ d("leading_wildcard") \in Nat
            /\ d("range") \in Nat /\ d("open_range") \in Nat
            BY <3>3 DEF Classes
      <3> HIDE DEF d
      <3>5. QED
            BY <2>2, <2>5, <2>6, <2>7, <2>8, <3>1, <3>2, <3>4
   <2>10. sum[i] \in Nat
      <3>1. sum[j] \in Nat
            BY <1>2, <2>1
      <3>2. QED
            BY <2>2, <2>7, <3>1
   <2>11. QED
          BY <2>9, <2>10
<1> HIDE DEF T
<1>3. 0 .. N \subseteq T
      BY <1>1, <1>2, UptoInduction
<1>4. QED
      BY <1>3 DEF T

LEMMA ChargesType ==
    ASSUME NEW m \in Models
    PROVE  \A k \in Classes : Charges(m)[k] \in Nat
<1>1. Point \in Nat
      BY DEF Point
<1>2. /\ m.term * Point \in Nat /\ m.matchAll * Point \in Nat /\ m.range * Point \in Nat
      /\ m.openRange * Point \in Nat
      BY <1>1, ModelType, ProductType
<1>3. m.term * m.wildcard + m.leading \in Nat
   <2>1. m.term * m.wildcard \in Nat /\ m.leading \in Nat
         BY ModelType, ProductType
   <2>2. QED
         BY <2>1
<1>4. (m.term * m.wildcard + m.leading) * Point \in Nat
      BY <1>1, <1>3, ProductType
<1>5. QED
      BY <1>2, <1>4 DEF Charges, Classes

\* A plain clause costs what its class does, and shows its class.
LEMMA PlainPriced ==
    ASSUME NEW m \in Models, NEW c \in Nodes, c.kind = "clause", Plain(c, m)
    PROVE  LET e == Estimated[<<c, m, NoField, 0>>]
           IN  /\ ClassOf(c) \in Classes
               /\ e.cost = Charges(m)[ClassOf(c)]
               /\ \A k : k \in e.keys <=> k = ClassOf(c) /\ Charges(m)[ClassOf(c)] > 0
<1> DEFINE e     == Estimated[<<c, m, NoField, 0>>]
           t     == c.term
           child == Estimated[<<t, m, c.field, 0>>]
           x     == Charges(m)[ClassOf(c)]
<1>1. /\ c.term \in Nodes /\ c.field \in Fields /\ NoField \in Fields
      /\ t.kind \in {"term", "range"}
      /\ t.kind = "term" => t.value \in Seq(STRING) /\ t.value # <<>>
      BY NodesAssumption, SubtreesAreSmaller DEF Plain, Fields
<1>2. /\ Weight(m, c.field) = 10 /\ Unfielded(m, c.field) = 1 /\ ~ IsKeyword(c.field) /\ c.occur = "should"
      BY DEF Plain, Unfielded
<1>3. e = ClauseCost(child, "should", 10)
   <2>1. e = EstimateIn(Estimated, c, m, NoField, 0)
         BY <1>1, EstimatedDefined
   <2>2. QED
         BY <1>2, <2>1 DEF EstimateIn
<1>4. child = EstimateIn(Estimated, t, m, c.field, 0)
      BY <1>1, EstimatedDefined
<1>5. \A y \in Nat : Tenths(y, 10) = y
   <2>1. \A y \in Nat : (y * 10) \div 10 = y
         OBVIOUS
   <2>2. QED
         BY <2>1 DEF Tenths
<1>6. /\ m.term * Point \in Nat /\ m.range * Point \in Nat /\ m.openRange * Point \in Nat
      /\ m.matchAll * Point \in Nat /\ m.leading * Point \in Nat
      /\ m.term \in Nat /\ m.wildcard \in Nat /\ m.leading \in Nat /\ Point \in Nat
   <2>1. Point \in Nat
         BY DEF Point
   <2>2. QED
         BY <2>1, ModelType, ProductType
<1>7. ClassOf(c) \in Classes /\ child = Entry(ClassOf(c), x)
   <2>1. CASE t.kind = "term"
      <3>0. child = TermCost(t.value, m, c.field)
            BY <1>4, <2>1 DEF EstimateIn
      <3>1. CASE t.value = <<"*">>
         <4>1. ClassOf(c) = "match_all"
               BY <2>1, <3>1 DEF ClassOf, FeatureOf
         <4>2. QED
               BY <3>0, <3>1, <4>1 DEF TermCost, Charges, Classes
      <3>2. CASE t.value # <<"*">> /\ t.value[1] \in Wild
         <4>1. ClassOf(c) = "leading_wildcard"
               BY <1>2, <2>1, <3>2 DEF ClassOf, FeatureOf
         <4>2. Wildcard(t.value) /\ ~ Prefix(t.value)
               BY <1>1, <2>1, <3>2, LeadingIsNoPrefix
         <4>3. WildcardKey(t.value, c.field) = "leading_wildcard"
               BY <1>2, <3>2, <4>2 DEF WildcardKey
         <4> DEFINE base == Tenths(m.term * Point, 10) * 1
         <4>4. child = Entry("leading_wildcard", (base * m.wildcard + m.leading * Point) * 1)
               BY <1>2, <3>0, <3>2, <4>2, <4>3 DEF TermCost
         <4>5. base = m.term * Point
               BY <1>5, <1>6
         <4>6. \A a, w, b, p \in Nat : ((a * p) * w + b * p) * 1 = (a * w + b) * p
            <5>1. \A a, w, b, p \in Nat : (a * p) * w = (a * w) * p
                  OBVIOUS
            <5>2. \A z, b, p \in Nat : z * p + b * p = (z + b) * p /\ (z * p + b * p) * 1 = z * p + b * p
                  OBVIOUS
            <5>3. \A a, w \in Nat : a * w \in Nat
                  OBVIOUS
            <5>4. QED
                  BY <5>1, <5>2, <5>3
         <4> HIDE DEF base
         <4>7. (base * m.wildcard + m.leading * Point) * 1 = (m.term * m.wildcard + m.leading) * Point
               BY <1>6, <4>5, <4>6
         <4>8. QED
               BY <4>1, <4>4, <4>7 DEF Charges, Classes
      <3>3. CASE ~ (t.value[1] \in Wild)
         <4>1. ~ Wildcard(t.value) /\ t.value # <<"*">>
               BY <2>1, <3>3 DEF Plain, Wild
         <4>2. ClassOf(c) = "term"
               BY <2>1, <3>3, <4>1 DEF ClassOf, FeatureOf
         <4>3. child = Entry("term", Tenths(m.term * Point, 10) * 1)
               BY <1>2, <3>0, <4>1 DEF TermCost
         <4>4. Tenths(m.term * Point, 10) * 1 = m.term * Point
               BY <1>5, <1>6
         <4>5. QED
               BY <4>2, <4>3, <4>4 DEF Charges, Classes
      <3>4. QED
            BY <3>1, <3>2, <3>3
   <2>2. CASE t.kind = "range"
      <3>0. child = RangeCost(t, m, c.field)
            BY <1>4, <2>2 DEF EstimateIn
      <3>1. Tenths(m.openRange * Point, 10) = m.openRange * Point /\ Tenths(m.range * Point, 10) * 1 = m.range * Point
            BY <1>5, <1>6
      <3>2. CASE t.low = <<"*">> /\ t.high = <<"*">>
         <4>1. ClassOf(c) = "open_range"
               BY <2>2, <3>2 DEF ClassOf, FeatureOf
         <4>2. QED
               BY <1>2, <3>0, <3>1, <3>2, <4>1 DEF RangeCost, Charges, Classes
      <3>3. CASE ~ (t.low = <<"*">> /\ t.high = <<"*">>)
         <4>1. ClassOf(c) = "range"
               BY <2>2, <3>3 DEF ClassOf, FeatureOf
         <4>2. QED
               BY <1>2, <3>0, <3>1, <3>3, <4>1 DEF RangeCost, Charges, Classes
      <3>4. QED
            BY <3>2, <3>3
   <2>3. QED
         BY <1>1, <2>1, <2>2
<1>8. x \in Nat
      BY <1>7, ChargesType
<1> HIDE DEF x, child, e
<1>9. child.cost = x /\ \A k : k \in child.keys <=> k = ClassOf(c) /\ x > 0
      BY <1>7 DEF Entry
<1>10. ClauseCost(child, "should", 10) = [cost |-> Tenths(child.cost, 10) + 0, keys |-> child.keys \cup {}]
       BY DEF ClauseCost, KeysOf, Entry
<1>11. e.cost = x /\ e.keys = child.keys
       BY <1>3, <1>5, <1>8, <1>9, <1>10
<1>12. QED
       BY <1>7, <1>9, <1>11 DEF x, e

\* The clauses of such a query.
LEMMA ClausesOfUnion ==
    ASSUME NEW m, NEW n \in Nodes, Union(n, m)
    PROVE  /\ Len(ClausesOf(n)) \in Nat /\ DOMAIN ClausesOf(n) = 1 .. Len(ClausesOf(n))
           /\ \A i \in DOMAIN ClausesOf(n) :
                 ClausesOf(n)[i] \in Nodes /\ ClausesOf(n)[i].kind = "clause" /\ Plain(ClausesOf(n)[i], m)
<1>1. CASE n.kind = "clause"
   <2>1. ClausesOf(n) = <<n>>
         BY <1>1 DEF ClausesOf
   <2>2. Len(<<n>>) = 1 /\ DOMAIN <<n>> = 1 .. 1 /\ <<n>>[1] = n
         OBVIOUS
   <2>3. \A i \in 1 .. 1 : i = 1
         OBVIOUS
   <2>4. \A i \in DOMAIN ClausesOf(n) : ClausesOf(n)[i] = n
         BY <2>1, <2>2, <2>3
   <2>5. QED
         BY <1>1, <2>1, <2>2, <2>4 DEF Union
<1>2. CASE n.kind = "boolean"
   <2>1. ClausesOf(n) = n.clauses
         BY <1>2 DEF ClausesOf
   <2>2. n.clauses \in Seq(Nodes)
         BY <1>2, NodesAssumption
   <2>3. \A i \in DOMAIN n.clauses : n.clauses[i] \in Nodes /\ n.clauses[i].kind = "clause"
         BY <1>2, SubtreesAreSmaller
   <2>4. QED
         BY <2>1, <2>2, <2>3 DEF Union
<1>3. QED
      BY <1>1, <1>2 DEF Union

\* What the OR penalty adds.
Penalty(m, N) == IF N > 1 THEN N * (m.orClause * Point) ELSE 0

\* Optional clauses, each at the price of its class.
OptionalClauses(cs, class, price, costs) ==
    /\ Len(cs) \in Nat
    /\ \A k \in Classes : price[k] \in Nat
    /\ \A i \in 1 .. Len(cs) : cs[i].occur = "should" /\ class[i] \in Classes /\ costs[i] = price[class[i]]

\* What booleanCost makes of optional clauses.
LEMMA OptionalAdd ==
    ASSUME NEW cs, NEW class, NEW price, NEW costs, OptionalClauses(cs, class, price, costs)
    PROVE  /\ Summed(cs, costs).must = 0
           /\ Summed(cs, costs).should = ByClass(class, price, Len(cs))
           /\ Summed(cs, costs).optional = Len(cs)
<1> DEFINE N == Len(cs)
<1>0. /\ N \in Nat
      /\ \A k \in Classes : price[k] \in Nat
      /\ \A i \in 1 .. N : cs[i].occur = "should" /\ class[i] \in Classes /\ costs[i] = price[class[i]]
      BY DEF OptionalClauses
<1>1. \A i \in 1 .. N : cs[i].occur \in Occurs /\ costs[i] \in Nat
      BY <1>0 DEF Occurs
<1>2. PICK sum : Walk(sum, cs, costs)
      BY <1>1, SummedWalks
<1>3. /\ sum \in [0 .. N -> Sums] /\ sum[0] = NoClauses
      /\ \A i \in 1 .. N : sum[i] = AddClause(sum[i - 1], cs[i].occur, costs[i])
      /\ Summed(cs, costs) = sum[N]
      BY <1>2 DEF Walk
<1>4. ASSUME NEW i \in 1 .. N
      PROVE  /\ sum[i].must = sum[i - 1].must
             /\ sum[i].should = sum[i - 1].should + price[class[i]]
             /\ sum[i].optional = sum[i - 1].optional + 1
   <2>1. i - 1 \in 0 .. N
         OBVIOUS
   <2>2. sum[i - 1] \in Sums
         BY <1>3, <2>1
   <2>3. sum[i] = AddClause(sum[i - 1], "should", costs[i]) /\ costs[i] = price[class[i]]
         BY <1>0, <1>3
   <2>4. QED
         BY <2>2, <2>3, AddClauseGives
<1>5. sum[0].must = 0 /\ sum[0].should = 0 /\ sum[0].optional = 0
      BY <1>3 DEF NoClauses
<1> DEFINE T  == {k \in 0 .. N : sum[k].must = 0 /\ sum[k].optional = k}
           sh == [k \in 0 .. N |-> sum[k].should]
<1>6. 0 .. N \subseteq T
   <2>1. 0 \in T
         BY <1>5
   <2>2. ASSUME NEW i \in 1 .. N, i - 1 \in T PROVE i \in T
         BY <1>4, <2>2
   <2> HIDE DEF T
   <2>3. QED
         BY <1>0, <2>1, <2>2, UptoInduction
<1>7. sh[0] = 0 /\ \A i \in 1 .. N : sh[i] = sh[i - 1] + price[class[i]]
   <2>1. \A i \in 1 .. N : i - 1 \in 0 .. N /\ i \in 0 .. N
         OBVIOUS
   <2>2. QED
         BY <1>4, <1>5, <2>1
<1>8. sh[N] = ByClass(class, price, N)
   <2> HIDE DEF sh, N
   <2>1. N \in Nat /\ \A i \in 1 .. N : class[i] \in Classes
         BY <1>0 DEF N
   <2>2. QED
         BY <1>0, <1>7, <2>1, ClassesAdd
<1>9. N \in 0 .. N /\ sh[N] = sum[N].should
      OBVIOUS
<1>10. N \in T
       BY <1>6, <1>9
<1>11. QED
       BY <1>3, <1>8, <1>9, <1>10

ClassesOf(cs) == [i \in 1 .. Len(cs) |-> ClassOf(cs[i])]

\* What a union costs, and which of the features that can be forbidden it shows.
LEMMA UnionPriced ==
    ASSUME NEW m \in Models, NEW n \in Nodes, Union(n, m)
    PROVE  LET e  == Estimated[<<n, m, NoField, 0>>]
               cs == ClausesOf(n)
               N  == Len(cs)
           IN  /\ \A i \in 1 .. N : ClassesOf(cs)[i] \in Classes
               /\ e.cost = ByClass(ClassesOf(cs), Charges(m), N) + Penalty(m, N)
               /\ \A k \in Forbiddable :
                     k \in e.keys <=> Charges(m)[k] > 0 /\ \E i \in 1 .. N : ClassesOf(cs)[i] = k
<1> DEFINE e     == Estimated[<<n, m, NoField, 0>>]
           cs    == ClausesOf(n)
           N     == Len(cs)
           class == ClassesOf(cs)
           price == Charges(m)
<1>1. /\ N \in Nat /\ DOMAIN cs = 1 .. N
      /\ \A i \in 1 .. N : cs[i] \in Nodes /\ cs[i].kind = "clause" /\ Plain(cs[i], m)
      BY ClausesOfUnion
<1>2. \A i \in 1 .. N : class[i] = ClassOf(cs[i])
      BY DEF ClassesOf
<1>3. ASSUME NEW i \in 1 .. N
      PROVE  /\ class[i] \in Classes /\ cs[i].occur = "should"
             /\ Estimated[<<cs[i], m, NoField, 0>>].cost = price[class[i]]
             /\ \A k : k \in Estimated[<<cs[i], m, NoField, 0>>].keys <=> k = class[i] /\ price[class[i]] > 0
   <2>1. PICK c \in Nodes : c = cs[i]
         BY <1>1
   <2>2. c.kind = "clause" /\ Plain(c, m) /\ class[i] = ClassOf(c)
         BY <1>1, <1>2, <2>1
   <2>3. /\ ClassOf(c) \in Classes
         /\ Estimated[<<c, m, NoField, 0>>].cost = Charges(m)[ClassOf(c)]
         /\ \A k : k \in Estimated[<<c, m, NoField, 0>>].keys <=> k = ClassOf(c) /\ Charges(m)[ClassOf(c)] > 0
         BY <2>2, PlainPriced
   <2>4. c.occur = "should"
         BY <2>2 DEF Plain
   <2> HIDE DEF class
   <2>5. QED
         BY <2>1, <2>2, <2>3, <2>4
<1>4. \A k \in Classes : price[k] \in Nat
      BY ChargesType
<1>5. e = EstimateIn(Estimated, n, m, NoField, 0) /\ NoField \in Fields
      BY EstimatedDefined DEF Fields
<1>6. CASE n.kind = "clause"
   <2>1. cs = <<n>> /\ N = 1 /\ cs[1] = n
         BY <1>6 DEF ClausesOf
   <2>2. 1 \in 1 .. N /\ \A i \in 1 .. N : i = 1
         BY <2>1
   <2>3. /\ e.cost = price[class[1]] /\ class[1] \in Classes
         /\ \A k : k \in e.keys <=> k = class[1] /\ price[class[1]] > 0
         BY <1>3, <2>1, <2>2
   <2>4. e.cost = ByClass(class, price, 1)
      <3> DEFINE sum == [i \in 0 .. 1 |-> IF i = 0 THEN 0 ELSE price[class[1]]]
      <3>1. sum[0] = 0 /\ sum[1] = price[class[1]] /\ \A i \in 1 .. 1 : sum[i] = sum[i - 1] + price[class[i]]
         <4>1. price[class[1]] \in Nat
               BY <1>4, <2>3
         <4>2. sum[0] = 0 /\ sum[1] = price[class[1]]
               OBVIOUS
         <4>3. \A i \in 1 .. 1 : i = 1
               OBVIOUS
         <4> HIDE DEF sum, price, class
         <4>4. QED
               BY <4>1, <4>2, <4>3
      <3> HIDE DEF sum, price, class
      <3>2. \A i \in 1 .. 1 : class[i] \in Classes
            BY <1>3, <2>1
      <3>3. sum[1] = ByClass(class, price, 1)
            BY <1>4, <3>1, <3>2, ClassesAdd
      <3>4. QED
            BY <2>3, <3>1, <3>3
   <2>5. Penalty(m, N) = 0
         BY <2>1 DEF Penalty
   <2>6. e.cost \in Nat
         BY <1>4, <2>3
   <2>7. e.cost = ByClass(class, price, N) + Penalty(m, N)
         BY <2>1, <2>4, <2>5, <2>6
   <2> HIDE DEF class, price, e, cs, N
   <2>8. \A k \in Forbiddable : k \in e.keys <=> price[k] > 0 /\ \E i \in 1 .. N : class[i] = k
         BY <2>2, <2>3
   <2>9. QED
         BY <1>3, <2>7, <2>8 DEF class, price, e, cs, N
<1>7. CASE n.kind = "boolean"
   <2> DEFINE children == [i \in DOMAIN cs |-> Estimated[<<cs[i], m, NoField, 0>>]]
              costs    == [i \in DOMAIN cs |-> children[i].cost]
              sum      == Summed(cs, costs)
              either   == Entry("or_clauses", sum.optional * m.orClause * Point)
   <2>1. e = BooleanCost(cs, m, children)
         BY <1>5, <1>7 DEF EstimateIn, ClausesOf
   <2>2. \A i \in 1 .. N : /\ costs[i] = price[class[i]]
                           /\ \A k : k \in children[i].keys <=> k = class[i] /\ price[class[i]] > 0
         BY <1>1, <1>3
   <2>3. /\ e.cost = sum.must + sum.should + either.cost
         /\ e.keys = Shown(cs, children) \cup either.keys
      <3> HIDE DEF children, e
      <3>1. QED
            BY <2>1 DEF BooleanCost
   <2>4. sum.must = 0 /\ sum.should = ByClass(class, price, N) /\ sum.optional = N
      <3>1. \A i \in 1 .. Len(cs) : cs[i].occur = "should"
            BY <1>3
      <3>2. \A i \in 1 .. Len(cs) : class[i] \in Classes
            BY <1>3
      <3>3. \A i \in 1 .. Len(cs) : costs[i] = price[class[i]]
            BY <2>2
      <3>4. Len(cs) \in Nat
            BY <1>1
      <3> HIDE DEF children, costs, price, class, cs, e
      <3>5. QED
         <4>1. OptionalClauses(cs, class, price, costs)
               BY <1>4, <3>1, <3>2, <3>3, <3>4 DEF OptionalClauses
         <4>2. QED
               BY <4>1, OptionalAdd
   <2>5. ByClass(class, price, N) \in Nat
      <3>1. \A k \in Classes : Upto(class, k, N) * price[k] \in Nat
         <4>1. \A k \in Classes : Upto(class, k, N) \in Nat
               BY <1>1, UptoGrows
         <4> HIDE DEF class, N, price
         <4>2. QED
               BY <1>4, <4>1, ProductType
      <3> HIDE DEF class, N, price
      <3>2. QED
            BY <3>1 DEF ByClass, Classes
   <2>6. N # 1
         BY <1>7 DEF Union, ClausesOf
   <2>7. N * m.orClause * Point = Penalty(m, N)
      <3>1. \A a, b, p \in Nat : a * b * p = a * (b * p) /\ 0 * (b * p) = 0
            OBVIOUS
      <3>2. m.orClause \in Nat /\ Point \in Nat
            BY ModelType DEF Point
      <3> HIDE DEF N
      <3>3. N * m.orClause * Point = N * (m.orClause * Point) /\ 0 * (m.orClause * Point) = 0
            BY <1>1, <3>1, <3>2
      <3>4. N = 0 \/ N > 1
            BY <1>1, <2>6
      <3>5. QED
            BY <3>3, <3>4 DEF Penalty
   <2>8. either.cost = Penalty(m, N) /\ either.keys \subseteq {"or_clauses"}
         BY <2>4, <2>7 DEF Entry
   <2>9. Penalty(m, N) \in Nat
      <3>1. m.orClause \in Nat /\ Point \in Nat
            BY ModelType DEF Point
      <3> HIDE DEF N
      <3>2. N * (m.orClause * Point) \in Nat
            BY <1>1, <3>1, ProductType
      <3>3. QED
            BY <3>2 DEF Penalty
   <2> HIDE DEF sum, either, children, costs, e, price, class
   <2>10. e.cost = ByClass(class, price, N) + Penalty(m, N)
          BY <2>3, <2>4, <2>5, <2>8, <2>9
   <2>11. ASSUME NEW k \in Forbiddable
          PROVE  k \in e.keys <=> price[k] > 0 /\ \E i \in 1 .. N : class[i] = k
      <3>1. k # "or_clauses"
            BY DEF Forbiddable, Abstract!Features
      <3>2. k \in e.keys <=> k \in Shown(cs, children)
            BY <2>3, <2>8, <3>1
      <3>3. k \in Shown(cs, children) <=> \E i \in 1 .. N : k \in children[i].keys
            BY <1>1 DEF Shown
      <3>4. QED
            BY <2>2, <3>2, <3>3
   <2>12. QED
          BY <1>3, <2>10, <2>11 DEF class, price, e
<1>8. QED
      BY <1>6, <1>7 DEF Union

\* The kinds of a range's span.
LEMMA SpanKinds ==
    \A r : Span(r).kind \in {"bad", "open", "closed"}
BY DEF Span

\* The classes partition the clauses.
LEMMA AllAreOfAClass ==
    ASSUME NEW N \in Nat, NEW class, \A i \in 1 .. N : class[i] \in Classes
    PROVE  /\ \A k \in Classes : Upto(class, k, N) \in Nat
           /\ N = Upto(class, "term", N) + Upto(class, "match_all", N) + Upto(class, "leading_wildcard", N)
                  + Upto(class, "range", N) + Upto(class, "open_range", N)
<1> DEFINE one == [k \in Classes |-> 1]
           sum == [i \in 0 .. N |-> i]
<1>1. sum[0] = 0 /\ sum[N] = N /\ \A i \in 1 .. N : sum[i] = sum[i - 1] + one[class[i]]
      OBVIOUS
<1>2. \A k \in Classes : one[k] \in Nat
      OBVIOUS
<1>3. \A k \in Classes : Upto(class, k, N) \in Nat
      BY UptoGrows
<1>4. \A k \in Classes : Upto(class, k, N) * one[k] = Upto(class, k, N)
      BY <1>3
<1> HIDE DEF one, sum
<1>5. sum[N] = ByClass(class, one, N)
      BY <1>1, <1>2, ClassesAdd
<1>6. QED
      BY <1>1, <1>3, <1>4, <1>5 DEF ByClass, Classes

\* What Policy sees of the clauses.
LEMMA AbstractCounts ==
    ASSUME NEW m, NEW n \in Nodes, Union(n, m)
    PROVE  LET q     == AbstractQuery(n)
               cs    == ClausesOf(n)
               N     == Len(cs)
               class == ClassesOf(cs)
           IN  /\ q.terms = Upto(class, "term", N)
               /\ q.features["match_all"] = Upto(class, "match_all", N)
               /\ q.features["leading_wildcard"] = Upto(class, "leading_wildcard", N)
               /\ DOMAIN q.ranges = Among(cs, "range") \cup Among(cs, "open_range")
               /\ Abstract!Unbounded(q) = Among(cs, "open_range")
               /\ \A k : IsFiniteSet(Among(cs, k)) /\ Cardinality(Among(cs, k)) = Upto(class, k, N)
<1> DEFINE q     == AbstractQuery(n)
           cs    == ClausesOf(n)
           N     == Len(cs)
           class == ClassesOf(cs)
<1>1. N \in Nat /\ DOMAIN cs = 1 .. N
      BY ClausesOfUnion
<1>2. \A k : Among(cs, k) = {x \in 1 .. N : class[x] = k}
      BY <1>1 DEF Among, ClassesOf
<1>3. \A k : IsFiniteSet(Among(cs, k)) /\ Cardinality(Among(cs, k)) = Upto(class, k, N)
   <2>1. IsFiniteSet(1 .. N)
         BY <1>1, FS_Interval
   <2>2. \A k : Among(cs, k) \in SUBSET (1 .. N)
         BY <1>2
   <2>3. \A k : IsFiniteSet(Among(cs, k))
         BY <2>1, <2>2, FS_Subset
   <2>4. QED
         BY <1>2, <2>3 DEF Upto
<1>4. /\ q.terms = Cardinality(Among(cs, "term"))
      /\ q.features = [f \in Abstract!Features |-> Cardinality(Among(cs, f))]
      /\ q.ranges = [i \in Among(cs, "range") \cup Among(cs, "open_range") |-> AbstractRange(cs[i])]
      BY DEF AbstractQuery
<1> HIDE DEF q, cs, N, class
<1>5. /\ q.features["match_all"] = Cardinality(Among(cs, "match_all"))
      /\ q.features["leading_wildcard"] = Cardinality(Among(cs, "leading_wildcard"))
      BY <1>4 DEF Abstract!Features
<1>6. DOMAIN q.ranges = Among(cs, "range") \cup Among(cs, "open_range")
      BY <1>4
<1>7. Abstract!Unbounded(q) = Among(cs, "open_range")
   <2>1. \A i \in DOMAIN q.ranges : q.ranges[i] = AbstractRange(cs[i])
         BY <1>4
   <2>2. \A r : AbstractRange(r).kind = "unbounded" <=> ClassOf(r) = "open_range"
         BY SpanKinds DEF AbstractRange
   <2>3. Abstract!Unbounded(q) = {i \in DOMAIN q.ranges : q.ranges[i].kind = "unbounded"}
         BY DEF Abstract!Unbounded
   <2>4. \A i \in DOMAIN q.ranges : q.ranges[i].kind = "unbounded" <=> ClassOf(cs[i]) = "open_range"
         BY <2>1, <2>2
   <2>5. Abstract!Unbounded(q) = {i \in DOMAIN q.ranges : ClassOf(cs[i]) = "open_range"}
         BY <2>3, <2>4
   <2>6. QED
         BY <1>6, <2>5 DEF Among
<1>8. QED
      BY <1>3, <1>4, <1>5, <1>6, <1>7 DEF q, cs, N, class

\* Policy makes the same sum of them.
LEMMA AbstractCost ==
    ASSUME NEW c, c.model \in Models, NEW n \in Nodes, Union(n, c.model)
    PROVE  Abstract!Cost(AbstractQuery(n), AbstractConfig(c))
               = ByClass(ClassesOf(ClausesOf(n)), Charges(c.model), Len(ClausesOf(n)))
                 + Penalty(c.model, Len(ClausesOf(n)))
<1> DEFINE q     == AbstractQuery(n)
           a     == AbstractConfig(c)
           cs    == ClausesOf(n)
           N     == Len(cs)
           class == ClassesOf(cs)
           price == Charges(c.model)
           fine  == c.model.orClause * Point
<1>1. /\ a.termCost = price["term"] /\ a.rangeCost = price["range"] /\ a.orClauseCost = fine /\ a.price = price
      BY DEF AbstractConfig
<1>2. \A k \in Classes : price[k] \in Nat
      BY ChargesType
<1>3. /\ N \in Nat
      /\ \A i \in 1 .. N : class[i] \in Classes
      BY ClausesOfUnion, UnionPriced
<1>4. /\ q.terms = Upto(class, "term", N)
      /\ q.features["match_all"] = Upto(class, "match_all", N)
      /\ q.features["leading_wildcard"] = Upto(class, "leading_wildcard", N)
      /\ DOMAIN q.ranges = Among(cs, "range") \cup Among(cs, "open_range")
      /\ Abstract!Unbounded(q) = Among(cs, "open_range")
      /\ \A k : IsFiniteSet(Among(cs, k)) /\ Cardinality(Among(cs, k)) = Upto(class, k, N)
      BY AbstractCounts
<1> HIDE DEF q, a, cs, N, class, price, fine
<1>5. /\ \A k \in Classes : Upto(class, k, N) \in Nat
      /\ N = Upto(class, "term", N) + Upto(class, "match_all", N) + Upto(class, "leading_wildcard", N)
             + Upto(class, "range", N) + Upto(class, "open_range", N)
      BY <1>3, AllAreOfAClass
<1>6. Among(cs, "range") \cap Among(cs, "open_range") = {}
      BY DEF Among
<1>7. DOMAIN q.ranges \ Abstract!Unbounded(q) = Among(cs, "range")
      BY <1>4, <1>6
<1>8. Cardinality(DOMAIN q.ranges) = Upto(class, "range", N) + Upto(class, "open_range", N)
   <2>1. Cardinality(Among(cs, "range") \cup Among(cs, "open_range"))
            = Cardinality(Among(cs, "range")) + Cardinality(Among(cs, "open_range")) - Cardinality({})
         BY <1>4, <1>6, FS_Union
   <2>2. Cardinality({}) = 0
         BY FS_EmptySet
   <2>3. Upto(class, "range", N) \in Nat /\ Upto(class, "open_range", N) \in Nat
         BY <1>5 DEF Classes
   <2>4. QED
         BY <1>4, <2>1, <2>2, <2>3
<1>9. Abstract!RangeCost(q, a)
          = Upto(class, "open_range", N) * price["open_range"] + Upto(class, "range", N) * price["range"]
      BY <1>1, <1>4, <1>7, SameCardinality DEF Abstract!RangeCost
<1> DEFINE clauses == q.terms + q.features["match_all"] + q.features["leading_wildcard"] + Cardinality(DOMAIN q.ranges)
<1>10. Abstract!Cost(q, a) =
           q.terms * a.termCost
           + q.features["match_all"] * a.price["match_all"]
           + q.features["leading_wildcard"] * a.price["leading_wildcard"]
           + Abstract!RangeCost(q, a)
           + (IF clauses > 1 THEN clauses * a.orClauseCost ELSE 0)
       BY SameCardinality DEF Abstract!Cost
<1>11. clauses = N
   <2>1. /\ Upto(class, "term", N) \in Nat /\ Upto(class, "match_all", N) \in Nat
         /\ Upto(class, "leading_wildcard", N) \in Nat
         /\ Upto(class, "range", N) \in Nat /\ Upto(class, "open_range", N) \in Nat
         BY <1>5 DEF Classes
   <2>2. QED
         BY <1>4, <1>5, <1>8, <2>1
<1> HIDE DEF clauses
<1>12. (IF clauses > 1 THEN clauses * a.orClauseCost ELSE 0) = Penalty(c.model, N)
       BY <1>1, <1>11 DEF Penalty, fine
<1>13. Abstract!Cost(q, a) =
           Upto(class, "term", N) * price["term"]
           + Upto(class, "match_all", N) * price["match_all"]
           + Upto(class, "leading_wildcard", N) * price["leading_wildcard"]
           + (Upto(class, "open_range", N) * price["open_range"] + Upto(class, "range", N) * price["range"])
           + Penalty(c.model, N)
       BY <1>1, <1>4, <1>9, <1>10, <1>12
<1>14. \A k \in Classes : Upto(class, k, N) * price[k] \in Nat
       BY <1>2, <1>5, ProductType
<1>15. Penalty(c.model, N) \in Nat
   <2>1. fine \in Nat
      <3>1. c.model.orClause \in Nat /\ Point \in Nat
            BY ModelType DEF Point
      <3>2. QED
            BY <3>1, ProductType DEF fine
   <2>2. N * fine \in Nat
         BY <1>3, <2>1, ProductType
   <2>3. QED
         BY <2>2 DEF Penalty, fine
<1>16. Abstract!Cost(q, a) = ByClass(class, price, N) + Penalty(c.model, N)
   <2>1. \A t, u, v, w, x, p \in Nat : t + u + v + (w + x) + p = t + u + v + x + w + p
         OBVIOUS
   <2>2. /\ Upto(class, "term", N) * price["term"] \in Nat
         /\ Upto(class, "match_all", N) * price["match_all"] \in Nat
         /\ Upto(class, "leading_wildcard", N) * price["leading_wildcard"] \in Nat
         /\ Upto(class, "range", N) * price["range"] \in Nat
         /\ Upto(class, "open_range", N) * price["open_range"] \in Nat
         BY <1>14 DEF Classes
   <2>3. QED
         BY <1>13, <1>15, <2>1, <2>2 DEF ByClass
<1>17. QED
       BY <1>16 DEF q, a, cs, N, class, price

\* Such a query costs whole points, so rounding leaves its cost alone.
InPoints(x) == \E z \in Nat : x = z * Point

LEMMA RoundedPoints == \A x : InPoints(x) => x \in Nat /\ Round(x) = x
<1>1. \A z \in Nat : z * 10000 \in Nat /\ ((z * 10000 + 50) \div 100) * 100 = z * 10000
      OBVIOUS
<1>2. 10000 \div 100 = 100 /\ 100 \div 2 = 50
      OBVIOUS
<1>3. QED
      BY <1>1, <1>2 DEF InPoints, Round, Point

LEMMA PointsAdd ==
    ASSUME NEW x, NEW y, InPoints(x), InPoints(y)
    PROVE  InPoints(x + y)
<1>1. PICK u, v \in Nat : x = u * Point /\ y = v * Point
      BY DEF InPoints
<1>2. u + v \in Nat /\ (u + v) * Point = u * Point + v * Point
      BY DEF Point
<1>3. QED
      BY <1>1, <1>2 DEF InPoints

LEMMA PointsMultiply ==
    ASSUME NEW k \in Nat, NEW x, InPoints(x)
    PROVE  InPoints(k * x)
<1>1. PICK z \in Nat : x = z * Point
      BY DEF InPoints
<1>2. \A a, b, p \in Nat : a * b \in Nat /\ (a * b) * p = a * (b * p)
      OBVIOUS
<1>3. k * z \in Nat /\ (k * z) * Point = k * (z * Point)
      BY <1>2 DEF Point
<1>4. QED
      BY <1>1, <1>3 DEF InPoints

LEMMA CostInPoints ==
    ASSUME NEW m \in Models, NEW n \in Nodes, Union(n, m)
    PROVE  LET cost == Estimated[<<n, m, NoField, 0>>].cost
           IN  Round(cost) = cost /\ cost \in Nat
<1> DEFINE cost  == Estimated[<<n, m, NoField, 0>>].cost
           N     == Len(ClausesOf(n))
           class == ClassesOf(ClausesOf(n))
           price == Charges(m)
<1>1. cost = ByClass(class, price, N) + Penalty(m, N)
      BY UnionPriced
<1>2. N \in Nat /\ \A k \in Classes : Upto(class, k, N) \in Nat
      BY ClausesOfUnion, UptoGrows
<1>3. \A k \in Classes : InPoints(price[k])
   <2>1. /\ m.term \in Nat /\ m.matchAll \in Nat /\ m.range \in Nat /\ m.openRange \in Nat
         BY ModelType
   <2>2. m.term * m.wildcard + m.leading \in Nat
      <3>1. m.term * m.wildcard \in Nat /\ m.leading \in Nat
            BY ModelType, ProductType
      <3>2. QED
            BY <3>1
   <2>3. /\ InPoints(m.term * Point) /\ InPoints(m.matchAll * Point) /\ InPoints(m.range * Point)
         /\ InPoints(m.openRange * Point) /\ InPoints((m.term * m.wildcard + m.leading) * Point)
         BY <2>1, <2>2 DEF InPoints
   <2>4. QED
         BY <2>3 DEF Charges, Classes
<1> HIDE DEF cost, N, class, price
<1>4. \A k \in Classes : InPoints(Upto(class, k, N) * price[k])
      BY <1>2, <1>3, PointsMultiply
<1>5. /\ InPoints(Upto(class, "term", N) * price["term"])
      /\ InPoints(Upto(class, "match_all", N) * price["match_all"])
      /\ InPoints(Upto(class, "leading_wildcard", N) * price["leading_wildcard"])
      /\ InPoints(Upto(class, "range", N) * price["range"])
      /\ InPoints(Upto(class, "open_range", N) * price["open_range"])
      BY <1>4 DEF Classes
<1>6. InPoints(ByClass(class, price, N))
      BY <1>5, PointsAdd DEF ByClass
<1>7. InPoints(Penalty(m, N))
   <2>1. m.orClause \in Nat
         BY ModelType
   <2>2. InPoints(m.orClause * Point)
         BY <2>1 DEF InPoints
   <2>3. InPoints(N * (m.orClause * Point))
         BY <1>2, <2>2, PointsMultiply
   <2>4. 0 * Point = 0
         BY DEF Point
   <2>5. InPoints(0)
         BY <2>4 DEF InPoints
   <2>6. QED
         BY <2>3, <2>5 DEF Penalty
<1>8. InPoints(cost)
      BY <1>1, <1>6, <1>7, PointsAdd
<1>9. QED
      BY <1>8, RoundedPoints DEF cost

\* What Policy calls raised is what the clauses are.
LEMMA RaisedAre ==
    ASSUME NEW m, NEW n \in Nodes, Union(n, m), NEW f \in Forbiddable
    PROVE  f \in Abstract!Raised(AbstractQuery(n))
              <=> \E i \in 1 .. Len(ClausesOf(n)) : ClassesOf(ClausesOf(n))[i] = f
<1> DEFINE q  == AbstractQuery(n)
           cs == ClausesOf(n)
           N  == Len(cs)
<1>1. DOMAIN cs = 1 .. N
      BY ClausesOfUnion
<1>2. Among(cs, f) # {} <=> \E i \in 1 .. N : ClassesOf(cs)[i] = f
      BY <1>1 DEF Among, ClassesOf
<1>3. IsFiniteSet(Among(cs, f))
      BY AbstractCounts
<1>4. Cardinality(Among(cs, f)) > 0 <=> Among(cs, f) # {}
      BY <1>3, FS_EmptySet, FS_CardinalityType
<1>5. CASE f \in Abstract!Features
   <2>1. q.features[f] = Cardinality(Among(cs, f))
         BY <1>5 DEF AbstractQuery
   <2>2. f # "open_range"
         BY <1>5 DEF Abstract!Features
   <2> HIDE DEF q, cs
   <2>3. f \in Abstract!Raised(q) <=> q.features[f] > 0
         BY <1>5, <2>2 DEF Abstract!Raised
   <2>4. QED
         BY <1>2, <1>4, <2>1, <2>3 DEF q, cs
<1>6. CASE f = "open_range"
   <2>1. Abstract!Unbounded(q) = Among(cs, "open_range")
         BY AbstractCounts
   <2>2. "open_range" \notin Abstract!Features
         BY DEF Abstract!Features
   <2> HIDE DEF q, cs
   <2>3. f \in Abstract!Raised(q) <=> Abstract!Unbounded(q) # {}
         BY <1>6, <2>2 DEF Abstract!Raised
   <2>4. QED
         BY <1>2, <1>6, <2>1, <2>3 DEF q, cs
<1>7. QED
      BY <1>5, <1>6 DEF Forbiddable

\* The first two rules decide alike.
LEMMA SameFeatures ==
    ASSUME NEW c, c.model \in Models, c.forbidden \subseteq Forbiddable,
           NEW n \in Nodes, Union(n, c.model)
    PROVE  LET q == AbstractQuery(n)
               a == AbstractConfig(c)
           IN  Abstract!ForbiddenFeature(q, a)
                  = IF Estimate(n, c.model).keys \cap c.forbidden # {} THEN "forbidden_feature" ELSE Allowed
<1> DEFINE q     == AbstractQuery(n)
           a     == AbstractConfig(c)
           keys  == Estimate(n, c.model).keys
           price == Charges(c.model)
<1>1. keys = Estimated[<<n, c.model, NoField, 0>>].keys
      BY DEF Estimate
<1>2. a.forbidden = c.forbidden /\ a.price = price
      BY DEF AbstractConfig
<1>3. \A k \in Forbiddable : k \in keys <=> price[k] > 0 /\ k \in Abstract!Raised(q)
      BY <1>1, UnionPriced, RaisedAre
<1> HIDE DEF q, a, keys, price
<1>4. (\E f \in Abstract!Raised(q) \cap a.forbidden : a.price[f] > 0) <=> keys \cap c.forbidden # {}
      BY <1>2, <1>3
<1>5. QED
      BY <1>4 DEF q, a, keys, Abstract!ForbiddenFeature, Abstract!Allowed, Allowed

LEMMA SameLimit ==
    ASSUME NEW c, c.model \in Models, NEW p, NEW n \in Nodes, Union(n, c.model)
    PROVE  LET q == AbstractQuery(n)
               a == AbstractConfig(c)
           IN  Abstract!PlanLimit(q, a, p)
                  = IF Estimate(n, c.model).cost > CostLimit(c, p) THEN "cost" ELSE Allowed
<1> DEFINE q == AbstractQuery(n)
           a == AbstractConfig(c)
<1>1. Estimate(n, c.model).cost = Estimated[<<n, c.model, NoField, 0>>].cost
      BY CostInPoints DEF Estimate
<1>2. Abstract!Cost(q, a) = Estimated[<<n, c.model, NoField, 0>>].cost
      BY AbstractCost, UnionPriced
<1>3. /\ DOMAIN a.plans = DOMAIN c.plans
      /\ \A x \in DOMAIN c.plans : a.plans[x].limit = Point * c.plans[x].limit
      BY DEF AbstractConfig
<1> HIDE DEF q, a
<1>4. Abstract!CostLimit(a, p) = CostLimit(c, p)
      BY <1>3 DEF Abstract!CostLimit, CostLimit
<1>5. QED
      BY <1>1, <1>2, <1>4 DEF q, a, Abstract!PlanLimit, Abstract!Allowed, Allowed

\* The range clauses, and where FindWindow's walk ends at them.
LEMMA PlainRange ==
    ASSUME NEW m, NEW c \in Nodes, c.kind = "clause", Plain(c, m), NEW ds \in Dates
    PROVE  LET range == AbstractRange(c)
               found == FindWindow[<<c, ds>>]
           IN  /\ c.term.kind = "range" <=> ClassOf(c) \in {"range", "open_range"}
               /\ found # NoNode <=> c.term.kind = "range" /\ (range.kind = "bad" \/ range.field \in ds)
               /\ found # NoNode => found = c.term
<1> DEFINE t     == c.term
           range == AbstractRange(c)
           found == FindWindow[<<c, ds>>]
<1>1. t \in Nodes /\ t.kind \in {"term", "range"}
      BY SubtreesAreSmaller DEF Plain
<1>2. found = IF c.field \in ds /\ t.kind = "range" THEN t ELSE FindWindow[<<t, ds>>]
   <2>1. found = FindIn(FindWindow, c, ds)
         BY FindWindowDefined
   <2>2. QED
         BY <2>1 DEF FindIn
<1>3. FindWindow[<<t, ds>>] = IF t.kind = "range" /\ Span(t).kind = "bad" THEN t ELSE NoNode
   <2>1. FindWindow[<<t, ds>>] = FindIn(FindWindow, t, ds)
         BY <1>1, FindWindowDefined
   <2>2. QED
         BY <1>1, <2>1 DEF FindIn
<1>4. t.kind = "range" => t # NoNode
      BY DEF NoNode
<1>5. range.field = c.field /\ range.kind = IF ClassOf(c) = "open_range" THEN "unbounded" ELSE Span(t).kind
      BY DEF AbstractRange
<1>6. t.kind = "range" <=> ClassOf(c) \in {"range", "open_range"}
      BY <1>1 DEF ClassOf, FeatureOf
<1>7. ClassOf(c) = "open_range" => Span(t).kind = "open"
   <2>1. SUFFICES ASSUME ClassOf(c) = "open_range" PROVE Span(t).kind = "open"
         OBVIOUS
   <2>2. t.low = <<"*">> /\ t.high = <<"*">>
         BY <1>1, <2>1 DEF ClassOf, FeatureOf
   <2>3. QED
         BY <2>2 DEF Span, ParseBound, Missing, Unknown
<1> HIDE DEF t, range, found
<1>8. QED
      BY <1>2, <1>3, <1>4, <1>5, <1>6, <1>7 DEF t, range, found

LEMMA SameHit ==
    ASSUME NEW c \in Configs, NEW n \in Nodes, Union(n, c.model)
    PROVE  LET q     == AbstractQuery(n)
               cs    == ClausesOf(n)
               hits  == Abstract!Hits(q, AbstractConfig(c))
               first == Abstract!Min(hits)
           IN  /\ FindWindow[<<n, c.dateFields>>] = IF hits = {} THEN NoNode ELSE cs[first].term
               /\ hits # {} => /\ cs[first].term # NoNode
                               /\ cs[first].term.kind = "range"
                               /\ q.ranges[first] = AbstractRange(cs[first])
<1> DEFINE q     == AbstractQuery(n)
           a     == AbstractConfig(c)
           cs    == ClausesOf(n)
           N     == Len(cs)
           ds    == c.dateFields
           hits  == Abstract!Hits(q, a)
           find(i) == FindWindow[<<cs[i], ds>>]
<1>1. /\ N \in Nat /\ DOMAIN cs = 1 .. N
      /\ \A i \in 1 .. N : cs[i] \in Nodes /\ cs[i].kind = "clause" /\ Plain(cs[i], c.model)
      BY ClausesOfUnion
<1>2. ds \in Dates
      BY DEF Dates
<1>3. ASSUME NEW i \in 1 .. N
      PROVE  /\ cs[i].term.kind = "range" <=> ClassOf(cs[i]) \in {"range", "open_range"}
             /\ find(i) # NoNode
                   <=> cs[i].term.kind = "range"
                       /\ (AbstractRange(cs[i]).kind = "bad" \/ AbstractRange(cs[i]).field \in ds)
             /\ find(i) # NoNode => find(i) = cs[i].term
   <2>1. PICK d \in Nodes : d = cs[i]
         BY <1>1
   <2>2. d.kind = "clause" /\ Plain(d, c.model)
         BY <1>1, <2>1
   <2>3. QED
         BY <1>2, <2>1, <2>2, PlainRange
<1>4. /\ DOMAIN q.ranges = Among(cs, "range") \cup Among(cs, "open_range")
      /\ \A i \in DOMAIN q.ranges : q.ranges[i] = AbstractRange(cs[i])
      BY DEF AbstractQuery
<1>5. a.dateFields = ds
      BY DEF AbstractConfig
<1>6. hits = {i \in DOMAIN q.ranges : q.ranges[i].kind = "bad" \/ q.ranges[i].field \in a.dateFields}
      BY DEF Abstract!Hits
<1> HIDE DEF q, a, cs, N, ds, hits, find
<1>7. DOMAIN q.ranges = {i \in 1 .. N : cs[i].term.kind = "range"}
      BY <1>1, <1>3, <1>4 DEF Among
<1>8. hits = {i \in 1 .. N : find(i) # NoNode}
      BY <1>3, <1>4, <1>5, <1>6, <1>7
<1> DEFINE first == Min(hits)
<1>9. Abstract!Min(hits) = first
      BY SameMin
<1>10. hits # {} => first \in hits
   <2>1. hits \in SUBSET Nat
         BY <1>1, <1>8
   <2>2. QED
         BY <2>1, MinIsLeast
<1>11. hits # {} => /\ find(first) = cs[first].term
                    /\ cs[first].term # NoNode
                    /\ cs[first].term.kind = "range"
                    /\ q.ranges[first] = AbstractRange(cs[first])
   <2>1. SUFFICES ASSUME hits # {}
                  PROVE  /\ find(first) = cs[first].term
                         /\ cs[first].term # NoNode
                         /\ cs[first].term.kind = "range"
                         /\ q.ranges[first] = AbstractRange(cs[first])
         OBVIOUS
   <2>2. first \in hits
         BY <1>10, <2>1
   <2>3. first \in 1 .. N /\ find(first) # NoNode
         BY <1>8, <2>2
   <2>4. first \in DOMAIN q.ranges
         BY <1>6, <2>2
   <2> HIDE DEF first
   <2>5. QED
         BY <1>3, <1>4, <2>3, <2>4
<1>12. FindWindow[<<n, ds>>] = IF hits = {} THEN NoNode ELSE find(first)
   <2>1. CASE n.kind = "clause"
      <3>1. cs = <<n>> /\ N = 1
            BY <2>1 DEF ClausesOf, cs, N
      <3>2. cs[1] = n
            BY <3>1
      <3>3. hits = {} => find(1) = NoNode
            BY <1>8, <3>1
      <3>4. hits # {} => first = 1
         <4> HIDE DEF first
         <4>1. \A i \in 1 .. N : i = 1
               BY <3>1
         <4>2. QED
               BY <1>8, <1>10, <4>1
      <3> HIDE DEF first
      <3>5. QED
            BY <3>2, <3>3, <3>4 DEF find
   <2>2. CASE n.kind = "boolean"
      <3>1. cs = n.clauses
            BY <2>2 DEF ClausesOf, cs
      <3>2. FindWindow[<<n, ds>>] = FindIn(FindWindow, n, ds)
            BY <1>2, FindWindowDefined
      <3>3. hits = {i \in DOMAIN n.clauses : FindWindow[<<n.clauses[i], ds>>] # NoNode}
            BY <1>1, <1>8, <3>1 DEF find
      <3>4. QED
            BY <2>2, <3>1, <3>2, <3>3 DEF FindIn, find
   <2>3. QED
         BY <2>1, <2>2 DEF Union
<1> HIDE DEF first
<1>13. QED
       BY <1>9, <1>11, <1>12 DEF q, a, cs, ds, hits

\* The windows of the plans.
LEMMA SameLimits ==
    ASSUME NEW c, NEW p
    PROVE  /\ Abstract!WindowLimit(AbstractConfig(c), p) = WindowLimit(c, p)
           /\ Abstract!PlanWindow(AbstractConfig(c), p) = AbstractWindow(PlanWindow(c, p))
<1> DEFINE a == AbstractConfig(c)
<1>1. /\ DOMAIN a.plans = DOMAIN c.plans
      /\ \A x \in DOMAIN c.plans : a.plans[x].window = AbstractWindow(c.plans[x].window)
      BY DEF AbstractConfig
<1> HIDE DEF a
<1>2. \A w : /\ AbstractWindow(w).kind = "days" <=> w \in DOMAIN Amounts
             /\ w \in DOMAIN Amounts => /\ AbstractWindow(w) = Abstract!Days(Length(w))
                                        /\ AbstractWindow(w).days = Length(w)
             /\ AbstractWindow(w) = Abstract!EmptyWindow <=> w = ""
      BY EmptyTextAssumption DEF AbstractWindow, Abstract!Days, Abstract!EmptyWindow, Abstract!BadWindow
<1>3. AbstractWindow(DefaultWindow) = Abstract!Days(Length(DefaultWindow))
      BY <1>2, DefaultWindowAssumption
<1>4. Abstract!WindowLimit(a, p) = WindowLimit(c, p)
      BY <1>1, <1>2 DEF Abstract!WindowLimit, WindowLimit
<1>5. Abstract!PlanWindow(a, p) = AbstractWindow(PlanWindow(c, p))
   <2>1. CASE p \in DOMAIN c.plans /\ c.plans[p].window # ""
      <3>1. a.plans[p].window = AbstractWindow(c.plans[p].window) /\ a.plans[p].window # Abstract!EmptyWindow
         <4>1. a.plans[p].window = AbstractWindow(c.plans[p].window)
               BY <1>1, <2>1
         <4>2. \A w : w # "" => AbstractWindow(w) # Abstract!EmptyWindow
               BY <1>2
         <4>3. AbstractWindow(c.plans[p].window) # Abstract!EmptyWindow
               BY <2>1, <4>2, Zenon
         <4>4. QED
               BY <4>1, <4>3
      <3>2. PlanWindow(c, p) = c.plans[p].window
            BY <2>1 DEF PlanWindow
      <3>3. Abstract!PlanWindow(a, p) = a.plans[p].window
            BY <1>1, <2>1, <3>1 DEF Abstract!PlanWindow
      <3>4. QED
            BY <3>1, <3>2, <3>3
   <2>2. CASE ~ (p \in DOMAIN c.plans /\ c.plans[p].window # "")
      <3>1. ~ (p \in DOMAIN a.plans /\ a.plans[p].window # Abstract!EmptyWindow)
         <4>1. ASSUME p \in DOMAIN c.plans PROVE a.plans[p].window = Abstract!EmptyWindow
            <5>1. a.plans[p].window = AbstractWindow(c.plans[p].window) /\ c.plans[p].window = ""
                  BY <1>1, <2>2, <4>1, Zenon
            <5>2. AbstractWindow("") = Abstract!EmptyWindow
                  BY <1>2, Zenon
            <5>3. QED
                  BY <5>1, <5>2, Zenon
         <4>2. QED
               BY <1>1, <4>1, Zenon
      <3>2. PlanWindow(c, p) = DefaultWindow
            BY <2>2 DEF PlanWindow
      <3>3. Abstract!PlanWindow(a, p) = Abstract!Days(Length(DefaultWindow))
            BY <3>1 DEF Abstract!PlanWindow
      <3>4. QED
            BY <1>3, <3>2, <3>3
   <2>3. QED
         BY <2>1, <2>2
<1>6. QED
      BY <1>4, <1>5 DEF a

\* The third rule decides alike.
LEMMA SameWindow ==
    ASSUME NEW c \in Configs, NEW p, NEW n \in Nodes, Union(n, c.model)
    PROVE  Abstract!QueryWindow(AbstractQuery(n), AbstractConfig(c), p) = WindowVerdict(c, p, n)
<1> DEFINE q     == AbstractQuery(n)
           a     == AbstractConfig(c)
           cs    == ClausesOf(n)
           hits  == Abstract!Hits(q, a)
           first == Abstract!Min(hits)
           w     == cs[first].term
           range == AbstractRange(cs[first])
<1>1. /\ FindWindow[<<n, c.dateFields>>] = IF hits = {} THEN NoNode ELSE w
      /\ hits # {} => w # NoNode /\ w.kind = "range" /\ q.ranges[first] = range
      BY SameHit
<1>2. Abstract!WindowLimit(a, p) = WindowLimit(c, p)
      BY SameLimits
<1>3. a.requireWindow = c.requireWindow
      BY DEF AbstractConfig
<1>4. /\ range.kind = IF ClassOf(cs[first]) = "open_range" THEN "unbounded" ELSE Span(w).kind
      /\ range.days = IF Span(w).kind = "closed" THEN Span(w).length ELSE 0
      BY DEF AbstractRange
<1>5. w.kind = "range" /\ ClassOf(cs[first]) = "open_range" => Span(w).kind = "open"
   <2>1. SUFFICES ASSUME w.kind = "range", ClassOf(cs[first]) = "open_range" PROVE Span(w).kind = "open"
         OBVIOUS
   <2> HIDE DEF cs, first
   <2>2. w.low = <<"*">> /\ w.high = <<"*">>
         BY <2>1 DEF ClassOf, FeatureOf
   <2>3. QED
         BY <2>2 DEF Span, ParseBound, Missing, Unknown
<1>6. Span(w).kind \in {"bad", "open", "closed"}
      BY SpanKinds
<1>7. Abstract!QueryWindow(q, a, p) =
          IF hits = {} THEN IF a.requireWindow THEN "no_window" ELSE Abstract!Allowed
          ELSE CASE q.ranges[first].kind = "bad" -> "bad_date"
                 [] q.ranges[first].kind \in {"open", "unbounded"} -> "open_window"
                 [] OTHER -> IF q.ranges[first].days > Abstract!WindowLimit(a, p) THEN "long_window" ELSE Abstract!Allowed
      BY DEF Abstract!QueryWindow
<1> HIDE DEF q, a, cs, hits, first, w, range
<1>8. CASE hits = {}
   <2>1. WindowVerdict(c, p, n) = IF c.requireWindow THEN "no_window" ELSE Allowed
         BY <1>1, <1>8 DEF WindowVerdict
   <2>2. QED
         BY <1>3, <1>7, <1>8, <2>1 DEF Abstract!Allowed, Allowed, q, a
<1>9. CASE hits # {}
   <2>1. WindowVerdict(c, p, n) =
            IF Span(w).kind = "bad" THEN "bad_date"
            ELSE IF Span(w).kind = "open" THEN "open_window"
            ELSE IF Span(w).length > WindowLimit(c, p) THEN "long_window"
            ELSE Allowed
         BY <1>1, <1>9 DEF WindowVerdict
   <2>2. CASE Span(w).kind = "bad"
         BY <1>1, <1>4, <1>5, <1>7, <1>9, <2>1, <2>2 DEF q, a
   <2>3. CASE Span(w).kind = "open"
         BY <1>1, <1>4, <1>7, <1>9, <2>1, <2>3 DEF q, a
   <2>4. CASE Span(w).kind = "closed"
      <3>1. range.kind = "closed" /\ range.days = Span(w).length
            BY <1>1, <1>4, <1>5, <1>9, <2>4
      <3>2. QED
            BY <1>1, <1>2, <1>7, <1>9, <2>1, <2>4, <3>1 DEF Abstract!Allowed, Allowed, q, a
   <2>5. QED
         BY <1>6, <2>2, <2>3, <2>4
<1>10. QED
       BY <1>8, <1>9 DEF q, a

\* The rules together: the first denial is the same.
LEMMA SameVerdict ==
    ASSUME NEW c \in Configs, c.forbidden \subseteq Forbiddable, NEW p, NEW n \in Nodes, Union(n, c.model)
    PROVE  Abstract!Evaluate(AbstractQuery(n), AbstractConfig(c), p)
              = Verdict(c, p, n, Estimate(n, c.model))
<1> DEFINE q     == AbstractQuery(n)
           a     == AbstractConfig(c)
           r     == Estimate(n, c.model)
           one   == Abstract!ForbiddenFeature(q, a)
           two   == Abstract!PlanLimit(q, a, p)
           three == Abstract!QueryWindow(q, a, p)
           verdicts == <<one, two, three>>
           denials  == {i \in DOMAIN verdicts : verdicts[i] # Abstract!Allowed}
<1>1. c.model \in Models
      BY ConfigsAssumption
<1>2. /\ one = IF r.keys \cap c.forbidden # {} THEN "forbidden_feature" ELSE Allowed
      /\ two = IF r.cost > CostLimit(c, p) THEN "cost" ELSE Allowed
      /\ three = WindowVerdict(c, p, n)
      BY <1>1, SameFeatures, SameLimit, SameWindow
<1>3. Abstract!Evaluate(q, a, p) = IF denials = {} THEN Abstract!Allowed ELSE verdicts[Min(denials)]
      BY SameMin DEF Abstract!Evaluate
<1>4. Abstract!Allowed = Allowed
      BY DEF Abstract!Allowed, Allowed
<1> HIDE DEF q, a, r, one, two, three
<1>5. DOMAIN verdicts = 1 .. 3 /\ verdicts[1] = one /\ verdicts[2] = two /\ verdicts[3] = three
      OBVIOUS
<1>6. \A i : i \in denials <=> i \in {1, 2, 3} /\ verdicts[i] # Allowed
      BY <1>4, <1>5
<1> HIDE DEF verdicts, denials
<1>7. denials # {} => Min(denials) \in denials /\ \A i \in denials : Min(denials) <= i
   <2>1. denials \in SUBSET Nat
         BY <1>6
   <2>2. QED
         BY <2>1, LeastNumber DEF Min
<1>8. Abstract!Evaluate(q, a, p) = IF one # Allowed THEN one ELSE IF two # Allowed THEN two ELSE three
   <2>1. CASE one # Allowed
      <3>1. 1 \in denials
            BY <1>5, <1>6, <2>1
      <3>2. Min(denials) = 1
            BY <1>6, <1>7, <3>1
      <3>3. QED
            BY <1>3, <1>5, <2>1, <3>1, <3>2
   <2>2. CASE one = Allowed /\ two # Allowed
      <3>1. 2 \in denials /\ 1 \notin denials
            BY <1>5, <1>6, <2>2
      <3>2. Min(denials) = 2
            BY <1>6, <1>7, <3>1
      <3>3. QED
            BY <1>3, <1>5, <2>2, <3>1, <3>2
   <2>3. CASE one = Allowed /\ two = Allowed /\ three # Allowed
      <3>1. 3 \in denials /\ 1 \notin denials /\ 2 \notin denials
            BY <1>5, <1>6, <2>3
      <3>2. Min(denials) = 3
            BY <1>6, <1>7, <3>1
      <3>3. QED
            BY <1>3, <1>5, <2>3, <3>1, <3>2
   <2>4. CASE one = Allowed /\ two = Allowed /\ three = Allowed
      <3>1. denials = {}
            BY <1>5, <1>6, <2>4
      <3>2. QED
            BY <1>3, <1>4, <2>4, <3>1
   <2>5. QED
         BY <2>1, <2>2, <2>3, <2>4
<1>9. QED
      BY <1>2, <1>8 DEF Verdict, q, a, r, Allowed

\* An admitted query gets the same window.
LEMMA SameInjection ==
    ASSUME NEW c \in Configs, NEW p, NEW n \in Nodes, Union(n, c.model), WindowVerdict(c, p, n) = Allowed
    PROVE  LET added == Abstract!InjectedWindow(AbstractQuery(n), AbstractConfig(c), p).window
               sends == WindowToAdd(c, p, n)
           IN  added = IF sends = NoNode THEN Abstract!EmptyWindow ELSE AbstractWindow(sends.low[3])
<1> DEFINE q     == AbstractQuery(n)
           a     == AbstractConfig(c)
           cs    == ClausesOf(n)
           hits  == Abstract!Hits(q, a)
           first == Abstract!Min(hits)
           w     == cs[first].term
           found == FindWindow[<<n, c.dateFields>>]
           added == Abstract!InjectedWindow(q, a, p).window
           sends == WindowToAdd(c, p, n)
<1>1. /\ found = IF hits = {} THEN NoNode ELSE w
      /\ hits # {} => w # NoNode /\ w.kind = "range" /\ q.ranges[first] = AbstractRange(cs[first])
      BY SameHit
<1>2. found # NoNode => Span(found).kind # "bad"
      BY DEF WindowVerdict, Allowed
<1>3. AbstractRange(cs[first]).kind = IF ClassOf(cs[first]) = "open_range" THEN "unbounded" ELSE Span(w).kind
      BY DEF AbstractRange
<1>4. Abstract!WindowFound(q, a) <=> hits # {} /\ q.ranges[first].kind # "bad"
      BY DEF Abstract!WindowFound
<1>5. a.requireWindow = c.requireWindow
      BY DEF AbstractConfig
<1>6. Abstract!PlanWindow(a, p) = AbstractWindow(PlanWindow(c, p))
      BY SameLimits
<1>7. added = IF a.requireWindow \/ Abstract!WindowFound(q, a) THEN Abstract!EmptyWindow ELSE Abstract!PlanWindow(a, p)
      BY DEF Abstract!InjectedWindow, Abstract!NoRange
<1>8. sends = IF c.requireWindow \/ found # NoNode THEN NoNode
              ELSE Interval(<<"now", "-", PlanWindow(c, p)>>, <<"now">>, TRUE)
      BY DEF WindowToAdd
<1>9. LET interval == Interval(<<"now", "-", PlanWindow(c, p)>>, <<"now">>, TRUE)
      IN  interval # NoNode /\ interval.low[3] = PlanWindow(c, p)
      BY DEF Interval, NoNode
<1> HIDE DEF q, a, cs, hits, first, w, found, added, sends
<1>10. Abstract!WindowFound(q, a) <=> found # NoNode
       BY <1>1, <1>2, <1>3, <1>4
<1>11. QED
       BY <1>5, <1>6, <1>7, <1>8, <1>9, <1>10 DEF added, sends, q, a

-----------------------------------------------------------------------------
(* The path of a request.                                                  *)

Given == config \in Configs /\ request \in Requests

\* Until the answer, the plan is the one the caller's context names.
PlanIsCallers ==
    stage \notin {"arrived", "answered", "logged"} => plan = PlanFromContext(ContextOf(config, request))

\* What is judged and sent is a tree the parser returned.
UsedIsRead == stage \in {"resolved", "admitted", "sent"} \/ Forwarded => used \in Nodes

\* Nothing is sent before the rules have allowed it, at its own price.
NotYetSent == stage \in {"arrived", "identified", "validating", "resolved", "admitted"} => ~ Forwarded

WasJudged ==
    stage \in {"admitted", "sent"} \/ Forwarded =>
        /\ report = Estimate(used, config.model)
        /\ Verdict(config, plan, used, report) = Allowed

\* The report is the price of what is judged.
NotYetScored == stage \in {"arrived", "identified", "validating", "resolved"} => report = NotScored
Scored       == report # NotScored => used \in Nodes /\ report = Estimate(used, config.model)

SentWindow == Forwarded => sent.window = WindowToAdd(config, plan, used)

LogsResolved == stage = "logged" => logged = LoggedIP(Sanitised(request.origin, config.trusted))

PathInv ==
    /\ TypeOK
    /\ Given
    /\ PlanIsCallers
    /\ UsedIsRead
    /\ NotYetSent
    /\ WasJudged
    /\ NotYetScored
    /\ Scored
    /\ SentWindow
    /\ LogsResolved

LEMMA ResolvedIsRead ==
    ASSUME NEW rq \in Requests, NEW reply \in Replies \cup {Unvalidated},
           NEW q, q = Resolved(Read(rq.text), Read(Explanation(reply)), reply), q.ok
    PROVE  q.node \in Nodes
<1>1. q # SyntaxError
      BY DEF SyntaxError
<1>2. q \in {Read(rq.text), Read(Explanation(reply))}
      BY <1>1 DEF Resolved
<1>3. QED
      BY <1>2, ReadAssumption

LEMMA PathInit == Init => PathInv
<1> SUFFICES ASSUME Init PROVE PathInv
    OBVIOUS
<1>1. TypeOK
      BY DEF Init, TypeOK, NoNode, NotScored
<1>2. ~ Forwarded /\ stage = "arrived" /\ answer = "none" /\ report = NotScored /\ Given
      BY DEF Init, Forwarded, Given
<1>3. QED
      BY <1>1, <1>2 DEF PathInv, PlanIsCallers, UsedIsRead, NotYetSent, WasJudged, NotYetScored, Scored, SentWindow,
                         LogsResolved

LEMMA PathNext == PathInv /\ [Next \/ Finished]_vars => PathInv'
<1> SUFFICES ASSUME PathInv, [Next \/ Finished]_vars PROVE PathInv'
    OBVIOUS
<1>0. /\ TypeOK /\ Given /\ PlanIsCallers /\ UsedIsRead /\ NotYetSent /\ WasJudged /\ NotYetScored
      /\ Scored /\ SentWindow /\ LogsResolved
      BY DEF PathInv
<1>g. config.model \in Models
      BY <1>0, ConfigsAssumption DEF Given
<1>k. \A n \in Nodes : n.kind \in {"none", "term", "phrase", "range", "group", "boolean", "clause"}
      BY NodesAssumption DEF Kinds, LeafKinds
<1> USE DEF PathInv
<1>1. CASE Identify
   <2>1. TypeOK' /\ Given'
         BY <1>0, <1>g, <1>1 DEF Identify, Finish, Goto, TypeOK, Given
   <2>2. PlanIsCallers'
         BY <1>1 DEF Identify, Finish, Goto, PlanIsCallers
   <2>3. ~ Forwarded'
         BY <1>0, <1>1 DEF Identify, NotYetSent, Forwarded
   <2>4. stage' \in {"identified", "answered"}
         BY <1>0, <1>1 DEF Identify, Finish, Goto, TypeOK
   <2>5. NotYetScored' /\ Scored'
         BY <1>0, <1>1 DEF Identify, Finish, Goto, NotYetScored, Scored
   <2>6. QED
         BY <2>5, <2>1, <2>2, <2>3, <2>4 DEF UsedIsRead, NotYetSent, WasJudged, SentWindow, LogsResolved
<1>2. CASE Parsed
   <2>1. Read(request.text).ok => Read(request.text).node \in Nodes
         BY <1>0, ReadAssumption DEF Given
   <2>2. TypeOK' /\ Given' /\ UsedIsRead'
         BY <1>0, <1>k, <1>2, <2>1 DEF Parsed, Use, Finish, Goto, TypeOK, Given, UsedIsRead, NotYetSent, Forwarded
   <2>3. PlanIsCallers'
         BY <1>0, <1>2 DEF Parsed, Use, Finish, Goto, PlanIsCallers
   <2>4. ~ Forwarded'
         BY <1>0, <1>2 DEF Parsed, NotYetSent, Forwarded
   <2>5. stage' \in {"resolved", "answered"}
         BY <1>0, <1>2 DEF Parsed, Use, Finish, Goto, TypeOK
   <2>6. NotYetScored' /\ Scored'
         BY <1>0, <1>2 DEF Parsed, Use, Finish, Goto, NotYetScored, Scored
   <2>7. QED
         BY <2>6, <2>2, <2>3, <2>4, <2>5 DEF NotYetSent, WasJudged, SentWindow, LogsResolved
<1>3. CASE AskValidator
   <2>1. TypeOK' /\ Given'
         BY <1>0, <1>3 DEF AskValidator, Goto, TypeOK, Given
   <2>2. PlanIsCallers'
         BY <1>0, <1>3 DEF AskValidator, Goto, PlanIsCallers
   <2>3. ~ Forwarded' /\ stage' = "validating"
         BY <1>0, <1>3 DEF AskValidator, Goto, NotYetSent, Forwarded, TypeOK
   <2>4. NotYetScored' /\ Scored'
         BY <1>0, <1>3 DEF AskValidator, Goto, NotYetScored, Scored
   <2>5. QED
         BY <2>4, <2>1, <2>2, <2>3 DEF UsedIsRead, NotYetSent, WasJudged, SentWindow, LogsResolved
<1>4. CASE Validated
   <2>1. PICK reply \in Replies \cup {Unvalidated} :
            Use(Resolved(Read(request.text), Read(Explanation(reply)), reply))
         BY <1>4 DEF Validated
   <2> DEFINE q == Resolved(Read(request.text), Read(Explanation(reply)), reply)
   <2>2. q.ok => q.node \in Nodes
         BY <1>0, ResolvedIsRead DEF Given
   <2>3. Use(q)
         BY <2>1
   <2> HIDE DEF q
   <2>4. TypeOK' /\ Given' /\ UsedIsRead'
      <3>1. stage' \in {"resolved", "answered"} /\ (stage' = "answered" <=> answer' # "none")
            /\ answer' \in {"none", "invalid_query"}
            BY <1>0, <1>4, <2>3 DEF Validated, Use, Finish, Goto, TypeOK
      <3>2. (stage' = "resolved" => used' \in Nodes) /\ (used' = used \/ used' \in Nodes)
            BY <2>2, <2>3 DEF Use, Finish, Goto
      <3>3. ~ Forwarded' /\ report' = report /\ Given'
            BY <1>0, <1>4 DEF Validated, NotYetSent, Forwarded, Given
      <3>4. QED
            BY <1>0, <1>k, <3>1, <3>2, <3>3 DEF TypeOK, UsedIsRead
   <2>5. PlanIsCallers'
         BY <1>0, <1>4, <2>3 DEF Validated, Use, Finish, Goto, PlanIsCallers
   <2>6. ~ Forwarded' /\ stage' \in {"resolved", "answered"}
         BY <1>0, <1>4, <2>3 DEF Validated, Use, Finish, Goto, NotYetSent, Forwarded, TypeOK
   <2>7. NotYetScored' /\ Scored'
         BY <1>0, <1>4, <2>6 DEF Validated, NotYetScored, Scored
   <2>8. QED
         BY <2>7, <2>4, <2>5, <2>6 DEF NotYetSent, WasJudged, SentWindow, LogsResolved
<1>5. CASE Judge
   <2>1. used \in Nodes /\ ~ Forwarded /\ ~ Forwarded'
         BY <1>0, <1>5 DEF Judge, UsedIsRead, NotYetSent, Forwarded
   <2>2. report' = Estimate(used, config.model) /\ report'.cost \in Nat
         BY <1>g, <1>5, <2>1, EstimateType DEF Judge
   <2>3. /\ stage' \in {"admitted", "answered"}
         /\ stage' = "admitted" => Verdict(config, plan, used, report') = Allowed
         /\ answer' \in {"none", "denied"} /\ (answer' # "none" <=> stage' = "answered")
         BY <1>0, <1>5 DEF Judge, Finish, Goto, TypeOK
   <2>4. UNCHANGED <<config, request, plan, used, sent, logged>>
         BY <1>5 DEF Judge
   <2>5. TypeOK' /\ Given' /\ UsedIsRead'
         BY <1>0, <2>1, <2>2, <2>3, <2>4 DEF TypeOK, Given, UsedIsRead
   <2>6. PlanIsCallers'
         BY <1>0, <1>5, <2>3, <2>4 DEF Judge, PlanIsCallers
   <2>7. WasJudged'
         BY <2>1, <2>2, <2>3, <2>4 DEF WasJudged
   <2>8. NotYetScored' /\ Scored'
         BY <1>0, <2>1, <2>2, <2>3, <2>4 DEF NotYetScored, Scored
   <2>9. QED
         BY <2>8, <2>1, <2>3, <2>5, <2>6, <2>7 DEF NotYetSent, SentWindow, LogsResolved
<1>6. CASE Forward
   <2>1. sent'.window = WindowToAdd(config, plan, used) /\ stage' = "sent" /\ stage = "admitted"
         BY <1>6 DEF Forward, Goto
   <2>2. UNCHANGED <<config, request, plan, used, report, logged, answer>>
         BY <1>6 DEF Forward, Goto
   <2>3. TypeOK' /\ Given' /\ UsedIsRead' /\ PlanIsCallers'
         BY <1>0, <2>1, <2>2 DEF TypeOK, Given, UsedIsRead, PlanIsCallers
   <2>4. WasJudged' /\ SentWindow'
         BY <1>0, <2>1, <2>2 DEF WasJudged, SentWindow
   <2>5. NotYetScored' /\ Scored'
         BY <1>0, <2>1, <2>2 DEF NotYetScored, Scored
   <2>6. QED
         BY <2>5, <2>1, <2>3, <2>4 DEF NotYetSent, LogsResolved
<1>7. CASE Relay
   <2>1. UNCHANGED <<config, request, plan, used, report, sent, logged>> /\ stage = "sent" /\ stage' = "answered"
         BY <1>7 DEF Relay, Finish
   <2>2. answer' \in {"passed_through", "bad_gateway"}
         BY <1>7, <2>1 DEF Relay, Finish
   <2>3. TypeOK' /\ Given'
         BY <1>0, <2>1, <2>2 DEF TypeOK, Given
   <2>4. UsedIsRead' /\ WasJudged' /\ SentWindow'
         BY <1>0, <2>1 DEF UsedIsRead, WasJudged, SentWindow, Forwarded
   <2>5. NotYetScored' /\ Scored'
         BY <1>0, <2>1 DEF NotYetScored, Scored
   <2>6. QED
         BY <2>5, <2>1, <2>2, <2>3, <2>4 DEF PlanIsCallers, NotYetSent, LogsResolved
<1>8. CASE Log
   <2>1. UNCHANGED <<config, request, plan, used, report, sent, answer>> /\ stage = "answered" /\ stage' = "logged"
         BY <1>8 DEF Log
   <2>2. TypeOK' /\ Given'
         BY <1>0, <2>1 DEF TypeOK, Given
   <2>3. UsedIsRead' /\ WasJudged' /\ SentWindow'
         BY <1>0, <2>1 DEF UsedIsRead, WasJudged, SentWindow, Forwarded
   <2>4. LogsResolved'
         BY <1>8 DEF Log, LogsResolved
   <2>5. NotYetScored' /\ Scored'
         BY <1>0, <2>1 DEF NotYetScored, Scored
   <2>6. QED
         BY <2>5, <2>1, <2>2, <2>3, <2>4 DEF PlanIsCallers, NotYetSent
<1>9. CASE Finished \/ UNCHANGED vars
   <2>1. UNCHANGED vars
         BY <1>9 DEF Finished
   <2>2. QED
         BY <1>0, <2>1 DEF vars, TypeOK, Given, PlanIsCallers, UsedIsRead, NotYetSent, WasJudged,
                           NotYetScored, Scored, SentWindow, LogsResolved, Forwarded
<1>10. QED
       BY <1>1, <1>2, <1>3, <1>4, <1>5, <1>6, <1>7, <1>8, <1>9 DEF Next

LEMMA PathInvariant == Spec => []PathInv
BY PathInit, PathNext, PTL DEF Spec

-----------------------------------------------------------------------------
(* What holds of every request.                                            *)

\* Every variable keeps its type, and there is an answer exactly when the
\* handler is done.
THEOREM RequestTypes == Spec => []TypeOK
<1>1. PathInv => TypeOK
      BY DEF PathInv
<1>2. QED
      BY <1>1, PathInvariant, PTL

\* A credential's plan is the one the rules see, whatever context the body of
\* the request brings (parseAndAuth, mergeContext).
THEOREM BodyNeverDecides == Spec => []BodyNeverCounts
<1>1. PathInv => BodyNeverCounts
   <2> SUFFICES ASSUME PathInv, config.auth # "none", stage \notin {"arrived", "answered", "logged"}
                PROVE  plan = PlanFromContext(ContextOf(config, [request EXCEPT !.body = <<>>]))
       BY DEF BodyNeverCounts
   <2>1. plan = PlanFromContext(ContextOf(config, request)) /\ request \in Requests
         BY DEF PathInv, PlanIsCallers, Given
   <2>2. request = [text |-> request.text, scheme |-> request.scheme, key |-> request.key,
                    body |-> request.body, origin |-> request.origin]
         BY <2>1, RequestsAssumption
   <2>3. ASSUME NEW other
         PROVE  PlanFromContext(ContextOf(config, request))
                   = PlanFromContext(ContextOf(config, [request EXCEPT !.body = other]))
         BY <2>2, BodyIsOverridden
   <2>4. QED
         BY <2>1, <2>3, Zenon
<1>2. QED
      BY <1>1, PathInvariant, PTL

\* The access log names the address that goes upstream, and that address is the
\* peer's or one a trusted peer vouches for (resolveClientIP, sanitizeClientIP).
THEOREM LogNamesVouched == Spec => []LoggedAddressVouched
<1>1. PathInv => LoggedAddressVouched
   <2> SUFFICES ASSUME PathInv, stage = "logged", request.origin.peer # Unparsable,
                       OneLineMatters(request.origin, config.trusted)
                PROVE  /\ Sanitised(request.origin, config.trusted).forwardedFor = << <<logged>> >>
                       /\ Vouched(logged, request.origin, config.trusted)
       BY DEF LoggedAddressVouched
   <2>1. logged = LoggedIP(Sanitised(request.origin, config.trusted)) /\ IsOrigin(request.origin)
         BY RequestsAssumption DEF PathInv, LogsResolved, Given
   <2>2. QED
         BY <2>1, LogIsVouched
<1>2. QED
      BY <1>1, PathInvariant, PTL

\* No forwarded query has a forbidden feature that it is charged for, at any
\* depth, optional or negated (FeatureBlacklist.Evaluate over the breakdown
\* that estimate collects).
THEOREM ForbiddenIsNowhere == Spec => []ForbiddenNowhere
<1>1. PathInv => ForbiddenNowhere
   <2> SUFFICES ASSUME PathInv, Forwarded, NEW l \in LeavesOf(used),
                       Charged(l, config.model), FeatureOf(l) # "none"
                PROVE  FeatureOf(l) \notin config.forbidden
       BY DEF ForbiddenNowhere
   <2>1. used \in Nodes /\ config.model \in Models
         BY ConfigsAssumption DEF PathInv, UsedIsRead, Given
   <2>2. report.keys = Estimated[<<used, config.model, NoField, 0>>].keys
         BY DEF PathInv, WasJudged, Estimate
   <2>3. NoField \in Fields
         BY DEF Fields
   <2>4. l \in Leaves[<<used, NoField, FALSE>>]
         BY DEF LeavesOf
   <2>5. FeatureOf(l) \in report.keys
         BY <2>1, <2>2, <2>3, <2>4, TreeShows
   <2>6. report.keys \cap config.forbidden = {}
         BY DEF PathInv, WasJudged, Verdict, Allowed
   <2>7. QED
         BY <2>5, <2>6
<1>2. QED
      BY <1>1, PathInvariant, PTL

\* A query sent without an added window has a range of its own on a date field
\* that is no longer than its plan's window, but for the fractions that
\* truncation drops (QueryWindow.Evaluate, FindWindow, injectDefaultWindow).
THEOREM OwnWindowIsShort == Spec => []OwnWindowShort
<1>1. PathInv => OwnWindowShort
   <2> DEFINE limit  == WindowLimit(config, plan)
              window == FindWindow[<<used, config.dateFields>>]
   <2>1. SUFFICES ASSUME PathInv, Forwarded, sent.window = NoNode, limit < Longest
                  PROVE  \E l \in LeavesOf(used) :
                            /\ l.leaf.kind = "range"
                            /\ l.field \in config.dateFields
                            /\ (Holds(l.leaf.low) /\ Holds(l.leaf.high)) =>
                                  TrueAt(l.leaf.high) - TrueAt(l.leaf.low)
                                      <= limit + Fraction(l.leaf.low) + Fraction(l.leaf.high)
         BY DEF OwnWindowShort
   <2>2. used \in Nodes /\ config.dateFields \in Dates /\ limit \in Int
         BY <2>1, WindowLimitIsLength DEF PathInv, UsedIsRead, Given, Dates
   <2>3. config.requireWindow \/ window # NoNode
         BY <2>1 DEF PathInv, SentWindow, WindowToAdd, Interval, NoNode
   <2>4. WindowVerdict(config, plan, used) = Allowed
         BY <2>1 DEF PathInv, WasJudged, Verdict, Allowed
   <2>5. window # NoNode
         BY <2>3, <2>4 DEF WindowVerdict, Allowed
   <2>6. Span(window).kind \notin {"bad", "open"} /\ ~ (Span(window).length > limit)
         BY <2>4, <2>5 DEF WindowVerdict, Allowed
   <2>7. IsOwn(window, used, config.dateFields)
         BY <2>2, <2>5, <2>6, FoundIsOwn
   <2>8. PICK l \in LeavesOf(used) : l.leaf = window /\ l.leaf.kind = "range" /\ l.field \in config.dateFields
         BY <2>7 DEF IsOwn, LeavesOf, Fields
   <2> HIDE DEF limit, window
   <2>9. ASSUME Holds(window.low), Holds(window.high)
         PROVE  TrueAt(window.high) - TrueAt(window.low) <= limit + Fraction(window.low) + Fraction(window.high)
         BY <2>1, <2>2, <2>6, <2>9, ShortSpan
   <2>10. QED
          BY <2>8, <2>9
<1>2. QED
      BY <1>1, PathInvariant, PTL

\* No estimate is above the cost of the query in any order, and it is just that
\* if no negated clause stands before a required one: the order of clauses never
\* makes a query dearer.
THEOREM CostNeverAboveOrderless == Spec => []OrderNeverDearer
<1>1. ASSUME PathInv PROVE OrderNeverDearer
   <2>1. SUFFICES ASSUME report # NotScored
                  PROVE  /\ report.cost <= Round(Orderless[<<used, config.model, NoField, 0>>])
                         /\ EarlyNegations[used] = {} =>
                               report.cost = Round(Orderless[<<used, config.model, NoField, 0>>])
         BY DEF OrderNeverDearer
   <2> DEFINE cost       == Estimated[<<used, config.model, NoField, 0>>].cost
              orderless == Orderless[<<used, config.model, NoField, 0>>]
   <2>2. used \in Nodes /\ config.model \in Models /\ NoField \in Fields
         BY <1>1, <2>1, ConfigsAssumption DEF PathInv, Given, Scored, Fields
   <2>3. report.cost = Round(cost)
         BY <1>1, <2>1 DEF PathInv, Scored, Estimate
   <2>4. cost \in Nat /\ orderless \in Nat
         BY <2>2, NumbersOf
   <2>5. cost <= orderless /\ (EarlyNegations[used] = {} => cost = orderless)
         BY <2>2, EstimateIsOrderless DEF PricedWell
   <2> HIDE DEF cost, orderless
   <2>6. Round(cost) <= Round(orderless)
         BY <2>4, <2>5, RoundGrows
   <2>7. QED
         BY <2>3, <2>5, <2>6 DEF orderless
<1>2. QED
      BY <1>1, PathInvariant, PTL

\* Policy, which Gate decides by, sees of a query how many clauses of each kind
\* it has and of its ranges a kind and a length.  On one clause or a union of
\* optional ones that is enough: it denies what the estimate and the rules deny,
\* for the same reason, and adds the same window (Estimate, Engine.Evaluate,
\* FindWindow, injectDefaultWindow).
THEOREM PolicyIsAbstraction == Spec => []PolicyAbstracts
<1>1. ASSUME PathInv PROVE PolicyAbstracts
   <2> DEFINE c     == AbstractConfig(config)
              q     == AbstractQuery(used)
              added == Abstract!InjectedWindow(q, c, plan).window
   <2>1. SUFFICES ASSUME report # NotScored, Union(used, config.model), config.forbidden \subseteq Forbiddable
                  PROVE  /\ Verdict(config, plan, used, report) = Abstract!Evaluate(q, c, plan)
                         /\ Forwarded =>
                               added = IF sent.window = NoNode
                                       THEN Abstract!EmptyWindow
                                       ELSE AbstractWindow(sent.window.low[3])
         BY DEF PolicyAbstracts
   <2>2. used \in Nodes /\ config \in Configs /\ report = Estimate(used, config.model)
         BY <1>1, <2>1 DEF PathInv, Given, Scored
   <2>3. Verdict(config, plan, used, report) = Abstract!Evaluate(q, c, plan)
         BY <2>1, <2>2, SameVerdict
   <2>4. ASSUME Forwarded
         PROVE  added = IF sent.window = NoNode THEN Abstract!EmptyWindow ELSE AbstractWindow(sent.window.low[3])
      <3>1. Verdict(config, plan, used, report) = Allowed /\ sent.window = WindowToAdd(config, plan, used)
            BY <1>1, <2>4 DEF PathInv, WasJudged, SentWindow
      <3>2. WindowVerdict(config, plan, used) = Allowed
            BY <3>1 DEF Verdict, Allowed
      <3>3. QED
            BY <2>1, <2>2, <3>1, <3>2, SameInjection
   <2>5. QED
         BY <2>3, <2>4
<1>2. QED
      BY <1>1, PathInvariant, PTL
=============================================================================
