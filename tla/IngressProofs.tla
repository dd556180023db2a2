--------------------------- MODULE IngressProofs ---------------------------
(***************************************************************************)
(* Proofs about Ingress, for headers and origins of any length.            *)
(*                                                                         *)
(* OwnBucket is an argument about the walk over the forwarding header:     *)
(* whatever was forged stands to the left of the address the outermost     *)
(* trusted proxy appended, and everything to the right of that one is a    *)
(* trusted proxy.  OnlyConfiguredOrigins compares the suffix that rule.matches     *)
(* looks for with the labels of the host.  AdminSurface needs to know what *)
(* the guards already passed have established (Passed).                    *)
(***************************************************************************)
EXTENDS Ingress, FiniteSetTheorems, SequenceTheorems, TLAPS

-----------------------------------------------------------------------------
(* The client's address *)

\* A bounded sequence is a sequence.
LEMMA BoundedIsSeq ==
    ASSUME NEW S, NEW n \in Nat, NEW s \in BoundedSeq(S, n)
    PROVE  s \in Seq(S) /\ Len(s) \in 0 .. n /\ s \in [1 .. Len(s) -> S]
<1>1. PICK m \in 0 .. n : s \in [1 .. m -> S]
  BY DEF BoundedSeq
<1>2. m \in Nat /\ s \in Seq(S)
  BY <1>1, IsASeq
<1>3. Len(s) = m
  BY <1>1, <1>2, LenProperties
<1> QED BY <1>1, <1>2, <1>3

\* Max is the largest member.
LEMMA MaxIs ==
    ASSUME NEW S \in SUBSET Int, NEW k \in S, \A j \in S : j <= k
    PROVE  Max(S) = k
<1>1. \A x \in S : (\A y \in S : x >= y) => x = k
  OBVIOUS
<1>2. \A y \in S : k >= y
  OBVIOUS
<1> QED BY <1>1, <1>2 DEF Max

\* A set of numbers that is not empty has a least member, and a bounded one a greatest.
LEMMA LeastOf ==
    ASSUME NEW S \in SUBSET Nat, S # {}
    PROVE  \E x \in S : \A y \in S : x <= y
<1>1. PICK x \in S : \A y \in S : ~(<<y, x>> \in OpToRel(<, Nat))
  BY NatLessThanWellFounded, WFMin
<1>2. \A y \in S : ~(y < x)
  BY <1>1 DEF OpToRel
<1> QED BY <1>2

\* A bounded one has a greatest.
LEMMA GreatestOf ==
    ASSUME NEW S \in SUBSET Nat, S # {}, NEW n \in Nat, \A x \in S : x <= n
    PROVE  \E x \in S : \A y \in S : y <= x
<1> DEFINE T == {n - x : x \in S}
<1>a. \A x \in S : n - x \in Nat
  OBVIOUS
<1>1. T \in SUBSET Nat /\ T # {}
  BY <1>a
<1>2. PICK t \in T : \A u \in T : t <= u
  BY <1>1, LeastOf
<1>3. PICK x \in S : t = n - x
  OBVIOUS
<1>4. ASSUME NEW y \in S PROVE y <= x
  <2>1. n - x <= n - y
    BY <1>2, <1>3
  <2> QED BY <2>1
<1> QED BY <1>4

\* The hops that the proxies append name the client first, then each other.
LEMMA Appended ==
    ASSUME NEW client \in Host, NEW proxies \in BoundedSeq(Proxy, MaxHops),
           NEW forged \in BoundedSeq(Hop, MaxForged), NEW h \in Hops(forged, client, proxies)
    PROVE  /\ Len(forged) \in Nat /\ Len(proxies) \in Nat
           /\ proxies \in [1 .. Len(proxies) -> Proxy]
           /\ Len(h) = Len(forged) + Len(proxies)
           /\ \A i \in 1 .. Len(proxies) :
                h[Len(forged) + i].addr = IF i = 1 THEN client ELSE proxies[i - 1]
<1> DEFINE Caller == [addr: {client} \cup Proxy, mapped: BOOLEAN]
           caller(i) == IF i = 1 THEN client ELSE proxies[i - 1]
<1>1. /\ forged \in Seq(Hop) /\ Len(forged) \in Nat
      /\ proxies \in Seq(Proxy) /\ Len(proxies) \in Nat
      /\ proxies \in [1 .. Len(proxies) -> Proxy]
  BY BoundedIsSeq, BoundsAreNumbers
<1>2. PICK mapped \in [1 .. Len(proxies) -> BOOLEAN] :
        h = forged \o [i \in 1 .. Len(proxies) |-> Spelled(caller(i), mapped[i])]
  BY DEF Hops
<1> DEFINE c == [i \in 1 .. Len(proxies) |-> Spelled(caller(i), mapped[i])]
<1>3. \A i \in 1 .. Len(proxies) : caller(i) \in {client} \cup Proxy
  <2> SUFFICES ASSUME NEW i \in 1 .. Len(proxies) PROVE caller(i) \in {client} \cup Proxy
    OBVIOUS
  <2>1. CASE i = 1
    BY <2>1
  <2>2. CASE i # 1
    <3>1. i - 1 \in 1 .. Len(proxies)
      BY <1>1, <2>2
    <3> QED BY <1>1, <2>2, <3>1
  <2> QED BY <2>1, <2>2
<1> HIDE DEF caller
<1>4. \A i \in 1 .. Len(proxies) : c[i] \in Caller /\ c[i].addr = caller(i)
  BY <1>3 DEF Spelled
<1>5. c \in Seq(Caller) /\ Len(c) = Len(proxies)
  <2>1. c \in [1 .. Len(proxies) -> Caller]
    BY <1>4
  <2>2. c \in Seq(Caller)
    BY <1>1, <2>1, IsASeq
  <2> QED BY <1>1, <2>1, <2>2, LenProperties
<1> HIDE DEF c
<1>6. forged \in Seq(Hop \cup Caller) /\ c \in Seq(Hop \cup Caller)
  BY <1>1, <1>5, SeqMonotonic
<1>7. /\ Len(h) = Len(forged) + Len(c)
      /\ \A i \in 1 .. Len(forged) + Len(c) :
            h[i] = IF i <= Len(forged) THEN forged[i] ELSE c[i - Len(forged)]
  BY <1>2, <1>6, ConcatProperties DEF c
<1>8. ASSUME NEW i \in 1 .. Len(proxies)
      PROVE  h[Len(forged) + i].addr = caller(i)
  <2>1. /\ Len(forged) + i \in 1 .. Len(forged) + Len(c) /\ ~(Len(forged) + i <= Len(forged))
        /\ (Len(forged) + i) - Len(forged) = i
    BY <1>1, <1>5
  <2>2. h[Len(forged) + i] = c[i]
    BY <1>7, <2>1
  <2> QED BY <1>4, <2>2
<1> QED BY <1>1, <1>5, <1>7, <1>8 DEF caller

\* The nearest caller that is no trusted proxy, by its place: everyone between it
\* and goauth is one.
LEMMA Strangers ==
    ASSUME NEW client \in Host, NEW proxies, Len(proxies) \in Nat,
           proxies \in [1 .. Len(proxies) -> Proxy]
    PROVE  \E m \in 0 .. Len(proxies) :
             /\ Vouched(client, proxies) = IF m = 0 THEN client ELSE proxies[m]
             /\ m # 0 => proxies[m] \notin trustedProxies
             /\ \A i \in m + 1 .. Len(proxies) : proxies[i] \in trustedProxies
<1> DEFINE S == {i \in 1 .. Len(proxies) : proxies[i] \notin trustedProxies}
<1>1. CASE S = {}
  <2>1. Vouched(client, proxies) = client
    BY <1>1 DEF Vouched
  <2>2. \A i \in 0 + 1 .. Len(proxies) : proxies[i] \in trustedProxies
    BY <1>1
  <2> QED BY <2>1, <2>2
<1>2. CASE S # {}
  <2>1. S \in SUBSET Nat /\ S \in SUBSET Int /\ \A i \in S : i <= Len(proxies)
    OBVIOUS
  <2>2. PICK m \in S : \A j \in S : j <= m
    BY <1>2, <2>1, GreatestOf
  <2>3. Max(S) = m
    BY <2>1, <2>2, MaxIs
  <2>4. Vouched(client, proxies) = proxies[m]
    BY <1>2, <2>3 DEF Vouched
  <2>5. m \in 0 .. Len(proxies) /\ m # 0 /\ proxies[m] \notin trustedProxies
    OBVIOUS
  <2>6. ASSUME NEW i \in m + 1 .. Len(proxies) PROVE proxies[i] \in trustedProxies
    <3>1. i \in 1 .. Len(proxies) /\ ~(i <= m)
      BY <2>5
    <3> QED BY <2>2, <3>1
  <2> QED BY <2>4, <2>5, <2>6
<1> QED BY <1>1, <1>2

\* The walk from the right stops there, however much was forged to the left.
LEMMA StopsAtVouched ==
    ASSUME trustedProxies \subseteq Proxy,
           NEW client \in Host, NEW proxies \in BoundedSeq(Proxy, MaxHops),
           proxies # <<>>, proxies[Len(proxies)] \in trustedProxies,
           NEW forged \in BoundedSeq(Hop, MaxForged), NEW h \in Hops(forged, client, proxies),
           NEW peer
    PROVE  FromForwardedFor(h, peer) = Vouched(client, proxies)
<1> DEFINE f == Len(forged)
           n == Len(proxies)
<1>1. /\ f \in Nat /\ n \in Nat /\ proxies \in [1 .. n -> Proxy]
      /\ Len(h) = f + n
      /\ \A i \in 1 .. n : h[f + i].addr = IF i = 1 THEN client ELSE proxies[i - 1]
  BY Appended
<1>2. n > 0
  <2>1. proxies \in Seq(Proxy)
    BY BoundedIsSeq, BoundsAreNumbers
  <2> QED BY <1>1, <2>1, EmptySeq
<1>3. client # Bad /\ client \notin Proxy /\ Bad \notin Proxy
  BY AddressesDiffer DEF Host
<1>4. PICK m \in 0 .. n :
        /\ Vouched(client, proxies) = IF m = 0 THEN client ELSE proxies[m]
        /\ m # 0 => proxies[m] \notin trustedProxies
        /\ \A i \in m + 1 .. n : proxies[i] \in trustedProxies
  BY <1>1, Strangers
<1>5. m \in 0 .. n - 1 /\ m + 1 \in 1 .. n /\ (m # 0 => m \in 1 .. n)
  <2>1. m # n
    <3>1. n # 0 /\ proxies[n] \in trustedProxies
      BY <1>2
    <3> QED BY <1>4, <3>1
  <2>2. n \in Nat /\ m \in 0 .. n
    BY <1>1
  <2> HIDE DEF n
  <2> QED BY <2>1, <2>2
<1> DEFINE k == f + (m + 1)
           v == Vouched(client, proxies)
<1>6. h[k].addr = v
  <2>1. (m + 1) - 1 = m /\ (m + 1 = 1 <=> m = 0)
    OBVIOUS
  <2> QED BY <1>1, <1>4, <1>5, <2>1
<1>7. v # Bad /\ v \notin trustedProxies
  <2>1. CASE m = 0
    BY <1>3, <1>4, <2>1
  <2>2. CASE m # 0
    <3>1. proxies[m] \in Proxy
      BY <1>1, <1>5, <2>2
    <3> QED BY <1>3, <1>4, <2>2, <3>1
  <2> QED BY <2>1, <2>2
<1> HIDE DEF v, f, n
<1>8. k \in Stops(h)
  <2>1. k \in 1 .. Len(h)
    BY <1>1, <1>5
  <2> QED BY <1>6, <1>7, <2>1 DEF Stops, IsTrusted, Unmap
<1>9. ASSUME NEW j \in Stops(h) PROVE j <= k
  <2>1. j \in 1 .. f + n /\ (h[j].addr = Bad \/ h[j].addr \notin trustedProxies)
    BY <1>1 DEF Stops, IsTrusted, Unmap
  <2>2. SUFFICES ASSUME j > k PROVE FALSE
    BY <1>1, <1>5, <2>1
  <2> DEFINE i == j - f
  <2>3. /\ i \in 1 .. n /\ f + i = j /\ i # 1 /\ i - 1 \in m + 1 .. n /\ i - 1 \in 1 .. n
    BY <1>1, <1>5, <2>1, <2>2
  <2>4. h[j].addr = proxies[i - 1]
    BY <1>1, <2>3
  <2>5. proxies[i - 1] \in trustedProxies /\ proxies[i - 1] \in Proxy
    BY <1>1, <1>4, <2>3 DEF n
  <2> QED BY <1>3, <2>1, <2>4, <2>5
<1>10. k \in Stops(h) \cup {0} /\ \A j \in Stops(h) \cup {0} : j <= k
  BY <1>1, <1>5, <1>8, <1>9
<1>11. Stops(h) \cup {0} \in SUBSET Int
  BY <1>1 DEF Stops
<1>12. StopAt(h) = k
  BY <1>10, <1>11, MaxIs DEF StopAt
<1>13. k # 0
  BY <1>1, <1>5
<1> QED BY <1>6, <1>7, <1>12, <1>13 DEF FromForwardedFor, Unmap, v

\* The address that a request is counted under, by the header that is configured.
LEMMA FindsTheClient ==
    ASSUME trustedProxies \subseteq Proxy,
           NEW client \in Host, NEW proxies \in BoundedSeq(Proxy, MaxHops),
           NEW forged \in BoundedSeq(Hop, MaxForged), NEW h \in Hops(forged, client, proxies),
           NEW edge \in Edges(client)
    PROVE  ClientIP(h, edge, Peer(client, proxies)) = Countable(client, proxies, edge.addr)
<1> DEFINE peer == Peer(client, proxies)
           n == Len(proxies)
<1>1. n \in Nat /\ proxies \in [1 .. n -> Proxy] /\ proxies \in Seq(Proxy)
  <2>1. MaxHops \in Nat
    BY BoundsAreNumbers
  <2> HIDE DEF n
  <2> QED BY <2>1, BoundedIsSeq DEF n
<1>2. proxies # <<>> => n > 0 /\ peer = proxies[n]
  <2>1. proxies # <<>> => n # 0
    BY <1>1, EmptySeq
  <2> QED BY <1>1, <2>1 DEF Peer
<1>3. proxies = <<>> => n = 0 /\ peer = client
  BY <1>1, EmptySeq DEF Peer
<1>4. edge.addr = Bad \/ edge.addr = client
  <2>1. \E a \in {client, Bad}, mapped \in BOOLEAN : edge = Spelled(a, mapped)
    BY DEF Edges
  <2> QED BY <2>1 DEF Spelled
<1>5. client \notin trustedProxies
  BY AddressesDiffer DEF Host
<1>6. CASE clientIPHeader = "X-Forwarded-For"
  <2>1. CASE peer \in trustedProxies
    <3>1. proxies # <<>>
      BY <1>3, <1>5, <2>1
    <3>2. FromForwardedFor(h, peer) = Vouched(client, proxies)
      BY <1>2, <2>1, <3>1, StopsAtVouched
    <3> QED BY <1>6, <2>1, <3>2 DEF ClientIP, IsTrusted, Countable
  <2>2. CASE peer \notin trustedProxies
    <3>1. PICK m \in 0 .. n :
            /\ Vouched(client, proxies) = IF m = 0 THEN client ELSE proxies[m]
            /\ m # 0 => proxies[m] \notin trustedProxies
            /\ \A i \in m + 1 .. n : proxies[i] \in trustedProxies
      BY <1>1, Strangers
    <3>2. m = n
      <4>0. n \in Nat /\ m \in 0 .. n
        BY <1>1
      <4> HIDE DEF n
      <4>1. CASE proxies = <<>>
        BY <1>3, <4>0, <4>1
      <4>2. CASE proxies # <<>>
        <5>1. n \notin m + 1 .. n
          BY <1>2, <2>2, <3>1, <4>2
        <5> QED BY <4>0, <5>1
      <4> QED BY <4>1, <4>2
    <3>3. Vouched(client, proxies) = peer
      <4>1. CASE proxies = <<>>
        BY <1>3, <3>1, <3>2, <4>1
      <4>2. CASE proxies # <<>>
        BY <1>2, <3>1, <3>2, <4>2
      <4> QED BY <4>1, <4>2
    <3> QED BY <1>6, <2>2, <3>3 DEF ClientIP, IsTrusted, Countable
  <2> QED BY <2>1, <2>2
<1>7. CASE clientIPHeader # "X-Forwarded-For"
  BY <1>4, <1>7 DEF ClientIP, IsTrusted, Unmap, Countable
<1> QED BY <1>6, <1>7

-----------------------------------------------------------------------------
(* Origins *)

\* Min is the least member.
LEMMA MinIs ==
    ASSUME NEW S \in SUBSET Int, NEW k \in S, \A j \in S : k <= j
    PROVE  Min(S) = k
<1>1. \A x \in S : (\A y \in S : x =< y) => x = k
  OBVIOUS
<1> QED BY <1>1 DEF Min

\* Where the labels of a host end: Labels is cut at these.
Dots(host) == {0, Len(host) + 1} \cup {i \in 1 .. Len(host) : host[i] = "."}
\* The cuts before one, the cut a label begins behind, and the one it ends at.
Before(host, i) == {j \in Dots(host) : j < i}
Begin(host, n) == CHOOSE i \in Dots(host) : Cardinality(Before(host, i)) = n - 1
End(host, i) == Min({j \in Dots(host) : j > i})

\* The cuts are finitely many, so they can be counted.
LEMMA DotsFinite ==
    ASSUME NEW host, Len(host) \in Nat
    PROVE  /\ Dots(host) \subseteq 0 .. Len(host) + 1
           /\ IsFiniteSet(Dots(host)) /\ Cardinality(Dots(host)) \in Nat
           /\ \A i : IsFiniteSet(Before(host, i)) /\ Cardinality(Before(host, i)) \in Nat
<1>1. Dots(host) \subseteq 0 .. Len(host) + 1
  BY DEF Dots
<1>2. IsFiniteSet(0 .. Len(host) + 1)
  BY FS_Interval
<1>3. IsFiniteSet(Dots(host))
  BY <1>1, <1>2, FS_Subset
<1>4. \A i : Before(host, i) \subseteq Dots(host)
  BY DEF Before
<1>5. \A i : IsFiniteSet(Before(host, i))
  BY <1>3, <1>4, FS_Subset
<1> QED BY <1>1, <1>3, <1>5, FS_CardinalityType

\* Two different elements make a set of two: the two ends of a host among its dots.
LEMMA TwoElements ==
    ASSUME NEW a, NEW b, a # b
    PROVE  Cardinality({a} \cup {b}) = 2 /\ IsFiniteSet({a} \cup {b})
<1>1. IsFiniteSet({a}) /\ Cardinality({a}) = 1
  BY FS_Singleton, Zenon
<1>2. b \notin {a}
  OBVIOUS
<1>3. /\ IsFiniteSet({a} \cup {b})
      /\ Cardinality({a} \cup {b}) =
           IF b \in {a} THEN Cardinality({a}) ELSE Cardinality({a}) + 1
  BY <1>1, FS_AddElement
<1>4. Cardinality({a} \cup {b}) = Cardinality({a}) + 1
  BY <1>2, <1>3, Zenon
<1>5. Cardinality({a} \cup {b}) = 2
  BY <1>1, <1>4
<1> QED BY <1>3, <1>5

\* Labels, by these names.
LEMMA LabelsCut ==
    ASSUME NEW host, Len(host) \in Nat
    PROVE  /\ Cardinality(Dots(host)) >= 2
           /\ Len(Labels(host)) = Cardinality(Dots(host)) - 1
           /\ \A n \in 1 .. Cardinality(Dots(host)) - 1 :
                Labels(host)[n] =
                  SubSeq(host, Begin(host, n) + 1, End(host, Begin(host, n)) - 1)
<1> DEFINE m == Cardinality(Dots(host)) - 1
           e(n) == SubSeq(host, Begin(host, n) + 1, End(host, Begin(host, n)) - 1)
           ls == [n \in 1 .. m |-> e(n)]
<1>1. Labels(host) = ls
  BY DEF Labels, Dots, Before, Begin, End
<1>2. Cardinality(Dots(host)) >= 2 /\ m \in Nat
  <2>1. {0, Len(host) + 1} \subseteq Dots(host)
    BY DEF Dots
  <2>2. Cardinality({0} \cup {Len(host) + 1}) = 2 /\ IsFiniteSet({0} \cup {Len(host) + 1})
    <3>1. 0 # Len(host) + 1
      OBVIOUS
    <3> QED BY <3>1, TwoElements, Zenon
  <2>3. {0} \cup {Len(host) + 1} \in SUBSET Dots(host)
    BY <2>1
  <2>4. Cardinality({0} \cup {Len(host) + 1}) <= Cardinality(Dots(host))
    BY <2>3, DotsFinite, FS_Subset
  <2>5. Cardinality(Dots(host)) \in Nat
    BY DotsFinite
  <2>6. \A c \in Nat : 2 <= c => c >= 2 /\ c - 1 \in Nat
    OBVIOUS
  <2>7. 2 <= Cardinality(Dots(host))
    BY <2>2, <2>4
  <2> QED BY <2>5, <2>6, <2>7
<1>3. ls \in Seq({e(n) : n \in 1 .. m})
  BY <1>2, IsASeq
<1> HIDE DEF e
<1>4. DOMAIN ls = 1 .. m /\ \A n \in 1 .. m : ls[n] = e(n)
  OBVIOUS
<1>5. Len(ls) = m
  BY <1>2, <1>3, <1>4, LenProperties
<1> QED BY <1>1, <1>2, <1>4, <1>5 DEF e

\* The last label begins behind the last dot.
LEMMA LastLabel ==
    ASSUME NEW host, Len(host) \in Nat,
           NEW p \in Dots(host), p # Len(host) + 1,
           \A j \in Dots(host) : j <= p \/ j = Len(host) + 1
    PROVE  Labels(host)[Cardinality(Dots(host)) - 1] = SubSeq(host, p + 1, Len(host))
<1> DEFINE D == Dots(host)
           top == Len(host) + 1
<1>1. /\ D \subseteq 0 .. top /\ IsFiniteSet(D) /\ Cardinality(D) \in Nat
      /\ \A i : IsFiniteSet(Before(host, i)) /\ Cardinality(Before(host, i)) \in Nat
      /\ top \in D /\ p \in 0 .. Len(host)
  <2>1. top \in D
    BY DEF Dots
  <2>2. p \in 0 .. top
    BY DotsFinite
  <2> QED BY <2>1, <2>2, DotsFinite
<1>2. Cardinality(D) >= 2
  BY LabelsCut
<1>3. IsFiniteSet(D \ {top}) /\ Cardinality(D \ {top}) = Cardinality(D) - 1
  BY <1>1, FS_RemoveElement
<1>4. Cardinality((D \ {top}) \ {p}) = Cardinality(D) - 2
  <2>1. /\ IsFiniteSet((D \ {top}) \ {p})
        /\ Cardinality((D \ {top}) \ {p}) =
             IF p \in D \ {top} THEN Cardinality(D \ {top}) - 1 ELSE Cardinality(D \ {top})
    BY <1>3, FS_RemoveElement
  <2> QED BY <1>1, <1>3, <2>1
<1>5. Before(host, p) = (D \ {top}) \ {p}
  <2>1. ASSUME NEW j \in D PROVE j < p <=> j # top /\ j # p
    BY <1>1
  <2> QED BY <2>1 DEF Before
<1>6. Before(host, top) = D \ {top}
  <2>1. ASSUME NEW j \in D PROVE j < top <=> j # top
    BY <1>1
  <2> QED BY <2>1 DEF Before
<1>7. ASSUME NEW i \in D, Cardinality(Before(host, i)) = Cardinality(D) - 2
      PROVE  i = p
  <2>1. CASE i = top
    <3>1. Cardinality(D) - 1 # Cardinality(D) - 2
      BY <1>1
    <3>2. Before(host, i) = D \ {top}
      BY <1>6, <2>1
    <3> QED BY <1>3, <1>7, <3>1, <3>2
  <2>2. CASE i < p
    <3>1. Before(host, i) \subseteq Before(host, p) /\ i \in Before(host, p) /\ i \notin Before(host, i)
      <4>1. ASSUME NEW j \in D, j < i PROVE j < p
        BY <1>1, <2>2, <4>1
      <4>2. ~(i < i)
        BY <1>1
      <4> QED BY <2>2, <4>1, <4>2 DEF Before
    <3>2. Cardinality(Before(host, i)) # Cardinality(Before(host, p))
      BY <1>1, <3>1, FS_Subset
    <3> QED BY <1>4, <1>5, <1>7, <3>2
  <2> QED BY <1>1, <2>1, <2>2
<1>8. Begin(host, Cardinality(D) - 1) = p
  <2>1. Cardinality(D) - 1 - 1 = Cardinality(D) - 2
    BY <1>1
  <2>2. \A i \in D : Cardinality(Before(host, i)) = (Cardinality(D) - 1) - 1 <=> i = p
    BY <1>1, <1>4, <1>5, <1>7, <2>1
  <2> QED BY <2>2 DEF Begin
<1>9. End(host, p) = top
  <2>1. {j \in D : j > p} = {top}
    <3>1. ASSUME NEW j \in D PROVE j > p <=> j = top
      BY <1>1
    <3> QED BY <1>1, <3>1
  <2>2. Min({top}) = top
    BY MinIs
  <2> QED BY <2>1, <2>2 DEF End
<1>10. Cardinality(D) - 1 \in 1 .. Cardinality(D) - 1
  BY <1>1, <1>2
<1>11. Labels(host)[Cardinality(D) - 1] = SubSeq(host, p + 1, top - 1)
  BY <1>8, <1>9, <1>10, LabelsCut
<1>12. top - 1 = Len(host)
  OBVIOUS
<1> QED BY <1>11, <1>12

\* A leading dot leaves the first label empty.
LEMMA FirstLabel ==
    ASSUME NEW host, Len(host) \in Nat, 1 \in Dots(host)
    PROVE  1 \in 1 .. Len(Labels(host)) /\ Labels(host)[1] = <<>>
<1> DEFINE D == Dots(host)
<1>1. /\ D \subseteq Nat /\ 0 \in D
      /\ \A i : IsFiniteSet(Before(host, i)) /\ Cardinality(Before(host, i)) \in Nat
      /\ Cardinality(D) \in Nat /\ Cardinality(D) >= 2
  <2>1. 0 \in D
    BY DEF Dots
  <2>2. D \subseteq Nat
    BY DotsFinite
  <2> QED BY <2>1, <2>2, DotsFinite, LabelsCut
<1>2. \A i \in D : Cardinality(Before(host, i)) = 0 <=> i = 0
  <2>1. ASSUME NEW i \in D PROVE Before(host, i) = {} <=> i = 0
    <3>1. CASE i = 0
      BY <1>1, <3>1 DEF Before
    <3>2. CASE i # 0
      <4>1. 0 < i
        BY <1>1, <3>2
      <4> QED BY <1>1, <3>2, <4>1 DEF Before
    <3> QED BY <3>1, <3>2
  <2> QED BY <1>1, <2>1, FS_EmptySet
<1>3. Begin(host, 1) = 0
  <2>1. \A i \in D : Cardinality(Before(host, i)) = 1 - 1 <=> i = 0
    BY <1>2
  <2> QED BY <1>1, <2>1 DEF Begin
<1>4. End(host, 0) = 1
  <2>1. {j \in D : j > 0} \in SUBSET Int /\ 1 \in {j \in D : j > 0}
    BY <1>1
  <2>2. \A j \in {j \in D : j > 0} : 1 <= j
    BY <1>1
  <2> QED BY <2>1, <2>2, MinIs DEF End
<1>5. 1 \in 1 .. Cardinality(D) - 1 /\ Len(Labels(host)) = Cardinality(D) - 1
  BY <1>1, LabelsCut
<1>6. Labels(host)[1] = SubSeq(host, 0 + 1, 1 - 1)
  BY <1>3, <1>4, <1>5, LabelsCut
<1>7. SubSeq(host, 1, 0) = <<>>
  BY SubSeqEmpty
<1> QED BY <1>5, <1>6, <1>7

\* What rule.matches looks for is what a subdomain is: the suffix with its dot
\* and something before it, or labels under the configured host.
LEMMA SuffixIsBelow ==
    ASSUME NEW host \in Seq(Fragment), WellFormed(host)
    PROVE  LET suffix == <<".">> \o Domain IN
           HasSuffix(host, suffix) /\ Len(host) > Len(suffix) <=> Below(host)
<1> DEFINE n == Len(host)
           d == Len(Domain)
           D == Dots(host)
           suffix == <<".">> \o Domain
<1>1. /\ n \in Nat /\ d \in Nat /\ d > 0 /\ Domain \in Seq(Fragment)
      /\ \A i \in 1 .. d : Domain[i] \in Fragment /\ Domain[i] # "."
      /\ \A i \in 1 .. n : host[i] \in Fragment
  <2>1. n \in Nat /\ \A i \in 1 .. n : host[i] \in Fragment
    BY LenProperties, ElementOfSeq
  <2>2. Domain \in Seq(Fragment) /\ d \in Nat /\ d # 0
    BY DomainIsAHost, SeqMonotonic, LenProperties, EmptySeq
  <2>3. \A i \in 1 .. d : Domain[i] \in Fragment \ {"."}
    BY DomainIsAHost, ElementOfSeq
  <2> QED BY <2>1, <2>2, <2>3
<1>2. /\ suffix \in Seq(Fragment) /\ Len(suffix) = d + 1 /\ suffix[1] = "."
      /\ \A i \in 2 .. d + 1 : suffix[i] = Domain[i - 1]
  <2>1. <<".">> \in Seq(Fragment) /\ Len(<<".">>) = 1 /\ <<".">>[1] = "."
    BY DomainIsAHost
  <2>2. /\ suffix \in Seq(Fragment) /\ Len(suffix) = 1 + d
        /\ \A i \in 1 .. 1 + d : suffix[i] = IF i <= 1 THEN <<".">>[i] ELSE Domain[i - 1]
    BY <1>1, <2>1, ConcatProperties
  <2>3. 1 + d = d + 1 /\ 1 \in 1 .. 1 + d
    BY <1>1
  <2> HIDE DEF suffix
  <2>4. suffix[1] = "."
    BY <2>1, <2>2, <2>3
  <2>5. \A i \in 2 .. d + 1 : suffix[i] = Domain[i - 1]
    BY <1>1, <2>2
  <2> QED BY <2>2, <2>3, <2>4, <2>5
<1> HIDE DEF suffix
<1>3. /\ Cardinality(D) \in Nat /\ Cardinality(D) >= 2 /\ IsFiniteSet(D) /\ D \subseteq 0 .. n + 1
      /\ Len(Labels(host)) = Cardinality(D) - 1
  BY <1>1, LabelsCut, DotsFinite
<1>4. \A m \in 1 .. n : host[m] = "." <=> m \in D
  BY <1>1 DEF Dots
<1>5. ASSUME HasSuffix(host, suffix), n > d + 1
      PROVE  Below(host)
  <2> DEFINE p == n - d
  <2>1. SubSeq(host, p, n) = suffix
    BY <1>1, <1>2, <1>5 DEF HasSuffix
  <2>2. \A i \in 1 .. d + 1 : suffix[i] = host[p + i - 1]
    <3>1. \A i \in p .. n : host[i] \in Fragment
      BY <1>1, <1>5
    <3>2. \A i \in 1 .. n - p + 1 : SubSeq(host, p, n)[i] = host[p + i - 1]
      BY <1>1, <3>1, SubSeqProperties
    <3>3. n - p + 1 = d + 1
      BY <1>1
    <3> QED BY <2>1, <3>2, <3>3
  <2>3. p \in 2 .. n /\ p \in D
    <3>1. p \in 2 .. n /\ p + 1 - 1 = p /\ 1 \in 1 .. d + 1
      BY <1>1, <1>5
    <3>2. host[p] = "."
      BY <1>2, <2>2, <3>1
    <3>3. p \in 1 .. n
      BY <3>1
    <3> QED BY <1>4, <3>1, <3>2, <3>3
  <2>4. \A i \in 1 .. d : host[p + i] = Domain[i]
    <3>1. ASSUME NEW i \in 1 .. d PROVE host[p + i] = Domain[i]
      <4>1. i + 1 \in 2 .. d + 1 /\ i + 1 \in 1 .. d + 1 /\ p + (i + 1) - 1 = p + i /\ (i + 1) - 1 = i
        BY <1>1
      <4> QED BY <1>2, <2>2, <4>1
    <3> QED BY <3>1
  <2>5. ASSUME NEW j \in D PROVE j <= p \/ j = n + 1
    <3>1. SUFFICES ASSUME j > p, j # n + 1 PROVE FALSE
      BY <1>1, <1>3
    <3>2. j - p \in 1 .. d /\ p + (j - p) = j /\ j \in 1 .. n
      <4>1. j \in 0 .. n + 1
        BY <1>3
      <4>2. p \in Int /\ n = p + d /\ p > 0
        BY <1>1, <2>3
      <4> HIDE DEF p, n, d
      <4>3. j \in Int /\ j <= n
        BY <1>1, <3>1, <4>1 DEF n
      <4> QED BY <1>1, <3>1, <4>2, <4>3
    <3>3. host[j] # "."
      BY <1>1, <2>4, <3>2
    <3> QED BY <1>4, <3>2, <3>3
  <2>6. Labels(host)[Cardinality(D) - 1] = SubSeq(host, p + 1, n)
    <3>1. p # n + 1
      BY <1>1
    <3> QED BY <1>1, <2>3, <2>5, <3>1, LastLabel
  <2>7. SubSeq(host, p + 1, n) = Domain
    <3>1. \A i \in p + 1 .. n : host[i] \in Fragment
      BY <1>1, <2>3
    <3>2. /\ SubSeq(host, p + 1, n) \in Seq(Fragment)
          /\ Len(SubSeq(host, p + 1, n)) = IF p + 1 <= n THEN n - (p + 1) + 1 ELSE 0
          /\ \A i \in 1 .. n - (p + 1) + 1 : SubSeq(host, p + 1, n)[i] = host[p + 1 + i - 1]
      <4>1. p + 1 \in Int /\ n \in Int
        BY <1>1
      <4> QED BY <3>1, <4>1, SubSeqProperties
    <3>3. p + 1 <= n /\ n - (p + 1) + 1 = d /\ \A i \in 1 .. d : p + 1 + i - 1 = p + i
      BY <1>1
    <3>4. Len(SubSeq(host, p + 1, n)) = d /\ \A i \in 1 .. d : SubSeq(host, p + 1, n)[i] = Domain[i]
      BY <2>4, <3>2, <3>3
    <3> QED BY <1>1, <3>2, <3>4, SeqEqual
  <2>8. Cardinality(D) - 1 > 1
    <3>1. 0 \in D /\ n + 1 \in D
      BY DEF Dots
    <3>2. IsFiniteSet(D \ {p}) /\ Cardinality(D \ {p}) = Cardinality(D) - 1
      BY <1>3, <2>3, FS_RemoveElement
    <3>3. IsFiniteSet((D \ {p}) \ {0}) /\ Cardinality((D \ {p}) \ {0}) = Cardinality(D) - 1 - 1
      <4>1. 0 \in D \ {p}
        BY <2>3, <3>1
      <4> QED BY <3>2, <4>1, FS_RemoveElement
    <3>4. n + 1 \in (D \ {p}) \ {0}
      BY <1>1, <2>3, <3>1
    <3>5. Cardinality((D \ {p}) \ {0}) # 0 /\ Cardinality((D \ {p}) \ {0}) \in Nat
      BY <3>3, <3>4, FS_EmptySet, FS_CardinalityType
    <3> QED BY <1>3, <3>3, <3>5
  <2> QED BY <1>3, <2>6, <2>7, <2>8 DEF Below, WellFormed
<1>6. ASSUME Below(host)
      PROVE  HasSuffix(host, suffix) /\ n > d + 1
  <2>1. Cardinality(D) - 1 > 1 /\ Labels(host)[Cardinality(D) - 1] = Domain
    BY <1>3, <1>6 DEF Below
  <2>2. PICK p \in D \ {n + 1} : \A j \in D \ {n + 1} : j <= p
    <3>1. D \ {n + 1} \in SUBSET Nat /\ 0 \in D \ {n + 1} /\ \A x \in D \ {n + 1} : x <= n
      <4>1. 0 \in D /\ 0 # n + 1
        BY <1>1 DEF Dots
      <4> QED BY <1>1, <1>3, <4>1
    <3> QED BY <1>1, <3>1, GreatestOf
  <2>3. p \in D /\ p # n + 1 /\ \A j \in D : j <= p \/ j = n + 1
    BY <2>2
  <2>4. SubSeq(host, p + 1, n) = Domain
    BY <1>1, <2>1, <2>3, LastLabel
  <2>5. p \in 0 .. n
    BY <1>1, <1>3, <2>3
  <2>6. /\ Len(SubSeq(host, p + 1, n)) = IF p + 1 <= n THEN n - (p + 1) + 1 ELSE 0
        /\ \A i \in 1 .. n - (p + 1) + 1 : SubSeq(host, p + 1, n)[i] = host[p + 1 + i - 1]
    <3>1. p + 1 \in Int /\ n \in Int /\ \A i \in p + 1 .. n : host[i] \in Fragment
      BY <1>1, <2>5
    <3> QED BY <3>1, SubSeqProperties
  <2>7. p + 1 <= n /\ d = n - p
    BY <1>1, <2>4, <2>5, <2>6
  <2>8. p # 0
    <3>1. SUFFICES ASSUME p = 0 PROVE FALSE
      OBVIOUS
    <3>2. D \subseteq {0} \cup {n + 1}
      BY <1>3, <2>3, <3>1
    <3>3. 0 # n + 1
      BY <1>1
    <3>4. Cardinality({0} \cup {n + 1}) = 2 /\ IsFiniteSet({0} \cup {n + 1})
      BY <3>3, TwoElements, Zenon
    <3>5. Cardinality(D) <= Cardinality({0} \cup {n + 1})
      BY <3>2, <3>4, FS_Subset
    <3>6. Cardinality(D) <= 2 /\ Cardinality(D) \in Nat
      BY <1>3, <3>4, <3>5
    <3>7. \A c \in Nat : c <= 2 => ~(c - 1 > 1)
      OBVIOUS
    <3> QED BY <2>1, <3>6, <3>7
  <2>9. p # 1
    BY <1>1, <2>3, FirstLabel DEF WellFormed
  <2>10. p \in 2 .. n /\ host[p] = "."
    <3>1. p \in 2 .. n
      BY <1>1, <2>5, <2>8, <2>9
    <3> QED BY <1>1, <1>4, <2>3, <3>1
  <2>11. SubSeq(host, p, n) = suffix
    <3>1. \A i \in p .. n : host[i] \in Fragment
      BY <1>1, <2>10
    <3>2. /\ SubSeq(host, p, n) \in Seq(Fragment)
          /\ Len(SubSeq(host, p, n)) = IF p <= n THEN n - p + 1 ELSE 0
          /\ \A i \in 1 .. n - p + 1 : SubSeq(host, p, n)[i] = host[p + i - 1]
      <4>1. p \in Int /\ n \in Int
        BY <1>1, <2>10
      <4> QED BY <3>1, <4>1, SubSeqProperties
    <3>3. n - p + 1 = d + 1 /\ p <= n
      BY <1>1, <2>7, <2>10
    <3>4. ASSUME NEW i \in 1 .. d + 1 PROVE host[p + i - 1] = suffix[i]
      <4>1. CASE i = 1
        <5>1. p + 1 - 1 = p
          BY <2>10
        <5> QED BY <1>2, <2>10, <4>1, <5>1
      <4>2. CASE i # 1
        <5>1. /\ i - 1 \in 1 .. n - (p + 1) + 1 /\ p + 1 + (i - 1) - 1 = p + i - 1
              /\ i \in 2 .. d + 1
          BY <1>1, <2>7, <2>10, <4>2
        <5>2. Domain[i - 1] = host[p + i - 1]
          BY <2>4, <2>6, <5>1
        <5> QED BY <1>2, <5>1, <5>2
      <4> QED BY <4>1, <4>2
    <3>5. Len(SubSeq(host, p, n)) = Len(suffix)
      BY <1>2, <3>2, <3>3
    <3>6. \A i \in 1 .. Len(SubSeq(host, p, n)) : SubSeq(host, p, n)[i] = suffix[i]
      BY <1>2, <3>2, <3>3, <3>4, <3>5
    <3> QED BY <1>2, <3>2, <3>5, <3>6, SeqEqual
  <2>12. n - (d + 1) + 1 = p /\ n >= d + 1 /\ n > d + 1
    BY <1>1, <2>7, <2>10
  <2> QED BY <1>2, <2>11, <2>12 DEF HasSuffix
<1> QED BY <1>2, <1>5, <1>6 DEF suffix

\* The suffix of a wildcard that names a host, and of one with a path behind it,
\* which no origin ends in.
LEMMA Suffixes ==
    /\ Suffix("subdomains") = <<".">> \o Domain
    /\ \A host \in Seq(Fragment) : ~HasSuffix(host, Suffix("pathed"))
<1> DEFINE s == <<".">> \o Domain
           P == Fragment \cup {"/"}
<1>1. s \in Seq(Fragment) /\ Len(s) \in Nat
  <2>1. <<".">> \in Seq(Fragment) /\ Domain \in Seq(Fragment)
    <3>1. Fragment \ {"."} \subseteq Fragment
      OBVIOUS
    <3> QED BY <3>1, DomainIsAHost, SeqMonotonic
  <2> QED BY <2>1, ConcatProperties, LenProperties
<1>2. Suffix("subdomains") = s \o <<>> /\ Suffix("pathed") = s \o <<"/">>
  BY DEF Suffix
<1> HIDE DEF s
<1>3. Suffix("subdomains") = s
  BY <1>1, <1>2, ConcatEmptySeq
<1>4. ASSUME NEW host \in Seq(Fragment), HasSuffix(host, Suffix("pathed")) PROVE FALSE
  <2> DEFINE t == Suffix("pathed")
             n == Len(host)
             d == Len(s) + 1
  <2>1. Len(t) = d /\ t[d] = "/"
    <3>1. s \in Seq(P) /\ <<"/">> \in Seq(P) /\ Len(<<"/">>) = 1 /\ <<"/">>[1] = "/"
      BY <1>1, SeqMonotonic
    <3>2. /\ Len(t) = Len(s) + 1
          /\ \A i \in 1 .. Len(s) + 1 : t[i] = IF i <= Len(s) THEN s[i] ELSE <<"/">>[i - Len(s)]
      BY <1>2, <3>1, ConcatProperties
    <3>3. d \in 1 .. Len(s) + 1 /\ ~(d <= Len(s)) /\ d - Len(s) = 1
      BY <1>1
    <3> HIDE DEF d, t
    <3> QED BY <3>1, <3>2, <3>3 DEF d
  <2>2. n \in Nat /\ d \in Nat /\ d > 0 /\ \A i \in 1 .. n : host[i] \in Fragment
    BY <1>1, LenProperties, ElementOfSeq
  <2> HIDE DEF d, t, n
  <2>3. n >= d /\ SubSeq(host, n - d + 1, n) = t
    BY <1>4, <2>1 DEF HasSuffix, t, n
  <2> DEFINE p == n - d + 1
  <2>4. /\ p \in Int /\ n \in Int /\ n - p + 1 = d /\ p + d - 1 = n /\ n \in 1 .. n
        /\ d \in 1 .. n - p + 1 /\ \A i \in p .. n : i \in 1 .. n
    BY <2>2, <2>3
  <2>5. \A i \in 1 .. n - p + 1 : SubSeq(host, p, n)[i] = host[p + i - 1]
    <3>1. \A i \in p .. n : host[i] \in Fragment
      BY <2>2, <2>4
    <3>2. p \in Int /\ n \in Int
      BY <2>4
    <3> HIDE DEF p
    <3> QED BY <3>1, <3>2, SubSeqProperties
  <2>6. t[d] = host[n]
    BY <2>3, <2>4, <2>5
  <2> QED BY <2>1, <2>2, <2>4, <2>6, OriginsHaveNoPath
<1> QED BY <1>3, <1>4 DEF s

-----------------------------------------------------------------------------
(* The guards *)

\* A machine with the token of the private listener in its header.
Machine == req.listener = "private" /\ req.bearer = "admin_token" /\ req.user = FALSE
\* A user with a token that was verified.
User == req.listener = "public" /\ req.user = TRUE /\ Verified(Credential)
\* A destructive request whose password is not recent.
Asked == req.route = "admin_destructive" /\ Credential = "stale"

\* A user's token that is past its time.
Expired == req.listener = "public" /\ Credential = "expired"

\* What an answer may tell the caller of the admin surface.
Tells(status) ==
    req.route # "auth" =>
        /\ status \in {200, 401, 403, 404}
        /\ status = 200 => Machine \/ (User /\ held = TRUE)
        /\ status = 401 <=> Expired
        /\ status = 403 <=> Asked /\ req.listener = "public"

\* What is known of a request from the guards that it still has before it.
Passed ==
    \/ req.chain = Chain(req.listener, req.route)
    \/ req.route = "auth" /\ req.chain = <<>>
    \/ /\ req.route # "auth" /\ Machine
       /\ req.chain \in {<<"RequireRecentAuth">>, <<>>}
    \/ /\ req.route = "admin_destructive" /\ User
       /\ req.chain = <<"RequireRecentAuth", "RequireScope">>
    \/ /\ req.route # "auth" /\ User /\ ~Asked
       /\ req.chain = <<"RequireScope">> \/ (req.chain = <<>> /\ held = TRUE)

\* The guards there are.
Guard == {"Auth", "AuthSilent", "AdminToken", "RequireRecentAuth", "RequireScope"}
\* The two listeners, and a request that is in front of guards or was answered.
Listener == {"public", "private"}
Guarded == [at: {"guarded", "role_read", "answered"}, listener: Listener, route: Route, chain: Seq(Guard),
            bearer: Token, cookie: Token, user: BOOLEAN, status: Nat]

\* A matched request keeps its route, and the private listener has no "auth".
Matched ==
    /\ req.at # "idle" => /\ req.listener \in Listener /\ req.route \in Route
                          /\ req.route = "auth" => req.listener = "public"
    /\ req.at = "guards" => req.chain = Chain(req.listener, req.route)
    /\ req.at \in {"guarded", "role_read", "answered"} => req \in Guarded
    /\ req.at = "guarded" => Passed
    /\ req.at = "role_read" => req.route # "auth" /\ User /\ ~Asked /\ req.chain = <<"RequireScope">>

\* The configuration, as the constructors accepted it.
Configured ==
    /\ trustedProxies \subseteq Proxy /\ NamedForCookies
    /\ allowDomains \subseteq {"exact", "subdomains", "pathed", "*"}

\* The history: what is so now is known to have been so, and an account was
\* active before its permissions are read.
Remembered ==
    /\ wasActive \in BOOLEAN /\ held \in BOOLEAN /\ grant \in Grant
    /\ req.at # "idle" /\ grant.active = TRUE => wasActive = TRUE
    /\ wasActive = TRUE /\ grant.permitted = TRUE => held = TRUE
    /\ req.at = "role_read" => wasActive = TRUE

\* The inductive invariant.
Inv == Configured /\ Remembered /\ Matched /\ OwnBucket /\ OnlyConfiguredOrigins /\ AdminSurface

\* Short lists: what is left behind the head, and two of them put together.
LEMMA TailOf ==
    ASSUME NEW S, NEW s \in Seq(S), NEW t \in Seq(S), Len(s) = Len(t) + 1,
           \A i \in 1 .. Len(t) : s[i + 1] = t[i]
    PROVE  s # <<>> /\ Head(s) = s[1] /\ Tail(s) = t
<1>1. Len(t) \in Nat
  BY LenProperties
<1>2. s # <<>>
  BY <1>1, EmptySeq
<1>3. /\ Tail(s) \in Seq(S) /\ Len(Tail(s)) = Len(s) - 1
      /\ \A i \in 1 .. Len(Tail(s)) : Tail(s)[i] = s[i + 1]
  BY <1>2, HeadTailProperties
<1>4. Len(Tail(s)) = Len(t)
  BY <1>1, <1>3
<1>5. Tail(s) = t
  BY <1>3, <1>4, SeqEqual
<1> QED BY <1>2, <1>5

\* The same of one, two and three names.
LEMMA Tails ==
    ASSUME NEW S, NEW a \in S, NEW b \in S, NEW c \in S
    PROVE  /\ <<a>> # <<>> /\ Head(<<a>>) = a /\ Tail(<<a>>) = <<>>
           /\ <<a, b>> # <<>> /\ Head(<<a, b>>) = a /\ Tail(<<a, b>>) = <<b>>
           /\ <<a, b, c>> # <<>> /\ Head(<<a, b, c>>) = a /\ Tail(<<a, b, c>>) = <<b, c>>
<1>1. <<a>> # <<>> /\ Head(<<a>>) = <<a>>[1] /\ Tail(<<a>>) = <<>>
  <2>1. <<a>> \in Seq(S) /\ <<>> \in Seq(S) /\ Len(<<a>>) = Len(<<>>) + 1
    OBVIOUS
  <2>2. \A i \in 1 .. Len(<<>>) : <<a>>[i + 1] = <<>>[i]
    OBVIOUS
  <2> QED BY <2>1, <2>2, TailOf
<1>2. <<a, b>> # <<>> /\ Head(<<a, b>>) = <<a, b>>[1] /\ Tail(<<a, b>>) = <<b>>
  <2>1. <<a, b>> \in Seq(S) /\ <<b>> \in Seq(S) /\ Len(<<a, b>>) = Len(<<b>>) + 1
    OBVIOUS
  <2>2. \A i \in 1 .. Len(<<b>>) : <<a, b>>[i + 1] = <<b>>[i]
    OBVIOUS
  <2> QED BY <2>1, <2>2, TailOf
<1>3. <<a, b, c>> # <<>> /\ Head(<<a, b, c>>) = <<a, b, c>>[1] /\ Tail(<<a, b, c>>) = <<b, c>>
  <2>1. <<a, b, c>> \in Seq(S) /\ <<b, c>> \in Seq(S) /\ Len(<<a, b, c>>) = Len(<<b, c>>) + 1
    OBVIOUS
  <2>2. \A i \in 1 .. Len(<<b, c>>) : <<a, b, c>>[i + 1] = <<b, c>>[i]
    OBVIOUS
  <2> QED BY <2>1, <2>2, TailOf
<1>4. <<a>>[1] = a /\ <<a, b>>[1] = a /\ <<a, b, c>>[1] = a
  OBVIOUS
<1> QED BY <1>1, <1>2, <1>3, <1>4

\* Two lists put together are the list that agrees with both.
LEMMA ConcatOf ==
    ASSUME NEW S, NEW s \in Seq(S), NEW t \in Seq(S), NEW u \in Seq(S),
           Len(u) = Len(s) + Len(t),
           \A i \in 1 .. Len(s) + Len(t) : u[i] = IF i <= Len(s) THEN s[i] ELSE t[i - Len(s)]
    PROVE  s \o t = u
BY ConcatProperties, SeqEqual

\* The same of one and two names.
LEMMA Joins ==
    ASSUME NEW S, NEW a \in S, NEW b \in S, NEW c \in S
    PROVE  /\ <<a>> \o <<>> = <<a>> /\ <<a>> \o <<b>> = <<a, b>>
           /\ <<a, b>> \o <<>> = <<a, b>> /\ <<a, b>> \o <<c>> = <<a, b, c>>
<1>1. <<a>> \o <<>> = <<a>> /\ <<a, b>> \o <<>> = <<a, b>>
  <2>1. <<a>> \in Seq(S) /\ <<a, b>> \in Seq(S)
    OBVIOUS
  <2> QED BY <2>1, ConcatEmptySeq
<1>2. <<a>> \o <<b>> = <<a, b>>
  <2>1. <<a>> \in Seq(S) /\ <<b>> \in Seq(S) /\ <<a, b>> \in Seq(S) /\ Len(<<a, b>>) = Len(<<a>>) + Len(<<b>>)
    OBVIOUS
  <2>2. \A i \in 1 .. Len(<<a>>) + Len(<<b>>) :
          <<a, b>>[i] = IF i <= Len(<<a>>) THEN <<a>>[i] ELSE <<b>>[i - Len(<<a>>)]
    OBVIOUS
  <2> QED BY <2>1, <2>2, ConcatOf
<1>3. <<a, b>> \o <<c>> = <<a, b, c>>
  <2>1. <<a, b>> \in Seq(S) /\ <<c>> \in Seq(S) /\ <<a, b, c>> \in Seq(S)
        /\ Len(<<a, b, c>>) = Len(<<a, b>>) + Len(<<c>>)
    OBVIOUS
  <2>2. \A i \in 1 .. Len(<<a, b>>) + Len(<<c>>) :
          <<a, b, c>>[i] = IF i <= Len(<<a, b>>) THEN <<a, b>>[i] ELSE <<c>>[i - Len(<<a, b>>)]
    OBVIOUS
  <2> QED BY <2>1, <2>2, ConcatOf
<1> QED BY <1>1, <1>2, <1>3

\* The chains that RegisterRoutes builds.
LEMMA Chains ==
    /\ Chain("public", "auth") = <<"Auth">>
    /\ Chain("public", "admin_read") = <<"AuthSilent", "RequireScope">>
    /\ Chain("public", "admin_destructive") = <<"AuthSilent", "RequireRecentAuth", "RequireScope">>
    /\ Chain("private", "admin_read") = <<"AdminToken">>
    /\ Chain("private", "admin_destructive") = <<"AdminToken", "RequireRecentAuth">>
<1>1. /\ Chain("public", "auth") = (<<"Auth">> \o <<>>) \o <<>>
      /\ Chain("public", "admin_read") = (<<"AuthSilent">> \o <<>>) \o <<"RequireScope">>
      /\ Chain("public", "admin_destructive") =
           (<<"AuthSilent">> \o <<"RequireRecentAuth">>) \o <<"RequireScope">>
      /\ Chain("private", "admin_read") = (<<"AdminToken">> \o <<>>) \o <<>>
      /\ Chain("private", "admin_destructive") =
           (<<"AdminToken">> \o <<"RequireRecentAuth">>) \o <<>>
  BY DEF Chain
<1>2. \A a, b, c \in Guard : /\ <<a>> \o <<>> = <<a>> /\ <<a>> \o <<b>> = <<a, b>>
                         /\ <<a, b>> \o <<>> = <<a, b>> /\ <<a, b>> \o <<c>> = <<a, b, c>>
  <2> QED BY Joins
<1>3. /\ "Auth" \in Guard /\ "AuthSilent" \in Guard /\ "AdminToken" \in Guard
      /\ "RequireRecentAuth" \in Guard /\ "RequireScope" \in Guard
  BY DEF Guard
<1>4. /\ (<<"Auth">> \o <<>>) \o <<>> = <<"Auth">>
      /\ (<<"AdminToken">> \o <<>>) \o <<>> = <<"AdminToken">>
  BY <1>2, <1>3, Zenon
<1>5. /\ <<"AuthSilent">> \o <<>> = <<"AuthSilent">>
      /\ <<"AuthSilent">> \o <<"RequireScope">> = <<"AuthSilent", "RequireScope">>
      /\ <<"AdminToken">> \o <<"RequireRecentAuth">> = <<"AdminToken", "RequireRecentAuth">>
  BY <1>2, <1>3, Zenon
<1>6. <<"AdminToken", "RequireRecentAuth">> \o <<>> = <<"AdminToken", "RequireRecentAuth">>
  BY <1>2, <1>3, Zenon
<1>7. <<"AuthSilent">> \o <<"RequireRecentAuth">> = <<"AuthSilent", "RequireRecentAuth">>
  BY <1>2, <1>3, Zenon
<1>8. <<"AuthSilent", "RequireRecentAuth">> \o <<"RequireScope">> =
        <<"AuthSilent", "RequireRecentAuth", "RequireScope">>
  BY <1>2, <1>3, Zenon
<1> QED BY <1>1, <1>4, <1>5, <1>6, <1>7, <1>8, Zenon

\* What is left of each behind the guard in front.
LEMMA Behind ==
    /\ Tail(<<"Auth">>) = <<>>
    /\ Tail(<<"AuthSilent", "RequireScope">>) = <<"RequireScope">>
    /\ Tail(<<"AuthSilent", "RequireRecentAuth", "RequireScope">>) = <<"RequireRecentAuth", "RequireScope">>
    /\ Tail(<<"AdminToken">>) = <<>>
    /\ Tail(<<"AdminToken", "RequireRecentAuth">>) = <<"RequireRecentAuth">>
    /\ Tail(<<"RequireRecentAuth", "RequireScope">>) = <<"RequireScope">>
    /\ Tail(<<"RequireRecentAuth">>) = <<>>
    /\ Tail(<<"RequireScope">>) = <<>>
<1>1. \A a, b, c \in Guard : /\ Tail(<<a>>) = <<>> /\ Tail(<<a, b>>) = <<b>>
                         /\ Tail(<<a, b, c>>) = <<b, c>>
  <2> TAKE a, b, c \in Guard
  <2>1. Tail(<<a>>) = <<>>
    BY Tails
  <2>2. Tail(<<a, b>>) = <<b>>
    BY Tails
  <2>3. Tail(<<a, b, c>>) = <<b, c>>
    BY Tails
  <2> QED BY <2>1, <2>2, <2>3, Zenon
<1>2. /\ "Auth" \in Guard /\ "AuthSilent" \in Guard /\ "AdminToken" \in Guard
      /\ "RequireRecentAuth" \in Guard /\ "RequireScope" \in Guard
  BY DEF Guard
<1> QED BY <1>1, <1>2, Zenon

\* The guard in front of each.
LEMMA InFront ==
    /\ Head(<<"Auth">>) = "Auth"
    /\ Head(<<"AuthSilent", "RequireScope">>) = "AuthSilent"
    /\ Head(<<"AuthSilent", "RequireRecentAuth", "RequireScope">>) = "AuthSilent"
    /\ Head(<<"AdminToken">>) = "AdminToken"
    /\ Head(<<"AdminToken", "RequireRecentAuth">>) = "AdminToken"
    /\ Head(<<"RequireRecentAuth", "RequireScope">>) = "RequireRecentAuth"
    /\ Head(<<"RequireRecentAuth">>) = "RequireRecentAuth"
    /\ Head(<<"RequireScope">>) = "RequireScope"
<1>1. \A a, b, c \in Guard : Head(<<a>>) = a /\ Head(<<a, b>>) = a /\ Head(<<a, b, c>>) = a
  <2> QED BY Tails
<1>2. /\ "Auth" \in Guard /\ "AuthSilent" \in Guard /\ "AdminToken" \in Guard
      /\ "RequireRecentAuth" \in Guard /\ "RequireScope" \in Guard
  BY DEF Guard
<1> QED BY <1>1, <1>2, Zenon

\* There is one.
LEMMA NotEmpty ==
    /\ <<"Auth">> # <<>> /\ <<"AuthSilent", "RequireScope">> # <<>>
    /\ <<"AuthSilent", "RequireRecentAuth", "RequireScope">> # <<>>
    /\ <<"AdminToken">> # <<>> /\ <<"AdminToken", "RequireRecentAuth">> # <<>>
    /\ <<"RequireRecentAuth", "RequireScope">> # <<>>
    /\ <<"RequireRecentAuth">> # <<>> /\ <<"RequireScope">> # <<>>
<1>1. \A a, b, c \in Guard : <<a>> # <<>> /\ <<a, b>> # <<>> /\ <<a, b, c>> # <<>>
  <2> QED BY Tails, Zenon
<1>2. /\ "Auth" \in Guard /\ "AuthSilent" \in Guard /\ "AdminToken" \in Guard
      /\ "RequireRecentAuth" \in Guard /\ "RequireScope" \in Guard
  BY DEF Guard
<1> QED BY <1>1, <1>2, Zenon

\* Where a request stands in front of each guard, and in front of the handler.
LEMMA AtEach ==
    ASSUME Inv, req.at = "guarded"
    PROVE  /\ AtGuard("Auth") => req.route = "auth" /\ Tail(req.chain) = <<>>
           /\ AtGuard("AuthSilent") =>
                /\ req.listener = "public" /\ req.route # "auth"
                /\ req.route = "admin_read" => Tail(req.chain) = <<"RequireScope">>
                /\ req.route = "admin_destructive" => Tail(req.chain) = <<"RequireRecentAuth", "RequireScope">>
           /\ AtGuard("AdminToken") =>
                /\ req.listener = "private" /\ req.route # "auth"
                /\ Tail(req.chain) \in {<<"RequireRecentAuth">>, <<>>}
           /\ AtGuard("RequireRecentAuth") =>
                /\ req.route # "auth"
                /\ \/ Machine /\ Tail(req.chain) = <<>>
                   \/ User /\ req.route = "admin_destructive" /\ Tail(req.chain) = <<"RequireScope">>
           /\ AtGuard("RequireScope") => req.route # "auth" /\ User /\ ~Asked /\ req.chain = <<"RequireScope">>
           /\ req.chain = <<>> => req.route = "auth" \/ Machine \/ (User /\ ~Asked /\ held)
<1>1. /\ Passed /\ req.route \in {"auth", "admin_read", "admin_destructive"}
      /\ req.listener \in {"public", "private"} /\ (req.route = "auth" => req.listener = "public")
  BY DEF Inv, Matched, Guarded, Route, Listener
<1>2. ASSUME req.chain = Chain(req.listener, req.route)
      PROVE  \/ req.route = "auth" /\ req.chain = <<"Auth">>
             \/ req.listener = "public" /\ req.route = "admin_read" /\ req.chain = <<"AuthSilent", "RequireScope">>
             \/ /\ req.listener = "public" /\ req.route = "admin_destructive"
                /\ req.chain = <<"AuthSilent", "RequireRecentAuth", "RequireScope">>
             \/ req.listener = "private" /\ req.route = "admin_read" /\ req.chain = <<"AdminToken">>
             \/ /\ req.listener = "private" /\ req.route = "admin_destructive"
                /\ req.chain = <<"AdminToken", "RequireRecentAuth">>
  BY <1>1, <1>2, Chains
<1> DEFINE Left(g, rest) == req.chain # <<>> /\ Head(req.chain) = g /\ Tail(req.chain) = rest
<1>3. \/ req.route = "auth" /\ Left("Auth", <<>>)
      \/ req.listener = "public" /\ req.route = "admin_read" /\ Left("AuthSilent", <<"RequireScope">>)
      \/ /\ req.listener = "public" /\ req.route = "admin_destructive"
         /\ Left("AuthSilent", <<"RequireRecentAuth", "RequireScope">>)
      \/ req.listener = "private" /\ req.route # "auth" /\ Left("AdminToken", <<>>)
      \/ req.listener = "private" /\ req.route # "auth" /\ Left("AdminToken", <<"RequireRecentAuth">>)
      \/ req.route # "auth" /\ Machine /\ Left("RequireRecentAuth", <<>>)
      \/ req.route = "admin_destructive" /\ User /\ Left("RequireRecentAuth", <<"RequireScope">>)
      \/ /\ req.route # "auth" /\ User /\ ~Asked /\ Left("RequireScope", <<>>)
         /\ req.chain = <<"RequireScope">>
      \/ req.chain = <<>> /\ (req.route = "auth" \/ Machine \/ (User /\ ~Asked /\ held))
  <2>1. CASE req.chain = Chain(req.listener, req.route)
    BY <1>2, <2>1, Behind, InFront, NotEmpty, Zenon
  <2>2. CASE req.chain # Chain(req.listener, req.route)
    <3>1. \/ req.route = "auth" /\ req.chain = <<>>
          \/ req.route # "auth" /\ Machine /\ req.chain = <<"RequireRecentAuth">>
          \/ req.route # "auth" /\ Machine /\ req.chain = <<>>
          \/ req.route = "admin_destructive" /\ User /\ req.chain = <<"RequireRecentAuth", "RequireScope">>
          \/ req.route # "auth" /\ User /\ ~Asked /\ req.chain = <<"RequireScope">>
          \/ req.route # "auth" /\ User /\ ~Asked /\ req.chain = <<>> /\ held
      BY <1>1, <2>2, Zenon DEF Passed
    <3> QED BY <3>1, Behind, InFront, NotEmpty, Zenon
  <2> QED BY <2>1, <2>2
<1>4. \A g : AtGuard(g) <=> req.chain # <<>> /\ Head(req.chain) = g
  BY DEF AtGuard
<1>5. "admin_destructive" # "auth" /\ "admin_read" # "auth" /\ "admin_read" # "admin_destructive"
  OBVIOUS
<1>6. /\ "Auth" # "AuthSilent" /\ "Auth" # "AdminToken" /\ "Auth" # "RequireRecentAuth" /\ "Auth" # "RequireScope"
      /\ "AuthSilent" # "AdminToken" /\ "AuthSilent" # "RequireRecentAuth" /\ "AuthSilent" # "RequireScope"
      /\ "AdminToken" # "RequireRecentAuth" /\ "AdminToken" # "RequireScope"
      /\ "RequireRecentAuth" # "RequireScope"
  OBVIOUS
<1>7. AtGuard("Auth") => req.route = "auth" /\ Tail(req.chain) = <<>>
  BY <1>3, <1>4, <1>6, Zenon
<1>8. AtGuard("AuthSilent") =>
        /\ req.listener = "public" /\ req.route # "auth"
        /\ req.route = "admin_read" => Tail(req.chain) = <<"RequireScope">>
        /\ req.route = "admin_destructive" => Tail(req.chain) = <<"RequireRecentAuth", "RequireScope">>
  BY <1>3, <1>4, <1>5, <1>6, Zenon
<1>9. AtGuard("AdminToken") =>
        /\ req.listener = "private" /\ req.route # "auth"
        /\ Tail(req.chain) \in {<<"RequireRecentAuth">>, <<>>}
  BY <1>3, <1>4, <1>6, Zenon
<1>10. AtGuard("RequireRecentAuth") =>
         /\ req.route # "auth"
         /\ \/ Machine /\ Tail(req.chain) = <<>>
            \/ User /\ req.route = "admin_destructive" /\ Tail(req.chain) = <<"RequireScope">>
  BY <1>3, <1>4, <1>5, <1>6, Zenon
<1>11. AtGuard("RequireScope") => req.route # "auth" /\ User /\ ~Asked /\ req.chain = <<"RequireScope">>
  BY <1>3, <1>4, <1>6, Zenon
<1>12. req.chain = <<>> => req.route = "auth" \/ Machine \/ (User /\ ~Asked /\ held)
  BY <1>3, Zenon
<1> QED BY <1>7, <1>8, <1>9, <1>10, <1>11, <1>12

\* What the configuration alone decides stays decided.
LEMMA ConfiguredStays ==
    ASSUME Inv, UNCHANGED config
    PROVE  Configured' /\ \A a, b, c : Countable(a, b, c)' = Countable(a, b, c)
<1>1. /\ clientIPHeader' = clientIPHeader /\ trustedProxies' = trustedProxies
      /\ allowDomains' = allowDomains /\ cookies' = cookies
  BY DEF config
<1>2. Configured'
  BY <1>1 DEF Inv, Configured, NamedForCookies, allowAny
<1> QED BY <1>1, <1>2 DEF Countable, Vouched, Peer

\* A guard that lets the request pass keeps the invariant if Passed still holds.
LEMMA PassKeeps ==
    ASSUME Inv, req.at = "guarded", req.chain # <<>>, NEW user \in BOOLEAN, PassAs(user),
           UNCHANGED <<config, grant, history>>, Passed'
    PROVE  Inv'
<1>1. req \in Guarded
  BY DEF Inv, Matched
<1>2. Tail(req.chain) \in Seq(Guard)
  BY <1>1, HeadTailProperties DEF Guarded
<1>3. req' \in Guarded /\ req'.at = "guarded" /\ req'.listener = req.listener /\ req'.route = req.route
  BY <1>1, <1>2 DEF PassAs, Guarded
<1>4. Configured' /\ (req.route = "auth" => req.listener = "public")
  BY ConfiguredStays DEF Inv, Matched
<1>5. Remembered'
  BY <1>3 DEF Inv, Remembered, history
<1> QED BY <1>3, <1>4, <1>5 DEF Inv, Matched, Guarded, OwnBucket, OnlyConfiguredOrigins, AdminSurface

\* A guard, or the handler, that answers keeps it if AdminSurface then holds.
LEMMA AnswerKeeps ==
    ASSUME Inv, req.at \in {"guarded", "role_read"}, NEW status \in Nat, Answer(status),
           UNCHANGED <<config, grant, history>>, Tells(status)
    PROVE  Inv'
<1>1. req \in Guarded
  BY DEF Inv, Matched
<1>2. /\ req' \in Guarded /\ req'.at = "answered" /\ req'.listener = req.listener /\ req'.route = req.route
      /\ req'.bearer = req.bearer /\ req'.cookie = req.cookie /\ req'.user = req.user
      /\ req'.status = status
  BY <1>1 DEF Answer, Guarded
<1>3. Configured' /\ (req.route = "auth" => req.listener = "public")
  BY ConfiguredStays DEF Inv, Matched
<1>4. Credential' = Credential
  BY <1>2 DEF Credential, config
<1>5. AdminSurface'
  BY <1>2, <1>4 DEF AdminSurface, Machine, User, Asked, Verified, Expired, Tells, history
<1>6. Remembered'
  BY <1>2 DEF Inv, Remembered, history
<1> QED BY <1>2, <1>3, <1>5, <1>6 DEF Inv, Matched, Guarded, OwnBucket, OnlyConfiguredOrigins

\* Each guard, and the handler.
LEMMA AuthKeeps == Inv /\ Auth => Inv'
<1> SUFFICES ASSUME Inv, Auth PROVE Inv'
  OBVIOUS
<1>1. /\ AtGuard("Auth") /\ req.at = "guarded" /\ req.chain # <<>> /\ req \in Guarded
      /\ UNCHANGED <<config, grant, history>>
  BY DEF Auth, AtGuard, Inv, Matched
<1>2. req.route = "auth" /\ Tail(req.chain) = <<>>
  BY <1>1, AtEach
<1>3. CASE Verified(Credential)
  <2>1. PassAs(TRUE)
    BY <1>3 DEF Auth
  <2>2. req'.route = "auth" /\ req'.chain = <<>>
    BY <1>1, <1>2, <2>1 DEF PassAs, Guarded
  <2> QED BY <1>1, <2>1, <2>2, PassKeeps DEF Passed
<1>4. CASE ~Verified(Credential)
  <2>1. Answer(401)
    BY <1>4 DEF Auth
  <2>9. Tells(401)
    BY <1>1, <1>2, <2>1 DEF Tells
  <2> QED BY <1>1, <1>2, <2>1, <2>9, AnswerKeeps
<1> QED BY <1>3, <1>4

\* The guard that hides the admin surface from who has no token.
LEMMA AuthSilentKeeps == Inv /\ AuthSilent => Inv'
<1> SUFFICES ASSUME Inv, AuthSilent PROVE Inv'
  OBVIOUS
<1>1. /\ AtGuard("AuthSilent") /\ req.at = "guarded" /\ req.chain # <<>> /\ req \in Guarded
      /\ UNCHANGED <<config, grant, history>>
  BY DEF AuthSilent, AtGuard, Inv, Matched
<1>2. /\ req.listener = "public" /\ req.route \in {"admin_read", "admin_destructive"}
      /\ req.route = "admin_read" => Tail(req.chain) = <<"RequireScope">>
      /\ req.route = "admin_destructive" => Tail(req.chain) = <<"RequireRecentAuth", "RequireScope">>
  <2>1. req.route \in {"auth", "admin_read", "admin_destructive"}
    BY <1>1 DEF Guarded, Route
  <2> QED BY <1>1, <2>1, AtEach
<1>3. CASE Verified(Credential)
  <2>1. PassAs(TRUE)
    BY <1>3 DEF AuthSilent, Verified
  <2>2. /\ req'.route = req.route /\ req'.listener = req.listener /\ req'.user = TRUE
        /\ req'.chain = Tail(req.chain) /\ req'.bearer = req.bearer /\ req'.cookie = req.cookie
    BY <1>1, <2>1 DEF PassAs, Guarded
  <2>3. Credential' = Credential
    BY <1>1, <2>2 DEF Credential, config
  <2>4. User'
    BY <1>2, <1>3, <2>2, <2>3 DEF User, Verified
  <2>5. Passed'
    BY <1>2, <2>2, <2>4 DEF Passed, Asked
  <2> QED BY <1>1, <2>1, <2>5, PassKeeps
<1>4. CASE ~Verified(Credential) /\ Credential = "expired"
  <2>1. Answer(401)
    BY <1>4 DEF AuthSilent
  <2>2. Expired /\ ~Asked
    BY <1>2, <1>4 DEF Expired, Asked
  <2>9. Tells(401)
    BY <1>1, <2>1, <2>2 DEF Tells
  <2> QED BY <1>1, <2>1, <2>2, <2>9, AnswerKeeps
<1>5. CASE ~Verified(Credential) /\ Credential # "expired"
  <2>1. Answer(404)
    BY <1>5 DEF AuthSilent
  <2>2. ~Expired /\ ~Asked
    BY <1>5 DEF Expired, Asked, Verified
  <2>9. Tells(404)
    BY <1>1, <2>1, <2>2 DEF Tells
  <2> QED BY <1>1, <2>1, <2>2, <2>9, AnswerKeeps
<1> QED BY <1>3, <1>4, <1>5

\* The guard of the private listener.
LEMMA AdminTokenKeeps == Inv /\ AdminToken => Inv'
<1> SUFFICES ASSUME Inv, AdminToken PROVE Inv'
  OBVIOUS
<1>1. /\ AtGuard("AdminToken") /\ req.at = "guarded" /\ req.chain # <<>> /\ req \in Guarded
      /\ UNCHANGED <<config, grant, history>>
  BY DEF AdminToken, AtGuard, Inv, Matched
<1>2. /\ req.listener = "private" /\ req.route # "auth"
      /\ Tail(req.chain) \in {<<"RequireRecentAuth">>, <<>>}
  BY <1>1, AtEach
<1>3. CASE req.bearer = "admin_token"
  <2>1. PassAs(FALSE)
    BY <1>3 DEF AdminToken, Bearer
  <2>2. /\ req'.route = req.route /\ req'.listener = req.listener /\ req'.user = FALSE
        /\ req'.chain = Tail(req.chain) /\ req'.bearer = req.bearer
    BY <1>1, <2>1 DEF PassAs, Guarded
  <2>3. Passed'
    BY <1>2, <1>3, <2>2 DEF Passed, Machine
  <2> QED BY <1>1, <2>1, <2>3, PassKeeps
<1>4. CASE req.bearer # "admin_token"
  <2>1. Answer(404)
    BY <1>4 DEF AdminToken, Bearer
  <2>2. ~Expired /\ req.listener # "public"
    BY <1>2 DEF Expired
  <2>9. Tells(404)
    BY <1>1, <2>1, <2>2 DEF Tells
  <2> QED BY <1>1, <2>1, <2>2, <2>9, AnswerKeeps
<1> QED BY <1>3, <1>4

\* Sudo: a user passes with a fresh token only, a machine always.
LEMMA RecentAuthKeeps == Inv /\ RequireRecentAuth => Inv'
<1> SUFFICES ASSUME Inv, RequireRecentAuth PROVE Inv'
  OBVIOUS
<1>1. /\ AtGuard("RequireRecentAuth") /\ req.at = "guarded" /\ req.chain # <<>> /\ req \in Guarded
      /\ UNCHANGED <<config, grant, history>>
  BY DEF RequireRecentAuth, AtGuard, Inv, Matched
<1>2. /\ req.route # "auth"
      /\ \/ Machine /\ Tail(req.chain) = <<>>
         \/ User /\ req.route = "admin_destructive" /\ Tail(req.chain) = <<"RequireScope">>
  BY <1>1, AtEach
<1>3. CASE ~(req.user /\ Credential # "fresh")
  <2>1. PassAs(req.user) /\ req.user \in BOOLEAN
    BY <1>1, <1>3 DEF RequireRecentAuth, Guarded
  <2>2. /\ req'.route = req.route /\ req'.listener = req.listener /\ req'.user = req.user
        /\ req'.chain = Tail(req.chain) /\ req'.bearer = req.bearer /\ req'.cookie = req.cookie
    BY <1>1, <2>1 DEF PassAs, Guarded
  <2>3. Credential' = Credential
    BY <1>1, <2>2 DEF Credential, config
  <2>4. CASE Machine /\ Tail(req.chain) = <<>>
    <3>1. Machine'
      BY <2>2, <2>4 DEF Machine
    <3>2. Passed'
      BY <1>2, <2>2, <2>4, <3>1 DEF Passed
    <3> QED BY <1>1, <2>1, <3>2, PassKeeps
  <2>5. CASE User /\ req.route = "admin_destructive" /\ Tail(req.chain) = <<"RequireScope">>
    <3>1. User' /\ Credential = "fresh"
      BY <1>3, <2>2, <2>3, <2>5 DEF User, Verified
    <3>2. ~Asked'
      BY <2>3, <3>1 DEF Asked
    <3>3. Passed'
      BY <1>2, <2>2, <2>5, <3>1, <3>2 DEF Passed
    <3> QED BY <1>1, <2>1, <3>3, PassKeeps
  <2> QED BY <1>2, <2>4, <2>5
<1>4. CASE req.user /\ Credential # "fresh"
  <2>1. Answer(403)
    BY <1>4 DEF RequireRecentAuth
  <2>2. Asked /\ req.listener = "public" /\ ~Expired
    BY <1>2, <1>4 DEF Machine, User, Verified, Asked, Expired
  <2>9. Tells(403)
    BY <1>1, <2>1, <2>2 DEF Tells
  <2> QED BY <1>1, <2>1, <2>2, <2>9, AnswerKeeps
<1> QED BY <1>3, <1>4

\* The first read of ActorRole finds the account active, or answers.
LEMMA ScopeKeeps == Inv /\ RequireScope => Inv'
<1> SUFFICES ASSUME Inv, RequireScope PROVE Inv'
  OBVIOUS
<1>1. /\ AtGuard("RequireScope") /\ req.at = "guarded" /\ req.chain # <<>> /\ req \in Guarded
      /\ UNCHANGED <<config, grant, history>>
  BY DEF RequireScope, AtGuard, Inv, Matched
<1>2. req.route # "auth" /\ User /\ ~Asked /\ req.chain = <<"RequireScope">>
  BY <1>1, AtEach
<1>3. CASE grant.active /\ req' = [req EXCEPT !.at = "role_read"]
  <2>1. /\ req' \in Guarded /\ req'.at = "role_read" /\ req'.route = req.route
        /\ req'.listener = req.listener /\ req'.user = req.user
        /\ req'.chain = req.chain /\ req'.bearer = req.bearer /\ req'.cookie = req.cookie
    BY <1>1, <1>3 DEF Guarded
  <2>2. Credential' = Credential
    BY <1>1, <2>1 DEF Credential, config
  <2>3. User' /\ ~Asked'
    BY <1>2, <2>1, <2>2 DEF User, Verified, Asked
  <2>4. wasActive = TRUE
    BY <1>1, <1>3 DEF Inv, Remembered, Grant
  <2>5. Remembered'
    BY <1>1, <2>1, <2>4 DEF Inv, Remembered, history
  <2>6. Configured'
    BY <1>1 DEF Inv, Configured, NamedForCookies, allowAny, config
  <2>7. Matched'
    BY <1>1, <1>2, <2>1, <2>3 DEF Inv, Matched
  <2>8. OwnBucket' /\ OnlyConfiguredOrigins' /\ AdminSurface'
    BY <2>1 DEF OwnBucket, OnlyConfiguredOrigins, AdminSurface
  <2> QED BY <2>5, <2>6, <2>7, <2>8 DEF Inv
<1>4. CASE Answer(404)
  <2>1. ~Expired /\ ~Asked
    BY <1>2 DEF User, Verified, Expired
  <2>9. Tells(404)
    BY <1>1, <1>4, <2>1 DEF Tells
  <2> QED BY <1>1, <1>4, <2>1, <2>9, AnswerKeeps
<1> QED BY <1>3, <1>4 DEF RequireScope, ActiveAccount

\* The second finds the permission at a time the account had been active.
LEMMA PermissionsKeep == Inv /\ GetUserRolePermissions => Inv'
<1> SUFFICES ASSUME Inv, GetUserRolePermissions PROVE Inv'
  OBVIOUS
<1>1. /\ req.at = "role_read" /\ req \in Guarded /\ wasActive = TRUE
      /\ req.route # "auth" /\ User /\ ~Asked /\ req.chain = <<"RequireScope">>
      /\ UNCHANGED <<config, grant, history>>
  BY DEF GetUserRolePermissions, Inv, Matched, Remembered
<1>2. CASE grant.permitted /\ req' = [req EXCEPT !.at = "guarded", !.chain = Tail(@)]
  <2>1. Tail(req.chain) = <<>> /\ <<>> \in Seq(Guard)
    BY <1>1, Behind
  <2>2. /\ req' \in Guarded /\ req'.at = "guarded" /\ req'.route = req.route
        /\ req'.listener = req.listener /\ req'.user = req.user
        /\ req'.chain = <<>> /\ req'.bearer = req.bearer /\ req'.cookie = req.cookie
    BY <1>1, <1>2, <2>1 DEF Guarded
  <2>3. Credential' = Credential
    BY <1>1, <2>2 DEF Credential, config
  <2>4. User' /\ ~Asked'
    BY <1>1, <2>2, <2>3 DEF User, Verified, Asked
  <2>5. held = TRUE
    BY <1>1, <1>2 DEF Inv, Remembered, Grant
  <2>6. Passed'
    BY <1>1, <2>2, <2>4, <2>5 DEF Passed, history
  <2>7. Remembered'
    BY <1>1, <2>2 DEF Inv, Remembered, history
  <2>8. Configured'
    BY <1>1 DEF Inv, Configured, NamedForCookies, allowAny, config
  <2>9. Matched'
    BY <1>1, <2>2, <2>6 DEF Inv, Matched
  <2>10. OwnBucket' /\ OnlyConfiguredOrigins' /\ AdminSurface'
    BY <2>2 DEF OwnBucket, OnlyConfiguredOrigins, AdminSurface
  <2> QED BY <2>7, <2>8, <2>9, <2>10 DEF Inv
<1>3. CASE Answer(404)
  <2>1. ~Expired /\ ~Asked
    BY <1>1 DEF User, Verified, Expired
  <2>9. Tells(404)
    BY <1>1, <1>3, <2>1 DEF Tells
  <2> QED BY <1>1, <1>3, <2>1, <2>9, AnswerKeeps
<1> QED BY <1>2, <1>3 DEF GetUserRolePermissions

\* The handler runs when no guard is left.
LEMMA HandleKeeps == Inv /\ Handle => Inv'
<1> SUFFICES ASSUME Inv, Handle PROVE Inv'
  OBVIOUS
<1>1. req.at = "guarded" /\ req.chain = <<>> /\ Answer(200) /\ UNCHANGED <<config, grant, history>>
  BY DEF Handle
<1>2. req.route = "auth" \/ Machine \/ (User /\ ~Asked /\ held = TRUE)
  <2>1. held \in BOOLEAN
    BY DEF Inv, Remembered, history
  <2> QED BY <1>1, <2>1, AtEach
<1>3. req.route # "auth" => ~Expired /\ ~(Asked /\ req.listener = "public")
  BY <1>2 DEF Machine, User, Verified, Expired
<1>9. Tells(200)
  BY <1>1, <1>2, <1>3 DEF Tells
<1> QED BY <1>1, <1>2, <1>3, <1>9, AnswerKeeps

\* Everything before the guards.
LEMMA CorsKeeps == Inv /\ Cors => Inv'
<1> SUFFICES ASSUME Inv, Cors PROVE Inv'
  OBVIOUS
<1>1. /\ req.at = "cors" /\ req.listener \in Listener /\ req.route \in Route
      /\ (req.route = "auth" => req.listener = "public")
      /\ UNCHANGED <<config, grant, history>>
  BY DEF Cors, Inv, Matched
<1>2. Configured'
  BY <1>1 DEF Inv, Configured, NamedForCookies, allowAny, config
<1>3. CASE req' = [at |-> "realip", listener |-> req.listener, route |-> req.route]
  <2>1. req'.at = "realip" /\ req'.listener = req.listener /\ req'.route = req.route
    BY <1>3
  <2>2. Remembered'
    BY <1>1, <2>1 DEF Inv, Remembered, history
  <2>3. Matched' /\ OwnBucket' /\ OnlyConfiguredOrigins' /\ AdminSurface'
    BY <1>1, <2>1 DEF Matched, OwnBucket, OnlyConfiguredOrigins, AdminSurface
  <2> QED BY <1>2, <2>2, <2>3 DEF Inv
<1>4. ASSUME NEW o \in Origin, NEW preflight \in BOOLEAN,
             req' = [at |-> IF preflight /\ Enabled THEN "preflighted" ELSE "corsed",
                     listener |-> req.listener, route |-> req.route, origin |-> o,
                     allowOrigin |-> IF ~Allow(o) THEN "" ELSE IF allowAny THEN "*" ELSE "echo",
                     credentials |-> Allow(o) /\ cookies]
      PROVE  Inv'
  <2>1. /\ req'.at \in {"preflighted", "corsed"} /\ req'.listener = req.listener /\ req'.route = req.route
        /\ req'.origin = o
        /\ req'.allowOrigin = IF ~Allow(o) THEN "" ELSE IF allowAny THEN "*" ELSE "echo"
        /\ req'.credentials <=> Allow(o) /\ cookies
    BY <1>4
  <2>2. o.host \in BoundedSeq(Fragment, MaxFragments) /\ o.https \in BOOLEAN
        /\ o = [https |-> o.https, host |-> o.host]
    BY DEF Origin
  <2>3. o.host \in Seq(Fragment)
    BY <2>2, BoundsAreNumbers, BoundedIsSeq
  <2>4. req'.credentials => req'.allowOrigin = "echo"
    BY <2>1 DEF Inv, Configured, NamedForCookies
  <2>5. ASSUME WellFormed(o.host)
        PROVE  req'.allowOrigin # "" <=>
                 \/ "*" \in allowDomains
                 \/ "exact" \in allowDomains /\ o = [https |-> TRUE, host |-> Domain]
                 \/ "subdomains" \in allowDomains /\ o.https /\ Below(o.host)
    <3>1. req'.allowOrigin # "" <=> Allow(o)
      BY <2>1
    <3>2. Matches("exact", o) <=> o = [https |-> TRUE, host |-> Domain]
      BY <2>2 DEF Matches
    <3>3. Matches("subdomains", o) <=> o.https /\ Below(o.host)
      BY <2>3, <2>5, SuffixIsBelow, Suffixes DEF Matches
    <3>4. ~Matches("pathed", o) /\ rules \subseteq {"exact", "subdomains", "pathed"}
      BY <2>3, Suffixes DEF Matches, rules, Inv, Configured
    <3>5. Allow(o) <=> \/ "*" \in allowDomains
                       \/ "exact" \in allowDomains /\ Matches("exact", o)
                       \/ "subdomains" \in allowDomains /\ Matches("subdomains", o)
      BY <3>4 DEF Allow, allowAny, rules
    <3> QED BY <3>1, <3>2, <3>3, <3>5
  <2>6. OnlyConfiguredOrigins'
    <3>1. allowDomains' = allowDomains
      BY <1>1 DEF config
    <3> QED BY <2>1, <2>4, <2>5, <3>1 DEF OnlyConfiguredOrigins
  <2>7. req'.at \notin {"idle", "guards", "guarded", "role_read", "answered"}
    BY <2>1
  <2>8. Matched' /\ OwnBucket' /\ AdminSurface'
    BY <1>1, <2>1, <2>7 DEF Matched, OwnBucket, AdminSurface
  <2>9. Remembered'
    BY <1>1, <2>7 DEF Inv, Remembered, history
  <2> QED BY <1>2, <2>6, <2>8, <2>9 DEF Inv
<1> QED BY <1>3, <1>4 DEF Cors

\* The address is resolved before the guards.
LEMMA RealIPKeeps == Inv /\ RealIP => Inv'
<1> SUFFICES ASSUME Inv, RealIP PROVE Inv'
  OBVIOUS
<1>1. /\ req.at = "realip" /\ req.listener \in Listener /\ req.route \in Route
      /\ (req.route = "auth" => req.listener = "public")
      /\ UNCHANGED <<config, grant, history>>
  BY DEF RealIP, Inv, Matched
<1>2. PICK client \in Host, proxies \in BoundedSeq(Proxy, MaxHops),
           forged \in BoundedSeq(Hop, MaxForged) :
      \E h \in Hops(forged, client, proxies), edge \in Edges(client) :
        req' = [at |-> "guards", listener |-> req.listener, route |-> req.route,
                chain |-> Chain(req.listener, req.route),
                client |-> client, proxies |-> proxies, edge |-> edge.addr,
                bucket |-> Bucket(ClientIP(h, edge, Peer(client, proxies)))]
  BY DEF RealIP
<1>3. PICK h \in Hops(forged, client, proxies), edge \in Edges(client) :
        req' = [at |-> "guards", listener |-> req.listener, route |-> req.route,
                chain |-> Chain(req.listener, req.route),
                client |-> client, proxies |-> proxies, edge |-> edge.addr,
                bucket |-> Bucket(ClientIP(h, edge, Peer(client, proxies)))]
  BY <1>2
<1> DEFINE peer == Peer(client, proxies)
<1>4. /\ req'.at = "guards" /\ req'.listener = req.listener /\ req'.route = req.route
      /\ req'.chain = Chain(req.listener, req.route) /\ req'.client = client
      /\ req'.proxies = proxies /\ req'.edge = edge.addr
      /\ req'.bucket = Bucket(ClientIP(h, edge, peer))
  BY <1>3
<1>5. ClientIP(h, edge, peer) = Countable(client, proxies, edge.addr)
  BY FindsTheClient DEF Inv, Configured
<1>6. OwnBucket'
  <2>1. clientIPHeader' = clientIPHeader /\ trustedProxies' = trustedProxies
    BY <1>1 DEF config
  <2>2. \A a, b, c : Countable(a, b, c)' = Countable(a, b, c)
    BY <2>1 DEF Countable, Vouched, Peer
  <2>3. req'.bucket = Bucket(Countable(client, proxies, edge.addr))
    BY <1>4, <1>5
  <2> QED BY <1>4, <2>1, <2>2, <2>3 DEF OwnBucket, Bucket
<1>7. Configured'
  BY <1>1 DEF Inv, Configured, NamedForCookies, allowAny, config
<1>8. Matched' /\ OnlyConfiguredOrigins' /\ AdminSurface'
  BY <1>1, <1>4 DEF Matched, OnlyConfiguredOrigins, AdminSurface
<1>9. Remembered'
  BY <1>1, <1>4 DEF Inv, Remembered, history
<1> QED BY <1>6, <1>7, <1>8, <1>9 DEF Inv

\* Present puts the request in front of its whole chain.
LEMMA PresentKeeps ==
    ASSUME Inv, NEW header \in Token, NEW cookie \in Token, Present(header, cookie)
    PROVE  Inv'
<1>1. /\ req.at = "guards" /\ req.listener \in Listener /\ req.route \in Route
      /\ (req.route = "auth" => req.listener = "public")
      /\ req.chain = Chain(req.listener, req.route)
      /\ UNCHANGED <<config, grant, history>>
  BY DEF Present, Inv, Matched
<1>2. req' = [at |-> "guarded", listener |-> req.listener, route |-> req.route,
              chain |-> req.chain, bearer |-> header, cookie |-> cookie, user |-> FALSE,
              status |-> 0]
  BY DEF Present
<1>3. req.chain \in Seq(Guard)
  <2>1. \/ req.listener = "public" /\ req.route = "auth"
        \/ req.listener = "public" /\ req.route = "admin_read"
        \/ req.listener = "public" /\ req.route = "admin_destructive"
        \/ req.listener = "private" /\ req.route = "admin_read"
        \/ req.listener = "private" /\ req.route = "admin_destructive"
    BY <1>1 DEF Listener, Route
  <2>2. /\ <<"Auth">> \in Seq(Guard) /\ <<"AdminToken">> \in Seq(Guard)
        /\ <<"AuthSilent", "RequireScope">> \in Seq(Guard)
        /\ <<"AdminToken", "RequireRecentAuth">> \in Seq(Guard)
        /\ <<"AuthSilent", "RequireRecentAuth", "RequireScope">> \in Seq(Guard)
    <3>1. /\ "Auth" \in Guard /\ "AuthSilent" \in Guard /\ "AdminToken" \in Guard
          /\ "RequireRecentAuth" \in Guard /\ "RequireScope" \in Guard
      BY DEF Guard
    <3>2. \A a, b, c \in Guard :
            <<a>> \in Seq(Guard) /\ <<a, b>> \in Seq(Guard) /\ <<a, b, c>> \in Seq(Guard)
      OBVIOUS
    <3> QED BY <3>1, <3>2, Zenon
  <2> QED BY <1>1, <2>1, <2>2, Chains, Zenon
<1>4. /\ req'.at = "guarded" /\ req'.listener = req.listener /\ req'.route = req.route
      /\ req'.chain = req.chain
  BY <1>2
<1>5. req' \in Guarded
  BY <1>1, <1>2, <1>3 DEF Guarded
<1>6. Passed'
  BY <1>1, <1>4 DEF Passed
<1>7. Configured'
  BY <1>1 DEF Inv, Configured, NamedForCookies, allowAny, config
<1>8. Matched' /\ OwnBucket' /\ OnlyConfiguredOrigins' /\ AdminSurface'
  BY <1>1, <1>4, <1>5, <1>6 DEF Matched, OwnBucket, OnlyConfiguredOrigins, AdminSurface
<1>9. Remembered'
  BY <1>1, <1>4 DEF Inv, Remembered, history
<1> QED BY <1>7, <1>8, <1>9 DEF Inv

\* A change of the caller's role only adds to what is remembered.
LEMMA RoleKeeps == Inv /\ RoleChanges => Inv'
<1> SUFFICES ASSUME Inv, RoleChanges PROVE Inv'
  OBVIOUS
<1>1. /\ UNCHANGED <<config, req>> /\ grant' \in Grant
      /\ wasActive' = (wasActive \/ (req.at # "idle" /\ grant'.active))
      /\ held' = (held \/ (wasActive' /\ grant'.permitted))
      /\ held \in BOOLEAN /\ wasActive \in BOOLEAN
  BY DEF RoleChanges, Inv, Remembered
<1>2. Configured' /\ OwnBucket' /\ OnlyConfiguredOrigins'
  <2>1. Configured' /\ \A a, b, c : Countable(a, b, c)' = Countable(a, b, c)
    BY <1>1, ConfiguredStays
  <2>2. OwnBucket'
    BY <1>1, <2>1 DEF Inv, OwnBucket, Bucket
  <2> QED BY <1>1, <2>1, <2>2 DEF Inv, OnlyConfiguredOrigins, config
<1>3. Remembered' /\ (held => held' = TRUE)
  <2>1. /\ grant'.active \in BOOLEAN /\ grant'.permitted \in BOOLEAN
    BY <1>1 DEF Grant
  <2>2. wasActive' \in BOOLEAN /\ held' \in BOOLEAN
    BY <1>1, <2>1
  <2>3. (wasActive => wasActive' = TRUE) /\ (held => held' = TRUE)
    BY <1>1, <2>1
  <2>4. req.at = "role_read" => wasActive = TRUE
    BY DEF Inv, Remembered
  <2> QED BY <1>1, <2>1, <2>2, <2>3, <2>4 DEF Remembered
<1>4. Credential' = Credential
  BY <1>1 DEF Credential, config
<1>5. (Machine' <=> Machine) /\ (User' <=> User) /\ (Asked' <=> Asked)
  BY <1>1, <1>4 DEF Machine, User, Asked, Verified
<1>6. Passed => Passed'
  BY <1>1, <1>3, <1>5 DEF Passed
<1>7. Matched'
  <2>1. Matched
    BY DEF Inv
  <2> QED BY <1>1, <1>5, <1>6, <2>1 DEF Matched
<1>8. AdminSurface'
  BY <1>1, <1>3, <1>4 DEF Inv, AdminSurface, Verified
<1> QED BY <1>2, <1>3, <1>7, <1>8 DEF Inv

\* No request is under way at first.
LEMMA InitInv == Init => Inv
<1> SUFFICES ASSUME Init PROVE Inv
  OBVIOUS
<1>1. req.at = "idle"
  BY DEF Init, Idle
<1>2. Configured
  BY DEF Init, Configured, Parses
<1>3. Remembered
  BY <1>1 DEF Init, Remembered
<1>4. Matched /\ OwnBucket /\ OnlyConfiguredOrigins /\ AdminSurface
  BY <1>1 DEF Matched, OwnBucket, OnlyConfiguredOrigins, AdminSurface
<1> QED BY <1>2, <1>3, <1>4 DEF Inv

\* Every step keeps it.
LEMMA NextInv == Inv /\ [Next]_vars => Inv'
<1> SUFFICES ASSUME Inv, [Next]_vars PROVE Inv'
  OBVIOUS
<1>1. ASSUME NEW l \in {"public", "private"}, NEW r \in Route, Arrive(l, r) PROVE Inv'
  <2>1. /\ req'.at \in {"cors", "realip"} /\ req'.listener = l /\ req'.route = r
        /\ (r = "auth" => l = "public") /\ UNCHANGED <<config, grant>>
        /\ wasActive' = grant.active /\ held' = (grant.active /\ grant.permitted)
    BY <1>1 DEF Arrive
  <2>2. Configured'
    BY <2>1 DEF Inv, Configured, NamedForCookies, allowAny, config
  <2>3. Remembered'
    <3>1. grant \in Grant /\ grant.active \in BOOLEAN /\ grant.permitted \in BOOLEAN
      BY DEF Inv, Remembered, Grant
    <3> QED BY <2>1, <3>1 DEF Remembered
  <2>4. Matched' /\ OwnBucket' /\ OnlyConfiguredOrigins' /\ AdminSurface'
    BY <2>1 DEF Matched, OwnBucket, OnlyConfiguredOrigins, AdminSurface, Listener
  <2> QED BY <2>2, <2>3, <2>4 DEF Inv
<1>2. CASE CorsNext
  <2>1. /\ req'.at = "realip" /\ req'.listener = req.listener /\ req'.route = req.route
        /\ req.at = "corsed" /\ UNCHANGED <<config, grant, history>>
    BY <1>2 DEF CorsNext
  <2>2. Configured'
    BY <2>1 DEF Inv, Configured, NamedForCookies, allowAny, config
  <2>3. Remembered'
    BY <2>1 DEF Inv, Remembered, history
  <2>4. Matched' /\ OwnBucket' /\ OnlyConfiguredOrigins' /\ AdminSurface'
    <3>1. req.at # "idle" /\ Matched
      BY <2>1 DEF Inv
    <3>2. Matched'
      BY <2>1, <3>1 DEF Matched
    <3> QED BY <2>1, <3>2 DEF OwnBucket, OnlyConfiguredOrigins, AdminSurface
  <2> QED BY <2>2, <2>3, <2>4 DEF Inv
<1>3. CASE Done
  <2>1. /\ req'.at = "idle" /\ wasActive' = FALSE /\ held' = FALSE
        /\ UNCHANGED <<config, grant>>
    BY <1>3 DEF Done, Idle
  <2>2. Configured'
    BY <2>1 DEF Inv, Configured, NamedForCookies, allowAny, config
  <2> QED BY <2>1, <2>2 DEF Inv, Remembered, Matched, OwnBucket, OnlyConfiguredOrigins,
                           AdminSurface
<1>4. CASE UNCHANGED vars
  <2>1. Credential' = Credential /\ UNCHANGED <<config, grant, req, history>>
    BY <1>4 DEF vars, Credential, config, history
  <2>2. (Machine' <=> Machine) /\ (User' <=> User) /\ (Asked' <=> Asked)
    BY <2>1 DEF Machine, User, Asked, Verified
  <2>3. Passed' <=> Passed
    BY <2>1, <2>2 DEF Passed, history
  <2>4. Configured' /\ Remembered' /\ OwnBucket' /\ OnlyConfiguredOrigins'
    <3>1. Configured' /\ \A a, b, c : Countable(a, b, c)' = Countable(a, b, c)
      BY <2>1, ConfiguredStays
    <3>2. OwnBucket'
      BY <2>1, <3>1 DEF Inv, OwnBucket, Bucket
    <3>3. Remembered'
      BY <2>1 DEF Inv, Remembered, history
    <3> QED BY <2>1, <3>1, <3>2, <3>3 DEF Inv, OnlyConfiguredOrigins, config
  <2>5. Matched' /\ AdminSurface'
    <3>1. Matched /\ AdminSurface
      BY DEF Inv
    <3>2. Matched'
      BY <2>1, <2>2, <2>3, <3>1 DEF Matched
    <3>3. AdminSurface'
      BY <2>1, <3>1 DEF AdminSurface, Verified, history
    <3> QED BY <3>2, <3>3
  <2> QED BY <2>4, <2>5 DEF Inv
<1> QED BY <1>1, <1>2, <1>3, <1>4, RoleKeeps, CorsKeeps, RealIPKeeps, PresentKeeps, AuthKeeps,
           AuthSilentKeeps, AdminTokenKeeps, RecentAuthKeeps, ScopeKeeps, PermissionsKeep,
           HandleKeeps DEF Next

-----------------------------------------------------------------------------
(* Theorems *)

\* OwnBucket, for any number of proxies, whichever of them are trusted, and any
\* header a client may forge: Resolver.ClientIP finds the address that called
\* the outermost trusted proxy.
THEOREM CountedUnderOwnAddress == Spec => []OwnBucket
<1>1. Inv => OwnBucket
  BY DEF Inv
<1> QED BY <1>1, InitInv, NextInv, PTL DEF Spec

\* OnlyConfiguredOrigins, for origins of any length: the suffix that
\* rule.matches compares never admits a host outside the configured domain and
\* refuses none under it.
THEOREM OriginsAreConfigured == Spec => []OnlyConfiguredOrigins
<1>1. Inv => OnlyConfiguredOrigins
  BY DEF Inv
<1> QED BY <1>1, InitInv, NextInv, PTL DEF Spec

\* AdminSurface: the guards that RegisterRoutes mounts, in their order, let
\* nobody else reach a handler of the admin surface, whenever accounts and roles
\* change, also between the two statements of ActorRole.
THEOREM AdminSurfaceHolds == Spec => []AdminSurface
<1>1. Inv => AdminSurface
  BY DEF Inv
<1> QED BY <1>1, InitInv, NextInv, PTL DEF Spec
=============================================================================
