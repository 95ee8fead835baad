-------------------------- MODULE RingOperators_proofs --------------------------
(***************************************************************************)
(* What the operators of RingOperators compute, for every ring size, every *)
(* number of virtual nodes, every finite set of nodes and every assignment *)
(* of hashes: the sort sorts, and the two lookups find the nearest token   *)
(* clockwise and the nearest one of another node.                          *)
(***************************************************************************)
EXTENDS RingOperators, FiniteSetTheorems, TLAPS

-----------------------------------------------------------------------------
(* Counting and ordering *)

\* In a finite set that R orders strictly and totally, the number of elements below an
\* element takes each value from 0 to the size less one once, and grows along R.
LEMMA Ranks ==
  ASSUME NEW T, IsFiniteSet(T), NEW R,
         \A a \in T : <<a, a>> \notin R,
         \A a, b, c \in T : <<a, b>> \in R /\ <<b, c>> \in R => <<a, c>> \in R,
         \A a, b \in T : a = b \/ <<a, b>> \in R \/ <<b, a>> \in R
  PROVE  /\ Cardinality(T) \in Nat
         /\ \A t \in T : Cardinality({u \in T : <<u, t>> \in R}) \in 0..(Cardinality(T) - 1)
         /\ \A s, t \in T : <<s, t>> \in R <=>
              Cardinality({u \in T : <<u, s>> \in R}) < Cardinality({u \in T : <<u, t>> \in R})
         /\ \A i \in 1..Cardinality(T) :
              \E t \in T : Cardinality({u \in T : <<u, t>> \in R}) = i - 1
<1> DEFINE below(t) == {u \in T : <<u, t>> \in R}
           N == Cardinality(T)
           rank == [t \in T |-> Cardinality(below(t)) + 1]
<1>1. N \in Nat
  BY FS_CardinalityType
<1>2. \A t \in T : IsFiniteSet(below(t)) /\ Cardinality(below(t)) \in Nat
  <2> TAKE t \in T
  <2>1. below(t) \in SUBSET T
    OBVIOUS
  <2> HIDE DEF below
  <2> QED
    BY <2>1, FS_Subset, FS_CardinalityType
<1>3. ASSUME NEW s \in T, NEW t \in T, <<s, t>> \in R
      PROVE  Cardinality(below(s)) < Cardinality(below(t))
  <2>1. below(s) \in SUBSET below(t)
    BY <1>3
  <2>2. below(s) # below(t)
    BY <1>3
  <2>3. IsFiniteSet(below(t)) /\ Cardinality(below(t)) \in Nat /\ Cardinality(below(s)) \in Nat
    BY <1>2
  <2> HIDE DEF below
  <2>4. /\ Cardinality(below(s)) <= Cardinality(below(t))
        /\ Cardinality(below(t)) = Cardinality(below(s)) => below(t) = below(s)
    BY <2>1, <2>3, FS_Subset
  <2> QED
    BY <2>2, <2>3, <2>4
<1>4. ASSUME NEW t \in T PROVE Cardinality(below(t)) \in 0..(N - 1)
  <2>1. below(t) \in SUBSET T /\ t \notin below(t)
    OBVIOUS
  <2> HIDE DEF below
  <2>2. Cardinality(below(t)) <= N /\ (N = Cardinality(below(t)) => T = below(t))
    BY <2>1, FS_Subset
  <2> QED
    BY <1>1, <1>2, <2>1, <2>2
<1>5. ASSUME NEW s \in T, NEW t \in T, Cardinality(below(s)) < Cardinality(below(t))
      PROVE  <<s, t>> \in R
  <2> HIDE DEF below
  <2>1. CASE <<t, s>> \in R
    BY <1>2, <1>3, <1>5, <2>1
  <2>2. CASE s = t
    BY <1>2, <1>5, <2>2
  <2> QED
    BY <2>1, <2>2
<1> HIDE DEF below
<1>6. rank \in [T -> 1..N]
  BY <1>1, <1>4
<1>7. rank \in Injection(T, 1..N)
  <2>1. ASSUME NEW s \in T, NEW t \in T, rank[s] = rank[t] PROVE s = t
    <3>1. Cardinality(below(s)) = Cardinality(below(t))
      BY <1>2, <2>1
    <3>2. ~(<<s, t>> \in R) /\ ~(<<t, s>> \in R)
      BY <1>2, <1>3, <3>1
    <3> QED
      BY <3>2
  <2> QED
    BY <1>6, <2>1 DEF Injection, IsInjective
<1>8. IsFiniteSet(1..N) /\ Cardinality(1..N) = N
  BY <1>1, FS_Interval
<1>9. rank \in Surjection(T, 1..N)
  <2> HIDE DEF rank
  <2>1. N = Cardinality(1..N)
    BY <1>8
  <2> QED
    BY <1>7, <1>8, <2>1, FS_Injection
<1>10. \A i \in 1..N : \E t \in T : Cardinality(below(t)) = i - 1
  <2> TAKE i \in 1..N
  <2>1. PICK t \in T : rank[t] = i
    BY <1>9 DEF Surjection
  <2>2. Cardinality(below(t)) + 1 = i
    BY <2>1
  <2> QED
    BY <1>2, <2>2
<1>11. /\ \A t \in T : Cardinality(below(t)) \in 0..(N - 1)
       /\ \A s, t \in T : <<s, t>> \in R <=> Cardinality(below(s)) < Cardinality(below(t))
  BY <1>3, <1>4, <1>5
<1> HIDE DEF N
<1> QED
  BY <1>1, <1>10, <1>11, Zenon DEF below, N

\* A finite set of integers that is not empty has a least element.
LEMMA MinFacts ==
  ASSUME NEW S \in SUBSET Int, IsFiniteSet(S), S # {}
  PROVE  Min(S) \in S /\ \A x \in S : Min(S) <= x
<1> DEFINE R == {p \in S \X S : p[1] < p[2]}
<1>1. \A a, b \in S : <<a, b>> \in R <=> a < b
  OBVIOUS
<1>2. Cardinality(S) \in Nat /\ Cardinality(S) # 0
  BY FS_CardinalityType, FS_EmptySet
<1>3. \E t \in S : Cardinality({u \in S : <<u, t>> \in R}) = 1 - 1
  <2>1. /\ \A a \in S : <<a, a>> \notin R
        /\ \A a, b, c \in S : <<a, b>> \in R /\ <<b, c>> \in R => <<a, c>> \in R
        /\ \A a, b \in S : a = b \/ <<a, b>> \in R \/ <<b, a>> \in R
    <3> HIDE DEF R
    <3>1. \A a, b, c \in S : /\ ~(a < a)
                             /\ a < b /\ b < c => a < c
                             /\ a = b \/ a < b \/ b < a
      OBVIOUS
    <3> QED
      BY <1>1, <3>1, Zenon
  <2>2. 1 \in 1..Cardinality(S)
    BY <1>2
  <2> HIDE DEF R
  <2>3. \A i \in 1..Cardinality(S) : \E t \in S : Cardinality({u \in S : <<u, t>> \in R}) = i - 1
    BY <2>1, Ranks
  <2> QED
    BY <2>2, <2>3
<1>4. PICK t \in S : Cardinality({u \in S : <<u, t>> \in R}) = 1 - 1
  BY <1>3
<1>5. {u \in S : <<u, t>> \in R} = {}
  <2> DEFINE B == {u \in S : <<u, t>> \in R}
  <2>1. B \in SUBSET S
    OBVIOUS
  <2> HIDE DEF B
  <2>2. IsFiniteSet(B)
    BY <2>1, FS_Subset
  <2>3. B = {}
    BY <1>4, <2>2, FS_EmptySet DEF B
  <2> QED
    BY <2>3 DEF B
<1>6. \A x \in S : t <= x
  <2> HIDE DEF R
  <2> TAKE x \in S
  <2>1. <<x, t>> \notin R
    BY <1>5
  <2>2. ~(x < t)
    BY <1>1, <2>1, Zenon
  <2>3. x \in Int /\ t \in Int
    OBVIOUS
  <2> QED
    BY <2>2, <2>3
<1> QED
  BY <1>6 DEF Min

-----------------------------------------------------------------------------
(* Building the ring *)

\* Positions are non-negative and wrap around (uint32_t arithmetic).
LEMMA PositionFacts ==
  /\ RingSize \in Nat \ {0} /\ VirtualNodes \in Nat
  /\ Position \subseteq Int
  /\ \A x \in Int : x % RingSize \in Position
  /\ \A x \in Position : x % RingSize = x
  /\ \A x \in Int : -RingSize <= x /\ x < 0 => x % RingSize = x + RingSize
BY RingAssumption DEF Position

\* Interval is a number.
LEMMA IntervalType == VirtualNodes > 0 => Interval \in Int
<1> SUFFICES ASSUME VirtualNodes > 0 PROVE Interval \in Int
  OBVIOUS
<1>1. RingSize \div VirtualNodes \in Int
  BY PositionFacts
<1>2. ASSUME NEW a \in Int PROVE Max({1, a}) \in Int
  <2>1. \E x \in {1, a} : \A y \in {1, a} : x >= y
    OBVIOUS
  <2> QED
    BY <2>1 DEF Max
<1> QED
  BY <1>1, <1>2 DEF Interval

\* rebuild() makes tokens of the given nodes only and, if it makes any, at least one of
\* each; they are finitely many.
LEMMA TokenSetFacts ==
  ASSUME NEW nodes, IsFiniteSet(nodes), NEW hash, \A n \in nodes : hash[n] \in Position
  PROVE  /\ IsFiniteSet(TokenSet(hash, nodes))
         /\ TokenSet(hash, nodes) \subseteq [position : Position, node_id : nodes]
         /\ VirtualNodes > 0 =>
              \A n \in nodes : \E t \in TokenSet(hash, nodes) : t.node_id = n
         /\ VirtualNodes = 0 => TokenSet(hash, nodes) = {}
<1> DEFINE places == nodes \X (0..(VirtualNodes - 1))
           token(n, v) == [position |-> (hash[n] + v * Interval) % RingSize, node_id |-> n]
           f == [p \in places |-> token(p[1], p[2])]
           tokens == TokenSet(hash, nodes)
<1>1. tokens = {token(n, v) : n \in nodes, v \in 0..(VirtualNodes - 1)}
  BY DEF TokenSet
<1>2. IsFiniteSet(places)
  <2>1. IsFiniteSet(0..(VirtualNodes - 1))
    BY FS_Interval, PositionFacts
  <2> QED
    BY <2>1, FS_Product
<1>3. f \in Surjection(places, tokens)
  <2>1. f \in [places -> tokens]
    BY <1>1
  <2>2. ASSUME NEW t \in tokens PROVE \E p \in places : f[p] = t
    <3>1. PICK n \in nodes, v \in 0..(VirtualNodes - 1) : t = token(n, v)
      BY <1>1
    <3>2. <<n, v>> \in places /\ f[<<n, v>>] = t
      BY <3>1
    <3> QED
      BY <3>2
  <2> QED
    BY <2>1, <2>2 DEF Surjection
<1>4. IsFiniteSet(tokens)
  BY <1>2, <1>3, FS_Surjection
<1>5. ASSUME NEW n \in nodes, NEW v \in 0..(VirtualNodes - 1)
      PROVE  token(n, v) \in [position : Position, node_id : nodes]
  <2>1. hash[n] \in Int /\ v \in Int /\ Interval \in Int
    <3>1. VirtualNodes > 0
      BY PositionFacts
    <3>2. hash[n] \in Int
      BY PositionFacts
    <3> QED
      BY <3>1, <3>2, IntervalType
  <2>2. v * Interval \in Int
    BY <2>1
  <2>3. hash[n] + v * Interval \in Int
    BY <2>1, <2>2
  <2>4. (hash[n] + v * Interval) % RingSize \in Position
    BY <2>3, PositionFacts
  <2> QED
    BY <2>4
<1>6. VirtualNodes > 0 => \A n \in nodes : token(n, 0) \in tokens
  <2>1. VirtualNodes > 0 => 0 \in 0..(VirtualNodes - 1)
    BY PositionFacts
  <2> QED
    BY <1>1, <2>1
<1>7. VirtualNodes = 0 => tokens = {}
  BY <1>1
<1>8. VirtualNodes > 0 => \A n \in nodes : \E t \in tokens : t.node_id = n
  <2> SUFFICES ASSUME VirtualNodes > 0, NEW n \in nodes PROVE \E t \in tokens : t.node_id = n
    OBVIOUS
  <2>1. token(n, 0) \in tokens
    BY <1>6
  <2>2. token(n, 0).node_id = n
    OBVIOUS
  <2> QED
    BY <2>1, <2>2
<1>9. tokens \subseteq [position : Position, node_id : nodes]
  <2> HIDE DEF token
  <2> QED
    BY <1>1, <1>5
<1> HIDE DEF token
<1> QED
  BY <1>4, <1>7, <1>8, <1>9

\* A node brings and takes along its own tokens and no others.
LEMMA TokenSetChange ==
  ASSUME NEW nodes, NEW hash, NEW n
  PROVE  /\ n \notin nodes =>
              TokenSet(hash, nodes) = {t \in TokenSet(hash, nodes \cup {n}) : t.node_id # n}
         /\ TokenSet(hash, nodes \ {n}) = {t \in TokenSet(hash, nodes) : t.node_id # n}
BY DEF TokenSet

\* Before orders tokens strictly and totally.
LEMMA BeforeOrder ==
  ASSUME NEW T \in SUBSET [position : Int, node_id : Int]
  PROVE  /\ \A a \in T : ~Before(a, a)
         /\ \A a, b, c \in T : Before(a, b) /\ Before(b, c) => Before(a, c)
         /\ \A a, b \in T : a = b \/ Before(a, b) \/ Before(b, a)
<1>1. \A a \in T : a.position \in Int /\ a.node_id \in Int
  OBVIOUS
<1>2. \A a, b \in T : a.position = b.position /\ a.node_id = b.node_id => a = b
  OBVIOUS
<1> QED
  BY <1>1, <1>2 DEF Before

\* The sort sorts: each token once, in ring order (rebuild).
LEMMA SortedFacts ==
  ASSUME NEW T \in SUBSET [position : Int, node_id : Int], IsFiniteSet(T)
  PROVE  /\ Cardinality(T) \in Nat
         /\ Sorted(T) \in Seq(T) /\ Len(Sorted(T)) = Cardinality(T)
         /\ DOMAIN Sorted(T) = 1..Cardinality(T)
         /\ \A i \in 1..Cardinality(T) : Sorted(T)[i] \in T
         /\ \A i, j \in 1..Cardinality(T) : i < j => Before(Sorted(T)[i], Sorted(T)[j])
         /\ \A t \in T : \E i \in 1..Cardinality(T) : Sorted(T)[i] = t
<1> DEFINE R == {p \in T \X T : Before(p[1], p[2])}
           N == Cardinality(T)
           below(t) == Cardinality({u \in T : Before(u, t)})
           r == Sorted(T)
<1>1. \A a, b \in T : <<a, b>> \in R <=> Before(a, b)
  OBVIOUS
<1>2. \A t \in T : Cardinality({u \in T : <<u, t>> \in R}) = below(t)
  <2> TAKE t \in T
  <2>1. {u \in T : <<u, t>> \in R} = {u \in T : Before(u, t)}
    BY <1>1
  <2> QED
    BY <2>1
<1>3. /\ \A a \in T : <<a, a>> \notin R
      /\ \A a, b, c \in T : <<a, b>> \in R /\ <<b, c>> \in R => <<a, c>> \in R
      /\ \A a, b \in T : a = b \/ <<a, b>> \in R \/ <<b, a>> \in R
  <2> HIDE DEF R
  <2> QED
    BY <1>1, BeforeOrder
<1>4. /\ N \in Nat
      /\ \A t \in T : below(t) \in 0..(N - 1)
      /\ \A s, t \in T : Before(s, t) <=> below(s) < below(t)
      /\ \A i \in 1..N : \E t \in T : below(t) = i - 1
  <2> HIDE DEF R, below
  <2>1. /\ N \in Nat
        /\ \A t \in T : Cardinality({u \in T : <<u, t>> \in R}) \in 0..(N - 1)
        /\ \A s, t \in T : <<s, t>> \in R <=>
             Cardinality({u \in T : <<u, s>> \in R}) < Cardinality({u \in T : <<u, t>> \in R})
        /\ \A i \in 1..N : \E t \in T : Cardinality({u \in T : <<u, t>> \in R}) = i - 1
    BY <1>3, Ranks
  <2> QED
    BY <1>1, <1>2, <2>1
<1>5. r = [i \in 1..N |-> CHOOSE t \in T : below(t) = i - 1]
  BY DEF Sorted
<1> HIDE DEF below, N, R
<1>6. \A i \in 1..N : r[i] \in T /\ below(r[i]) = i - 1
  BY <1>4, <1>5
<1> HIDE DEF r
<1>7. DOMAIN r = 1..N /\ r \in [1..N -> T]
  BY <1>5, <1>6
<1>8. r \in Seq(T) /\ Len(r) = N
  BY <1>4, <1>7
<1>9. \A i, j \in 1..N : i < j => Before(r[i], r[j])
  BY <1>4, <1>6
<1>10. ASSUME NEW t \in T PROVE \E i \in 1..N : r[i] = t
  <2>1. below(t) + 1 \in 1..N
    BY <1>4
  <2>2. below(r[below(t) + 1]) = below(t) /\ r[below(t) + 1] \in T
    BY <1>4, <1>6, <2>1
  <2>3. ~Before(t, r[below(t) + 1]) /\ ~Before(r[below(t) + 1], t)
    BY <1>4, <2>2
  <2>4. r[below(t) + 1] = t
    BY <2>2, <2>3, BeforeOrder
  <2> QED
    BY <2>1, <2>4
<1> QED
  BY <1>4, <1>6, <1>7, <1>8, <1>9, <1>10 DEF N, r

-----------------------------------------------------------------------------
(* Looking keys up *)

\* Positions from pos clockwise to token t, and which of two tokens is reached first.
Away(pos, t) == (t.position - pos) % RingSize

Nearer(pos, t, u) ==
  \/ Away(pos, t) < Away(pos, u)
  \/ Away(pos, t) = Away(pos, u) /\ t.node_id < u.node_id

\* T are the tokens of a ring that is not empty.
Tokened(T) == T \in SUBSET [position : Position, node_id : Int] /\ IsFiniteSet(T) /\ T # {}

\* t is the first token of T on the way from pos.
Nearest(pos, t, T) == t \in T /\ \A u \in T \ {t} : Nearer(pos, t, u)

\* The distance clockwise from a position to a token, with its wrap.
LEMMA AwayFacts ==
  ASSUME NEW pos \in Position, NEW t \in [position : Position, node_id : Int]
  PROVE  /\ t.position \in Int /\ pos \in Int /\ RingSize \in Int
         /\ 0 <= t.position /\ t.position < RingSize /\ 0 <= pos /\ pos < RingSize
         /\ Away(pos, t) \in Int
         /\ t.position >= pos => Away(pos, t) = t.position - pos
         /\ t.position < pos => Away(pos, t) = t.position - pos + RingSize
<1>1. /\ t.position \in Int /\ pos \in Int /\ RingSize \in Int
      /\ 0 <= t.position /\ t.position < RingSize /\ 0 <= pos /\ pos < RingSize
  BY RingAssumption DEF Position
<1>2. ASSUME t.position >= pos PROVE (t.position - pos) % RingSize = t.position - pos
  <2>1. t.position - pos \in Position
    BY <1>1, <1>2 DEF Position
  <2> QED
    BY <2>1, PositionFacts
<1>3. ASSUME t.position < pos PROVE (t.position - pos) % RingSize = t.position - pos + RingSize
  <2>1. t.position - pos \in Int /\ -RingSize <= t.position - pos /\ t.position - pos < 0
    BY <1>1, <1>3
  <2> QED
    BY <2>1, PositionFacts
<1> QED
  BY <1>1, <1>2, <1>3 DEF Away

\* Nearer is a strict order, so there is one nearest token at most.
LEMMA NearestUnique ==
  ASSUME NEW T \in SUBSET [position : Position, node_id : Int], NEW pos \in Position,
         NEW t, NEW u, Nearest(pos, t, T), Nearest(pos, u, T)
  PROVE  t = u
<1>1. t \in T /\ u \in T /\ Away(pos, t) \in Int /\ Away(pos, u) \in Int
      /\ t.node_id \in Int /\ u.node_id \in Int
  BY AwayFacts DEF Nearest
<1> QED
  BY <1>1 DEF Nearest, Nearer

\* Clockwise wraps past the last token.
LEMMA ClockwiseFacts ==
  ASSUME NEW ring, Len(ring) \in Nat \ {0}, NEW i \in 1..Len(ring), NEW k \in 0..(Len(ring) - 1)
  PROVE  Clockwise(ring, i, k) = IF i + k <= Len(ring) THEN i + k ELSE i + k - Len(ring)
<1> DEFINE N == Len(ring)
<1>1. N \in Nat \ {0} /\ i \in 1..N /\ k \in 0..(N - 1)
  OBVIOUS
<1> HIDE DEF N
<1>2. \A x \in 0..(N - 1) : x % N = x
  BY <1>1
<1>3. \A x \in N..(N + N - 1) : x % N = x - N
  BY <1>1
<1>4. CASE i + k <= N
  <2>1. i + k - 1 \in 0..(N - 1)
    BY <1>1, <1>4
  <2>2. ((i + k - 1) % N) + 1 = i + k
    BY <1>1, <1>2, <2>1
  <2> QED
    BY <1>4, <2>2 DEF Clockwise, N
<1>5. CASE ~(i + k <= N)
  <2>1. i + k - 1 \in N..(N + N - 1)
    <3>1. i \in Int /\ k \in Int /\ N \in Int /\ i <= N /\ k <= N - 1 /\ i + k > N
      BY <1>1, <1>5
    <3> QED
      BY <3>1
  <2>2. ((i + k - 1) % N) + 1 = i + k - N
    BY <1>1, <1>3, <2>1
  <2> QED
    BY <1>5, <2>2 DEF Clockwise, N
<1> QED
  BY <1>4, <1>5

\* findToken() returns the first token at or past the key, the first one of all if there
\* is none.
LEMMA FindTokenFacts ==
  ASSUME NEW T, Tokened(T), NEW pos \in Position
  PROVE  LET r == Sorted(T)
             i == FindToken(r, pos)
         IN  /\ i \in 1..Cardinality(T)
             /\ \/ \A j \in 1..Cardinality(T) : r[j].position >= pos <=> j >= i
                \/ i = 1 /\ \A j \in 1..Cardinality(T) : r[j].position < pos
<1> DEFINE r == Sorted(T)
           N == Cardinality(T)
           i == FindToken(r, pos)
           found == {j \in 1..N : r[j].position >= pos}
<1>1. T \in SUBSET [position : Int, node_id : Int] /\ IsFiniteSet(T) /\ T # {}
  BY PositionFacts DEF Tokened
<1>2. /\ N \in Nat /\ DOMAIN r = 1..N
      /\ \A j \in 1..N : r[j] \in T
      /\ \A j, k \in 1..N : j < k => Before(r[j], r[k])
  BY <1>1, SortedFacts
<1>3. N # 0
  BY <1>1, FS_EmptySet
<1>4. i = IF found = {} THEN 1 ELSE Min(found)
  BY <1>2 DEF FindToken
<1> HIDE DEF r, N, i
<1>5. \A j \in 1..N : r[j].position \in Int /\ pos \in Int
  BY <1>1, <1>2, PositionFacts
<1>6. CASE found = {}
  <2>1. i = 1 /\ 1 \in 1..N
    BY <1>2, <1>3, <1>4, <1>6
  <2>2. \A j \in 1..N : r[j].position < pos
    BY <1>5, <1>6
  <2> QED
    BY <2>1, <2>2 DEF r, N, i
<1>7. CASE found # {}
  <2>1. found \in SUBSET Int /\ IsFiniteSet(found)
    <3>1. IsFiniteSet(1..N) /\ found \in SUBSET (1..N) /\ found \in SUBSET Int
      BY <1>2, FS_Interval
    <3> HIDE DEF found
    <3>2. IsFiniteSet(found)
      BY <3>1, FS_Subset
    <3> QED
      BY <3>1, <3>2
  <2>2. i \in found /\ \A x \in found : i <= x
    <3> HIDE DEF found
    <3> QED
      BY <1>4, <1>7, <2>1, MinFacts
  <2>3. \A j \in 1..N : j > i => r[j].position >= r[i].position
    BY <1>2, <1>5, <2>2 DEF Before
  <2>4. \A j \in 1..N : r[j].position >= pos <=> j >= i
    BY <1>2, <1>5, <2>2, <2>3
  <2> QED
    BY <2>2, <2>4 DEF r, N, i
<1> QED
  BY <1>6, <1>7

\* From there the ring is in the order in which the tokens are reached, and every token
\* is reached in one turn.
LEMMA ClockwiseOrder ==
  ASSUME NEW T, Tokened(T), NEW pos \in Position
  PROVE  LET r == Sorted(T)
             i == FindToken(r, pos)
             N == Cardinality(T)
             at(k) == r[Clockwise(r, i, k)]
         IN  /\ N \in Nat \ {0} /\ i \in 1..N /\ at(0) = r[i]
             /\ \A k \in 0..(N - 1) : Clockwise(r, i, k) \in 1..N /\ at(k) \in T
             /\ \A k, l \in 0..(N - 1) : k < l => Nearer(pos, at(k), at(l))
             /\ \A t \in T : \E k \in 0..(N - 1) : at(k) = t
<1> DEFINE r == Sorted(T)
           N == Cardinality(T)
           i == FindToken(r, pos)
           cw(k) == IF i + k <= N THEN i + k ELSE i + k - N
<1>1. T \in SUBSET [position : Int, node_id : Int] /\ IsFiniteSet(T) /\ T # {}
  BY PositionFacts DEF Tokened
<1>2. /\ N \in Nat /\ Len(r) = N
      /\ \A j \in 1..N : r[j] \in T
      /\ \A j, k \in 1..N : j < k => Before(r[j], r[k])
      /\ \A t \in T : \E j \in 1..N : r[j] = t
  BY <1>1, SortedFacts
<1>3. N # 0
  BY <1>1, FS_EmptySet
<1>4. /\ i \in 1..N
      /\ \/ \A j \in 1..N : r[j].position >= pos <=> j >= i
         \/ i = 1 /\ \A j \in 1..N : r[j].position < pos
  BY FindTokenFacts
<1> HIDE DEF i, N, r
<1>5. \A k \in 0..(N - 1) : Clockwise(r, i, k) = cw(k) /\ cw(k) \in 1..N
  <2> TAKE k \in 0..(N - 1)
  <2>1. Clockwise(r, i, k) = cw(k)
    BY <1>2, <1>3, <1>4, ClockwiseFacts
  <2>2. cw(k) \in 1..N
    BY <1>2, <1>3, <1>4
  <2> QED
    BY <2>1, <2>2
<1>6. /\ 0 \in 0..(N - 1) /\ cw(0) = i
  BY <1>2, <1>3, <1>4
<1>7. \A j \in 1..N : /\ r[j] \in [position : Position, node_id : Int]
                      /\ r[j].position \in Int /\ r[j].node_id \in Int
  BY <1>2, PositionFacts DEF Tokened
<1>8. ASSUME NEW k \in 0..(N - 1), NEW l \in 0..(N - 1), k < l
      PROVE  Nearer(pos, r[cw(k)], r[cw(l)])
  <2> DEFINE a == cw(k)
             b == cw(l)
  <2>1. a \in 1..N /\ b \in 1..N
    BY <1>5
  <2>2. \/ a < b /\ (a >= i <=> b >= i)
        \/ a >= i /\ b < i
    BY <1>2, <1>3, <1>4, <1>8
  <2> HIDE DEF a, b
  <2>3. /\ r[a] \in [position : Position, node_id : Int]
        /\ r[b] \in [position : Position, node_id : Int]
        /\ r[a].node_id \in Int /\ r[b].node_id \in Int
    BY <1>7, <2>1
  <2>4. a < b => Before(r[a], r[b])
    BY <1>2, <2>1
  <2>5. ASSUME a < b /\ (r[a].position >= pos <=> r[b].position >= pos)
        PROVE  Nearer(pos, r[a], r[b])
    <3>1. Before(r[a], r[b])
      BY <2>4, <2>5
    <3> QED
      BY <2>3, <2>5, <3>1, AwayFacts DEF Nearer, Before
  <2>6. ASSUME r[a].position >= pos, r[b].position < pos
        PROVE  Nearer(pos, r[a], r[b])
    BY <2>3, <2>6, AwayFacts DEF Nearer
  <2>7. \/ a < b /\ (r[a].position >= pos <=> r[b].position >= pos)
        \/ r[a].position >= pos /\ r[b].position < pos
    <3>1. r[a].position \in Int /\ r[b].position \in Int /\ pos \in Int /\ a \in Int /\ b \in Int /\ i \in Int
      BY <1>4, <1>7, <2>1, PositionFacts
    <3>2. CASE \A j \in 1..N : r[j].position >= pos <=> j >= i
      BY <2>1, <2>2, <3>1, <3>2
    <3>3. CASE i = 1 /\ \A j \in 1..N : r[j].position < pos
      BY <2>1, <2>2, <3>1, <3>3
    <3> QED
      BY <1>4, <3>2, <3>3
  <2>8. Nearer(pos, r[a], r[b])
    BY <2>5, <2>6, <2>7
  <2> QED
    BY <2>8 DEF a, b
<1>9. ASSUME NEW t \in T PROVE \E k \in 0..(N - 1) : r[cw(k)] = t
  <2>1. PICK j \in 1..N : r[j] = t
    BY <1>2
  <2>2. CASE j >= i
    <3>1. j - i \in 0..(N - 1) /\ cw(j - i) = j
      BY <1>2, <1>4, <2>2
    <3> QED
      BY <2>1, <3>1
  <2>3. CASE j < i
    <3>1. j - i + N \in 0..(N - 1) /\ cw(j - i + N) = j
      BY <1>2, <1>4, <2>3
    <3> QED
      BY <2>1, <3>1
  <2>4. i \in Int /\ j \in Int
    BY <1>4
  <2> QED
    BY <2>2, <2>3, <2>4
<1> HIDE DEF cw
<1> QED
  BY <1>2, <1>3, <1>4, <1>5, <1>6, <1>8, <1>9 DEF i, N, r

\* Without nodes there are no tokens and the lookups say so (getPrimaryNode and
\* getBuddyNode return -1).
LEMMA EmptyRing ==
  /\ Sorted({}) = <<>>
  /\ \A pos : PrimaryNode(Sorted({}), pos) = -1 /\ BuddyNode(Sorted({}), pos) = -1
<1>1. Cardinality({}) = 0
  BY FS_EmptySet
<1>2. Sorted({}) = <<>>
  BY <1>1 DEF Sorted
<1> QED
  BY <1>2 DEF PrimaryNode, BuddyNode

\* getPrimaryNode() returns the node of the token nearest to the key.
LEMMA PrimaryIsOfNearest ==
  ASSUME NEW T, Tokened(T), NEW pos \in Position
  PROVE  /\ Sorted(T) # <<>>
         /\ \E t : Nearest(pos, t, T) /\ t.node_id = PrimaryNode(Sorted(T), pos)
<1> DEFINE r == Sorted(T)
           N == Cardinality(T)
           i == FindToken(r, pos)
           at(k) == r[Clockwise(r, i, k)]
<1>1. /\ N \in Nat \ {0} /\ i \in 1..N /\ at(0) = r[i]
      /\ \A k \in 0..(N - 1) : Clockwise(r, i, k) \in 1..N /\ at(k) \in T
      /\ \A k, l \in 0..(N - 1) : k < l => Nearer(pos, at(k), at(l))
      /\ \A t \in T : \E k \in 0..(N - 1) : at(k) = t
  BY ClockwiseOrder
<1>2. DOMAIN r = 1..N
  <2>1. T \in SUBSET [position : Int, node_id : Int] /\ IsFiniteSet(T)
    BY PositionFacts DEF Tokened
  <2> QED
    BY <2>1, SortedFacts
<1> HIDE DEF r, i, N, at
<1>3. r # <<>>
  BY <1>1, <1>2
<1>4. Nearest(pos, at(0), T)
  <2>1. 0 \in 0..(N - 1)
    BY <1>1
  <2>2. ASSUME NEW u \in T \ {at(0)} PROVE Nearer(pos, at(0), u)
    <3>1. PICK k \in 0..(N - 1) : at(k) = u
      BY <1>1
    <3>2. k # 0
      BY <3>1
    <3>3. 0 < k
      BY <1>1, <3>2
    <3> QED
      BY <1>1, <2>1, <3>1, <3>3
  <2> QED
    BY <1>1, <2>1, <2>2 DEF Nearest
<1>5. PrimaryNode(r, pos) = at(0).node_id
  BY <1>1, <1>3 DEF PrimaryNode, i
<1> QED
  BY <1>3, <1>4, <1>5 DEF r

\* getBuddyNode() returns the node of the nearest token that is not the primary's, or
\* the primary when no other node has a token.
LEMMA BuddyIsOfNearestOther ==
  ASSUME NEW T, Tokened(T), NEW pos \in Position
  PROVE  LET primary == PrimaryNode(Sorted(T), pos)
             buddy   == BuddyNode(Sorted(T), pos)
             others  == {t \in T : t.node_id # primary}
         IN  /\ others = {} => buddy = primary
             /\ others # {} => \E t : Nearest(pos, t, others) /\ t.node_id = buddy
<1> DEFINE r == Sorted(T)
           N == Cardinality(T)
           i == FindToken(r, pos)
           at(k) == r[Clockwise(r, i, k)]
           primary == PrimaryNode(r, pos)
           buddy == BuddyNode(r, pos)
           others == {t \in T : t.node_id # primary}
           steps == {k \in 1..(N - 1) : at(k).node_id # r[i].node_id}
<1>1. /\ N \in Nat \ {0} /\ i \in 1..N /\ at(0) = r[i]
      /\ \A k \in 0..(N - 1) : Clockwise(r, i, k) \in 1..N /\ at(k) \in T
      /\ \A k, l \in 0..(N - 1) : k < l => Nearer(pos, at(k), at(l))
      /\ \A t \in T : \E k \in 0..(N - 1) : at(k) = t
  BY ClockwiseOrder
<1>2. Len(r) = N /\ r # <<>>
  <2>1. T \in SUBSET [position : Int, node_id : Int] /\ IsFiniteSet(T)
    BY PositionFacts DEF Tokened
  <2>2. Len(r) = N
    BY <2>1, SortedFacts
  <2> QED
    BY <2>2, PrimaryIsOfNearest
<1>3. primary = r[i].node_id
  BY <1>2 DEF PrimaryNode
<1>4. buddy = IF steps = {} THEN primary ELSE at(Min(steps)).node_id
  BY <1>2, <1>3 DEF BuddyNode, NextNode
<1> HIDE DEF r, i, N, at, primary, buddy
<1>5. ASSUME NEW t \in others PROVE \E k \in steps : at(k) = t
  <2>1. PICK k \in 0..(N - 1) : at(k) = t
    BY <1>1
  <2>2. k # 0
    BY <1>1, <1>3, <2>1
  <2>3. k \in 1..(N - 1)
    BY <1>1, <2>2
  <2> QED
    BY <1>3, <2>1, <2>3
<1>6. \A k \in steps : at(k) \in others
  <2>1. \A k \in 1..(N - 1) : k \in 0..(N - 1)
    BY <1>1
  <2> QED
    BY <1>1, <1>3, <2>1
<1>7. CASE steps = {}
  BY <1>4, <1>5, <1>7 DEF r, primary, buddy
<1>8. CASE steps # {}
  <2>1. steps \in SUBSET Int /\ IsFiniteSet(steps)
    <3>1. IsFiniteSet(1..(N - 1))
      <4>1. 1 \in Int /\ N - 1 \in Int
        BY <1>1
      <4> QED
        BY <4>1, FS_Interval
    <3>2. steps \in SUBSET (1..(N - 1)) /\ steps \in SUBSET Int
      BY <1>1
    <3> HIDE DEF steps
    <3>3. IsFiniteSet(steps)
      BY <3>1, <3>2, FS_Subset
    <3> QED
      BY <3>2, <3>3
  <2>2. Min(steps) \in steps /\ \A k \in steps : Min(steps) <= k
    <3> HIDE DEF steps
    <3> QED
      BY <1>8, <2>1, MinFacts
  <2> DEFINE m == Min(steps)
  <2>3. \A k \in steps : k \in 0..(N - 1) /\ k \in Int
    BY <1>1
  <2>4. at(m) \in others /\ at(m).node_id = buddy
    BY <1>4, <1>6, <1>8, <2>2
  <2> HIDE DEF m, steps, others
  <2>5. ASSUME NEW u \in others \ {at(m)} PROVE Nearer(pos, at(m), u)
    <3>1. PICK k \in steps : at(k) = u
      BY <1>5
    <3>2. m \in steps /\ m <= k /\ m # k
      BY <2>2, <3>1 DEF m
    <3>3. m < k
      BY <2>3, <3>2
    <3> QED
      BY <1>1, <2>3, <3>1, <3>2, <3>3
  <2>6. Nearest(pos, at(m), others)
    BY <2>4, <2>5 DEF Nearest
  <2> QED
    BY <2>4, <2>6 DEF r, primary, buddy, others
<1> QED
  BY <1>7, <1>8

\* When a node's tokens go, the buddy takes over what it was primary of, and a key
\* keeps its buddy unless that was the node.  Read backwards, this is what happens when
\* the node joins.
LEMMA LookupWithout ==
  ASSUME NEW T, Tokened(T), NEW n, NEW S, S = {t \in T : t.node_id # n}, S # {},
         NEW pos \in Position
  PROVE  LET primary == PrimaryNode(Sorted(T), pos)
             buddy   == BuddyNode(Sorted(T), pos)
         IN  /\ PrimaryNode(Sorted(S), pos) = IF primary = n THEN buddy ELSE primary
             /\ n \notin {primary, buddy} => BuddyNode(Sorted(S), pos) = buddy
<1> DEFINE p == PrimaryNode(Sorted(T), pos)
           b == BuddyNode(Sorted(T), pos)
           q == PrimaryNode(Sorted(S), pos)
           c == BuddyNode(Sorted(S), pos)
           A == {t \in T : t.node_id # p}
           B == {t \in S : t.node_id # q}
<1>1. Tokened(S) /\ S \in SUBSET T
  <2>1. S \in SUBSET T
    OBVIOUS
  <2>2. IsFiniteSet(S)
    BY <2>1, FS_Subset DEF Tokened
  <2> QED
    BY <2>1, <2>2 DEF Tokened
<1>2. PICK t : Nearest(pos, t, T) /\ t.node_id = p
  BY PrimaryIsOfNearest
<1>3. PICK s : Nearest(pos, s, S) /\ s.node_id = q
  BY <1>1, PrimaryIsOfNearest
<1>4. /\ A = {} => b = p
      /\ A # {} => \E u : Nearest(pos, u, A) /\ u.node_id = b
  BY BuddyIsOfNearestOther
<1>5. /\ B = {} => c = q
      /\ B # {} => \E u : Nearest(pos, u, B) /\ u.node_id = c
  BY <1>1, BuddyIsOfNearestOther
<1>6. /\ S \in SUBSET [position : Position, node_id : Int]
      /\ B \in SUBSET [position : Position, node_id : Int]
  BY <1>1 DEF Tokened
<1> HIDE DEF p, b, q, c
<1>7. CASE p = n
  <2>1. A = S
    BY <1>7
  <2>2. PICK u : Nearest(pos, u, S) /\ u.node_id = b
    BY <1>4, <2>1
  <2>3. q = b
    BY <1>3, <1>6, <2>2, NearestUnique
  <2> QED
    BY <1>7, <2>3 DEF p, b, q, c
<1>8. CASE p # n
  <2>1. Nearest(pos, t, S)
    BY <1>1, <1>2, <1>8 DEF Nearest
  <2>2. q = p
    BY <1>2, <1>3, <1>6, <2>1, NearestUnique
  <2>3. B = {u \in A : u.node_id # n}
    BY <2>2
  <2>4. ASSUME b # n PROVE c = b
    <3>1. CASE A = {}
      BY <1>4, <1>5, <2>2, <2>3, <3>1
    <3>2. CASE A # {}
      <4>1. PICK u : Nearest(pos, u, A) /\ u.node_id = b
        BY <1>4, <3>2
      <4> HIDE DEF A, B
      <4>2. Nearest(pos, u, B)
        BY <2>3, <2>4, <4>1 DEF Nearest
      <4>3. PICK v : Nearest(pos, v, B) /\ v.node_id = c
        BY <1>5, <4>2 DEF Nearest
      <4>4. u = v
        BY <1>6, <4>2, <4>3, NearestUnique
      <4> QED
        BY <4>1, <4>3, <4>4
    <3> QED
      BY <3>1, <3>2
  <2> QED
    BY <1>8, <2>2, <2>4 DEF p, b, q, c
<1> QED
  BY <1>7, <1>8

-----------------------------------------------------------------------------
(* The ranges *)

\* The key of a position in a range of the i-th token finds that token, and no other
\* range of the token has the position.
LEMMA RangeOwner ==
  ASSUME NEW T, Tokened(T), NEW pos \in Position, NEW i \in 1..Cardinality(T),
         NEW x \in RangesOf(Sorted(T), i), InRange(pos, x)
  PROVE  /\ i = FindToken(Sorted(T), pos)
         /\ \A y \in RangesOf(Sorted(T), i) : InRange(pos, y) => y = x
<1> DEFINE r == Sorted(T)
           N == Cardinality(T)
           f == FindToken(r, pos)
           j == IF i = 1 THEN N ELSE i - 1
           s == r[j].position
           e == r[i].position
           start == (s + 1) % RingSize
           end == (e + 1) % RingSize
<1>1. T \in SUBSET [position : Int, node_id : Int] /\ IsFiniteSet(T) /\ T # {}
  BY PositionFacts DEF Tokened
<1>2. /\ N \in Nat /\ Len(r) = N /\ i \in 1..N
      /\ \A k \in 1..N : r[k] \in T
      /\ \A k, l \in 1..N : k < l => Before(r[k], r[l])
  BY <1>1, SortedFacts
<1>3. /\ f \in 1..N
      /\ \/ \A k \in 1..N : r[k].position >= pos <=> k >= f
         \/ f = 1 /\ \A k \in 1..N : r[k].position < pos
  BY FindTokenFacts
<1>4. \A k \in 1..N : r[k].position \in Position
  BY <1>2 DEF Tokened
<1> HIDE DEF r, N, f
<1>5. j \in 1..N /\ Clockwise(r, i, Len(r) - 1) = j
  <2>1. N - 1 \in 0..(N - 1) /\ N \in Nat \ {0}
    BY <1>2
  <2>2. Clockwise(r, i, N - 1) = IF i + (N - 1) <= N THEN i + (N - 1) ELSE i + (N - 1) - N
    BY <1>2, <2>1, ClockwiseFacts
  <2> QED
    BY <1>2, <2>2
<1>6. x \in Unwrapped(start, end, N) /\ RangesOf(r, i) = Unwrapped(start, end, N)
  BY <1>2, <1>5 DEF RangesOf, r
<1>7. /\ s \in Int /\ e \in Int /\ pos \in Int /\ 0 <= s /\ s < RingSize /\ 0 <= e /\ e < RingSize
      /\ 0 <= pos /\ pos < RingSize /\ RingSize \in Int /\ RingSize > 0
  <2>1. s \in Position /\ e \in Position
    BY <1>2, <1>4, <1>5
  <2> HIDE DEF s, e
  <2> QED
    BY <2>1, RingAssumption DEF Position
<1>8. /\ start = IF s + 1 < RingSize THEN s + 1 ELSE 0
      /\ end = IF e + 1 < RingSize THEN e + 1 ELSE 0
  <2> HIDE DEF s, e
  <2>1. \A a \in Int : 0 <= a /\ a < RingSize =>
          (a + 1) % RingSize = IF a + 1 < RingSize THEN a + 1 ELSE 0
    <3> TAKE a \in Int
    <3> SUFFICES ASSUME 0 <= a, a < RingSize
                 PROVE  (a + 1) % RingSize = IF a + 1 < RingSize THEN a + 1 ELSE 0
      OBVIOUS
    <3>1. CASE a + 1 < RingSize
      <4>1. a + 1 \in Position
        BY <1>7, <3>1 DEF Position
      <4> QED
        BY <3>1, <4>1, PositionFacts
    <3>2. CASE a + 1 = RingSize
      BY <1>7, <3>2
    <3> QED
      BY <1>7, <3>1, <3>2
  <2> QED
    BY <1>7, <2>1
<1>9. i # 1 => j < i /\ s <= e
  BY <1>2, <1>5, <1>7 DEF Before
<1>10. i = 1 => j >= i /\ (s >= e) /\ (N = 1 => s = e)
  <2>1. CASE i = 1 /\ N = 1
    BY <1>5, <1>7, <2>1
  <2>2. CASE i = 1 /\ N # 1
    BY <1>2, <1>5, <1>7, <2>2 DEF Before
  <2> QED
    BY <2>1, <2>2
<1> HIDE DEF s, e, start, end
<1>11. /\ \/ start < end /\ x = <<start, end>>
          \/ start > end /\ x = <<start, RingSize - 1>>
          \/ start > end /\ end > 0 /\ x = <<0, end>>
          \/ start = end /\ N = 1 /\ x = <<0, RingSize - 1>>
  BY <1>6, <1>7, <1>8 DEF Unwrapped
<1>12. x[1] <= pos /\ pos < x[2]
  BY DEF InRange
<1>13. \/ s < pos /\ pos <= e
       \/ i = 1 /\ pos <= e
       \/ i = 1 /\ s < pos
       \/ N = 1
  BY <1>7, <1>8, <1>9, <1>10, <1>11, <1>12
<1>14. f = i
  <2>1. s = r[j].position /\ e = r[i].position
    BY DEF s, e
  <2> HIDE DEF j
  <2>2. /\ f \in Int /\ i \in Int /\ j \in Int /\ N \in Int /\ 1 <= f /\ f <= N
        /\ 1 <= i /\ i <= N
        /\ i # 1 => j = i - 1
        /\ i = 1 => j = N
    BY <1>2, <1>3 DEF j
  <2> HIDE DEF j
  <2>3. \/ (s >= pos <=> j >= f) /\ (e >= pos <=> i >= f)
        \/ f = 1 /\ s < pos /\ e < pos
    BY <1>2, <1>3, <1>5, <2>1
  <2> QED
    BY <1>7, <1>9, <1>10, <1>13, <2>2, <2>3
<1>15. ASSUME NEW y \in RangesOf(r, i), InRange(pos, y) PROVE y = x
  <2>1. \/ start < end /\ y = <<start, end>>
        \/ start > end /\ y = <<start, RingSize - 1>>
        \/ start > end /\ end > 0 /\ y = <<0, end>>
        \/ start = end /\ N = 1 /\ y = <<0, RingSize - 1>>
    BY <1>6, <1>7, <1>8 DEF Unwrapped
  <2>2. y[1] <= pos /\ pos < y[2]
    BY <1>15 DEF InRange
  <2> QED
    BY <1>7, <1>8, <1>11, <1>12, <2>1, <2>2
<1> QED
  BY <1>14, <1>15 DEF r, f

=============================================================================
