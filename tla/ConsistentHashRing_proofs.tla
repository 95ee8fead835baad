----------------------- MODULE ConsistentHashRing_proofs -----------------------
(***************************************************************************)
(* The ring of a server or a client, for every ring size, every number of  *)
(* virtual nodes, every finite set of nodes and every hash: lookups are    *)
(* right, a change of the live nodes moves only the keys it must, and the  *)
(* printed ranges agree with the lookups.                                  *)
(***************************************************************************)
EXTENDS ConsistentHashRing, RingOperators_proofs

\* What is inductive: the ring is the one rebuild() makes of the live nodes.
RingInv ==
  /\ hash \in [Node -> Position]
  /\ live \in SUBSET Node
  /\ ring = Tokens(hash, live)

-----------------------------------------------------------------------------
(* The tokens of the live nodes *)

\* The tokens of a set of nodes are a finite set the lemmas on lookups apply to.
LEMMA LiveTokens ==
  ASSUME NEW h \in [Node -> Position], NEW nodes \in SUBSET Node
  PROVE  LET T == TokenSet(h, nodes) IN
         /\ IsFiniteSet(nodes)
         /\ T \in SUBSET [position : Position, node_id : nodes]
         /\ T \in SUBSET [position : Position, node_id : Int]
         /\ T \in SUBSET [position : Int, node_id : Int]
         /\ IsFiniteSet(T)
         /\ T # {} => Tokened(T)
         /\ VirtualNodes > 0 => \A n \in nodes : \E t \in T : t.node_id = n
         /\ VirtualNodes = 0 => T = {}
         /\ nodes = {} => T = {}
         /\ \A t \in T : t.node_id \in nodes
<1> DEFINE T == TokenSet(h, nodes)
<1>1. IsFiniteSet(nodes) /\ nodes \subseteq Int /\ \A n \in nodes : h[n] \in Position
  <2>1. IsFiniteSet(nodes)
    BY NodeAssumption, FS_Subset
  <2>2. nodes \subseteq Int /\ \A n \in nodes : h[n] \in Position
    BY NodeAssumption
  <2> QED
    BY <2>1, <2>2
<1>2. /\ IsFiniteSet(T)
      /\ T \subseteq [position : Position, node_id : nodes]
      /\ VirtualNodes > 0 => \A n \in nodes : \E t \in T : t.node_id = n
      /\ VirtualNodes = 0 => T = {}
  BY <1>1, TokenSetFacts
<1> HIDE DEF T
<1>3. /\ T \in SUBSET [position : Position, node_id : Int]
      /\ T \in SUBSET [position : Int, node_id : Int]
      /\ \A t \in T : t.node_id \in nodes
  BY <1>1, <1>2, PositionFacts
<1> QED
  BY <1>1, <1>2, <1>3 DEF Tokened, T

-----------------------------------------------------------------------------
(* Type correctness and the inductive invariant *)

\* The ring object is always what rebuild() makes of the nodes it was last given.
LEMMA RingInvariant == Spec => []RingInv
<1>1. Init => RingInv
  <2> SUFFICES ASSUME Init PROVE RingInv
    OBVIOUS
  <2>1. TokenSet(hash, live) = {}
    BY LiveTokens DEF Init
  <2> QED
    BY <2>1, EmptyRing DEF Init, RingInv, Tokens
<1>2. RingInv /\ [Next]_vars => RingInv'
  BY DEF RingInv, Next, Rebuild, vars
<1> QED
  BY <1>1, <1>2, PTL DEF Spec

\* The ring is a sorted list of tokens of live nodes (rebuild).
THEOREM TypeCorrect == Spec => []TypeOK
<1>1. RingInv => TypeOK
  <2> SUFFICES ASSUME RingInv PROVE TypeOK
    OBVIOUS
  <2> DEFINE T == TokenSet(hash, live)
             Ts == [position : Position, node_id : live]
  <2>1. /\ T \in SUBSET Ts
        /\ T \in SUBSET [position : Int, node_id : Int]
        /\ IsFiniteSet(T)
    BY LiveTokens DEF RingInv
  <2> HIDE DEF T, Ts
  <2>2. Sorted(T) \in Seq(T)
    BY <2>1, SortedFacts
  <2>3. Sorted(T) \in Seq(Ts)
    BY <2>1, <2>2
  <2> QED
    BY <2>3 DEF TypeOK, RingInv, Tokens, T, Ts
<1> QED
  BY <1>1, RingInvariant, PTL

-----------------------------------------------------------------------------
(* Lookups *)

\* getPrimaryNode() finds the nearest token clockwise, whatever the hashes are.
THEOREM PrimaryCorrect == Spec => []PrimaryIsNearest
<1>1. RingInv => PrimaryIsNearest
  <2> DEFINE T == TokenSet(hash, live)
  <2> SUFFICES ASSUME RingInv, T # {}, NEW pos \in Position
               PROVE  \E t \in T :
                        /\ t.node_id = Primary(pos)
                        /\ \A u \in T : \/ Distance(pos, t) < Distance(pos, u)
                                        \/ /\ Distance(pos, t) = Distance(pos, u)
                                           /\ t.node_id <= u.node_id
    BY DEF PrimaryIsNearest
  <2>1. Tokened(T) /\ ring = Sorted(T)
    BY LiveTokens DEF RingInv, Tokens
  <2> HIDE DEF T
  <2>2. PICK t : Nearest(pos, t, T) /\ t.node_id = Primary(pos)
    BY <2>1, PrimaryIsOfNearest DEF Primary
  <2>3. t \in T /\ t.node_id \in Int /\ \A u \in T : u.node_id \in Int
    BY <2>1, <2>2 DEF Nearest, Tokened
  <2>4. ASSUME NEW u \in T
        PROVE  \/ Distance(pos, t) < Distance(pos, u)
               \/ Distance(pos, t) = Distance(pos, u) /\ t.node_id <= u.node_id
    <3>1. CASE u = t
      BY <2>3, <3>1
    <3>2. CASE u # t
      <4>1. Nearer(pos, t, u)
        BY <2>2, <3>2 DEF Nearest
      <4> QED
        BY <2>3, <4>1 DEF Nearer, Away, Distance
    <3> QED
      BY <3>1, <3>2
  <2> QED
    BY <2>2, <2>3, <2>4
<1> QED
  BY <1>1, RingInvariant, PTL

\* getBuddyNode() returns a second live node whenever there is one.
THEOREM BuddyCorrect == Spec => []BuddyIsSecondNode
<1>1. RingInv => BuddyIsSecondNode
  <2> DEFINE T == TokenSet(hash, live)
  <2> SUFFICES ASSUME RingInv, VirtualNodes > 0, NEW pos \in Position
               PROVE  CASE live = {} -> Primary(pos) = -1 /\ Buddy(pos) = -1
                        [] Cardinality(live) = 1 ->
                             Primary(pos) \in live /\ Buddy(pos) = Primary(pos)
                        [] OTHER ->
                             Primary(pos) \in live /\ Buddy(pos) \in live \ {Primary(pos)}
    BY DEF BuddyIsSecondNode
  <2>1. /\ ring = Sorted(T)
        /\ IsFiniteSet(live)
        /\ T # {} => Tokened(T)
        /\ \A n \in live : \E t \in T : t.node_id = n
        /\ live = {} => T = {}
        /\ \A t \in T : t.node_id \in live
    BY LiveTokens DEF RingInv, Tokens
  <2> HIDE DEF T
  <2>2. CASE live = {}
    <3>1. T = {} /\ Cardinality(live) # 1
      BY <2>1, <2>2, FS_EmptySet
    <3>2. Primary(pos) = -1 /\ Buddy(pos) = -1
      BY <2>1, <3>1, EmptyRing DEF Primary, Buddy
    <3> QED
      BY <2>2, <3>1, <3>2
  <2>3. CASE live # {}
    <3> DEFINE others == {t \in T : t.node_id # Primary(pos)}
    <3>1. Tokened(T)
      BY <2>1, <2>3
    <3>2. PICK t : Nearest(pos, t, T) /\ t.node_id = Primary(pos)
      BY <2>1, <3>1, PrimaryIsOfNearest DEF Primary
    <3>3. Primary(pos) \in live
      BY <2>1, <3>2 DEF Nearest
    <3>4. /\ others = {} => Buddy(pos) = Primary(pos)
          /\ others # {} => \E u : Nearest(pos, u, others) /\ u.node_id = Buddy(pos)
      BY <2>1, <3>1, BuddyIsOfNearestOther DEF Primary, Buddy
    <3>5. CASE Cardinality(live) = 1
      <4>1. \A m \in live : m = Primary(pos)
        BY <2>1, <3>3, <3>5, FS_Singleton
      <4>2. others = {}
        BY <2>1, <4>1
      <4> QED
        BY <2>3, <3>3, <3>4, <3>5, <4>2
    <3>6. CASE Cardinality(live) # 1
      <4>1. \E m \in live : m # Primary(pos)
        <5> SUFFICES ASSUME \A m \in live : m = Primary(pos) PROVE FALSE
          OBVIOUS
        <5>1. live = {Primary(pos)}
          BY <3>3
        <5> QED
          BY <3>6, <5>1, FS_Singleton
      <4>2. others # {}
        BY <2>1, <4>1
      <4>3. Buddy(pos) \in live \ {Primary(pos)}
        BY <2>1, <3>4, <4>2 DEF Nearest
      <4> QED
        BY <2>3, <3>3, <3>6, <4>3
    <3> QED
      BY <3>5, <3>6
  <2> QED
    BY <2>2, <2>3
<1> QED
  BY <1>1, RingInvariant, PTL

-----------------------------------------------------------------------------
(* Changes of the live nodes *)

\* What a node's leaving does to the lookups, in the ring with it and the one without.
LEMMA NodeGone ==
  ASSUME NEW h \in [Node -> Position], NEW nodes \in SUBSET Node, NEW n \in nodes,
         nodes \ {n} # {}, NEW pos \in Position
  PROVE  LET r == Tokens(h, nodes)
             s == Tokens(h, nodes \ {n})
         IN  /\ PrimaryNode(s, pos) =
                  IF PrimaryNode(r, pos) = n THEN BuddyNode(r, pos) ELSE PrimaryNode(r, pos)
             /\ n \notin {PrimaryNode(r, pos), BuddyNode(r, pos)} =>
                  BuddyNode(s, pos) = BuddyNode(r, pos)
<1> DEFINE T == TokenSet(h, nodes)
           S == TokenSet(h, nodes \ {n})
<1>1. /\ S = {t \in T : t.node_id # n}
      /\ T # {} => Tokened(T)
      /\ VirtualNodes = 0 => T = {}
  BY TokenSetChange, LiveTokens
<1>2. VirtualNodes > 0 => S # {}
  <2>1. nodes \ {n} \in SUBSET Node
    OBVIOUS
  <2> QED
    BY <2>1, LiveTokens
<1>3. n # -1
  BY NodeAssumption
<1> HIDE DEF T, S
<1>4. CASE VirtualNodes = 0
  <2>1. T = {} /\ S = {}
    BY <1>1, <1>4
  <2> QED
    BY <1>3, <2>1, EmptyRing DEF Tokens, T, S
<1>5. CASE VirtualNodes > 0
  BY <1>1, <1>2, <1>5, LookupWithout DEF Tokens, T, S
<1> QED
  BY <1>4, <1>5, RingAssumption

\* A node that leaves hands its keys to their buddies and disturbs no other lookup
\* (rebuild after a node left).
THEOREM LeaveCorrect == Spec => LeavePromotesBuddy
<1> DEFINE Promotes ==
      \A n \in live : live' = live \ {n} /\ live' # {} => \A pos \in Position :
        /\ Primary(pos)' = IF Primary(pos) = n THEN Buddy(pos) ELSE Primary(pos)
        /\ n \notin {Primary(pos), Buddy(pos)} => Buddy(pos)' = Buddy(pos)
<1>1. RingInv /\ [Next]_vars => [Promotes]_vars
  <2> SUFFICES ASSUME RingInv, Next, NEW n \in live, live' = live \ {n}, live' # {},
                      NEW pos \in Position
               PROVE  /\ Primary(pos)' = IF Primary(pos) = n THEN Buddy(pos) ELSE Primary(pos)
                      /\ n \notin {Primary(pos), Buddy(pos)} => Buddy(pos)' = Buddy(pos)
    OBVIOUS
  <2>1. /\ ring = Tokens(hash, live) /\ ring' = Tokens(hash, live \ {n})
        /\ hash \in [Node -> Position] /\ live \in SUBSET Node
    BY DEF RingInv, Next, Rebuild
  <2> QED
    BY <2>1, NodeGone DEF Primary, Buddy
<1> QED
  BY <1>1, RingInvariant, PTL DEF Spec, LeavePromotesBuddy

\* A node that joins takes keys from their primaries, which become the buddies, and moves
\* no key between the others (rebuild after a node joined).
THEOREM JoinCorrect == Spec => JoinDemotesToBuddy
<1> DEFINE Demotes ==
      \A n \in Node \ live : live' = live \cup {n} /\ live # {} => \A pos \in Position :
        /\ Primary(pos)' \in {Primary(pos), n}
        /\ Primary(pos)' = n => Buddy(pos)' = Primary(pos)
<1>1. RingInv /\ [Next]_vars => [Demotes]_vars
  <2> SUFFICES ASSUME RingInv, Next, NEW n \in Node \ live, live' = live \cup {n}, live # {},
                      NEW pos \in Position
               PROVE  /\ Primary(pos)' \in {Primary(pos), n}
                      /\ Primary(pos)' = n => Buddy(pos)' = Primary(pos)
    OBVIOUS
  <2>1. /\ ring = Tokens(hash, live) /\ ring' = Tokens(hash, live \cup {n})
        /\ hash \in [Node -> Position] /\ live \in SUBSET Node
    BY DEF RingInv, Next, Rebuild
  <2>2. /\ live \cup {n} \in SUBSET Node /\ n \in live \cup {n}
        /\ (live \cup {n}) \ {n} = live
    BY <2>1
  <2>3. Primary(pos) = IF Primary(pos)' = n THEN Buddy(pos)' ELSE Primary(pos)'
    BY <2>1, <2>2, NodeGone DEF Primary, Buddy
  <2> QED
    BY <2>3
<1> QED
  BY <1>1, RingInvariant, PTL DEF Spec, JoinDemotesToBuddy

-----------------------------------------------------------------------------
(* The printed ranges *)

\* No position is in two printed ranges, and the range it is in names the nodes the
\* lookups return (getKeyRangeAssignments, getKeyRanges).
THEOREM RangesCorrect == Spec => []RangesAgree
<1>1. RingInv => RangesAgree
  <2> SUFFICES ASSUME RingInv PROVE RangesAgree
    OBVIOUS
  <2> DEFINE T == TokenSet(hash, live)
             N == Cardinality(T)
             all == KeyRangeAssignments(ring)
             of(i, r) == [range |-> r, primary |-> ring[i].node_id, buddy |-> NextNode(ring, i)]
  <2>1. /\ ring = Sorted(T)
        /\ DOMAIN ring = 1..N
        /\ T # {} => Tokened(T)
        /\ T = {} => DOMAIN ring = {}
    <3>1. T = {} => Sorted(T) = <<>>
      BY EmptyRing
    <3> QED
      BY <3>1, LiveTokens, SortedFacts DEF RingInv, Tokens
  <2>2. \A a : a \in all <=> \E i \in DOMAIN ring : \E r \in RangesOf(ring, i) : a = of(i, r)
    BY DEF KeyRangeAssignments
  <2> HIDE DEF T, N, all
  <2>3. ASSUME NEW pos \in Position, NEW i \in DOMAIN ring, NEW r \in RangesOf(ring, i),
               InRange(pos, r)
        PROVE  /\ i = FindToken(ring, pos) /\ ring # <<>>
               /\ \A q \in RangesOf(ring, i) : InRange(pos, q) => q = r
    <3>1. Tokened(T) /\ i \in 1..Cardinality(T)
      BY <2>1, <2>3 DEF N
    <3> QED
      BY <2>1, <2>3, <3>1, RangeOwner, PrimaryIsOfNearest
  <2>4. ASSUME NEW pos \in Position
        PROVE  LET over == {a \in all : InRange(pos, a.range)} IN
               /\ Cardinality(over) <= 1
               /\ \A a \in over : a.primary = Primary(pos) /\ a.buddy = Buddy(pos)
    <3> DEFINE over == {a \in all : InRange(pos, a.range)}
    <3>1. ASSUME NEW a \in over
          PROVE  /\ a.primary = Primary(pos) /\ a.buddy = Buddy(pos)
                 /\ \A b \in over : b = a
      <4>1. PICK i \in DOMAIN ring : \E r \in RangesOf(ring, i) : a = of(i, r)
        BY <2>2
      <4> PICK r \in RangesOf(ring, i) : a = of(i, r)
        BY <4>1
      <4>2. InRange(pos, r) /\ a.primary = ring[i].node_id /\ a.buddy = NextNode(ring, i)
        OBVIOUS
      <4>3. i = FindToken(ring, pos) /\ ring # <<>>
        BY <2>3, <4>2
      <4>4. ASSUME NEW b \in over PROVE b = a
        <5>1. PICK j \in DOMAIN ring : \E q \in RangesOf(ring, j) : b = of(j, q)
          BY <2>2
        <5>2. PICK q \in RangesOf(ring, j) : b = of(j, q)
          BY <5>1
        <5>3. InRange(pos, q)
          BY <5>2
        <5>4. j = i
          BY <2>3, <4>3, <5>3
        <5>5. q = r
          BY <2>3, <4>2, <5>3, <5>4
        <5> QED
          BY <5>2, <5>4, <5>5
      <4> QED
        BY <4>2, <4>3, <4>4 DEF Primary, Buddy, PrimaryNode, BuddyNode
    <3> HIDE DEF over
    <3>2. Cardinality(over) <= 1
      <4>1. CASE over = {}
        BY <4>1, FS_EmptySet
      <4>2. CASE over # {}
        <5>1. PICK a : a \in over
          BY <4>2
        <5>2. over = {a}
          BY <3>1, <5>1
        <5>3. Cardinality(over) = 1
          BY <5>2, FS_Singleton
        <5> QED
          BY <5>3
      <4> QED
        BY <4>1, <4>2
    <3> QED
      BY <3>1, <3>2 DEF over
  <2>5. ASSUME NEW n \in live
        PROVE  KeyRanges(ring, n) = {a.range : a \in {b \in all : b.primary = n}}
    <3>1. \A r : r \in KeyRanges(ring, n) <=>
                   \E i \in DOMAIN ring : ring[i].node_id = n /\ r \in RangesOf(ring, i)
      BY DEF KeyRanges
    <3>2. ASSUME NEW r
          PROVE  (r \in {a.range : a \in {b \in all : b.primary = n}}) <=>
                   \E i \in DOMAIN ring : ring[i].node_id = n /\ r \in RangesOf(ring, i)
      <4>1. ASSUME NEW i \in DOMAIN ring, ring[i].node_id = n, r \in RangesOf(ring, i)
            PROVE  of(i, r) \in all /\ of(i, r).primary = n /\ of(i, r).range = r
        BY <2>2, <4>1
      <4>2. ASSUME NEW a \in all, a.primary = n, a.range = r
            PROVE  \E i \in DOMAIN ring : ring[i].node_id = n /\ r \in RangesOf(ring, i)
        BY <2>2, <4>2
      <4> HIDE DEF of
      <4> QED
        BY <4>1, <4>2
    <3> QED
      BY <3>1, <3>2
  <2> QED
    BY <2>4, <2>5 DEF RangesAgree, all
<1> QED
  BY <1>1, RingInvariant, PTL

=============================================================================
