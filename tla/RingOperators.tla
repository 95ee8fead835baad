---------------------------- MODULE RingOperators ----------------------------
(***************************************************************************)
(* The token ring of ConsistentHashRing.cpp as operators: how it is built  *)
(* from the live nodes and how a key's position is looked up in it.        *)
(*                                                                         *)
(* RingSize stands for 2^32.  The MurmurHash3 value of a node id is given  *)
(* by a function hash; a key is represented by the position it hashes to.  *)
(***************************************************************************)
EXTENDS Integers, Sequences, FiniteSets, FiniteSetsExt

CONSTANTS
  RingSize,      \* number of positions; unsigned arithmetic is modulo RingSize
  VirtualNodes   \* virtual_nodes_per_node_

ASSUME RingAssumption == RingSize \in Nat \ {0} /\ VirtualNodes \in Nat

Position == 0..(RingSize - 1)

\* Evaluated only when there are virtual nodes, as rebuild() returns early otherwise.
Interval == Max({1, RingSize \div VirtualNodes})

AnyTieOrder(a, b) ==               \* mutant: the comparator ignores the node id
  a.position < b.position \/ (a.position = b.position /\ a.node_id > b.node_id)

\* Tokens in ring order: by position, equal positions by node id.
Before(a, b) ==
  a.position < b.position \/ (a.position = b.position /\ a.node_id < b.node_id)

\* The tokens rebuild() makes.  Two tokens of one node at one position (more virtual
\* nodes than positions) are kept once: no lookup tells them apart.
TokenSet(hash, nodes) ==
  {[position |-> (hash[n] + v * Interval) % RingSize, node_id |-> n] :
     n \in nodes, v \in 0..(VirtualNodes - 1)}

\* ring_ after the sort: the i-th token has i - 1 tokens before it.
Sorted(tokens) ==
  [i \in 1..Cardinality(tokens) |->
     CHOOSE t \in tokens : Cardinality({u \in tokens : Before(u, t)}) = i - 1]

\* rebuild()
Tokens(hash, nodes) == Sorted(TokenSet(hash, nodes))

\* The k-th token clockwise from ring[i].
Clockwise(ring, i, k) == ((i + k - 1) % Len(ring)) + 1

FindTokenNoWrap(ring, pos) ==      \* mutant: past the last token the last one is taken
  LET found == {i \in DOMAIN ring : ring[i].position >= pos}
  IN IF found = {} THEN Len(ring) ELSE Min(found)

\* findToken(): std::lower_bound, and the first token when it is past the end.
FindToken(ring, pos) ==
  LET found == {i \in DOMAIN ring : ring[i].position >= pos}
  IN IF found = {} THEN 1 ELSE Min(found)

NextToken(ring, i) ==              \* mutant: virtual nodes of the same node count
  ring[Clockwise(ring, i, 1)].node_id

\* The first token after ring[i] of another node, else ring[i]'s own node.
NextNode(ring, i) ==
  LET others == {k \in 1..(Len(ring) - 1) :
                   ring[Clockwise(ring, i, k)].node_id # ring[i].node_id}
  IN IF others = {} THEN ring[i].node_id
     ELSE ring[Clockwise(ring, i, Min(others))].node_id

PrimaryNode(ring, pos) ==
  IF ring = <<>> THEN -1 ELSE ring[FindToken(ring, pos)].node_id

BuddyNode(ring, pos) ==
  IF ring = <<>> THEN -1 ELSE NextNode(ring, FindToken(ring, pos))

-----------------------------------------------------------------------------
(* getKeyRangeAssignments() and getKeyRanges() *)

\* [start, end) on a ring of n tokens, split where it wraps.  UINT32_MAX, here
\* RingSize - 1, is used as an exclusive end.
Unwrapped(start, end, n) ==
  IF start < end THEN {<<start, end>>}
  ELSE IF start > end
       THEN {<<start, RingSize - 1>>} \cup (IF end > 0 THEN {<<0, end>>} ELSE {})
  ELSE IF n = 1 THEN {<<0, RingSize - 1>>} ELSE {}

RangesFromPrevious(ring, i) ==     \* mutant: the previous token's position is included
  Unwrapped(ring[Clockwise(ring, i, Len(ring) - 1)].position,
            (ring[i].position + 1) % RingSize, Len(ring))

\* What ring[i] owns: the positions after the previous token up to its own.
RangesOf(ring, i) ==
  Unwrapped((ring[Clockwise(ring, i, Len(ring) - 1)].position + 1) % RingSize,
            (ring[i].position + 1) % RingSize, Len(ring))

KeyRangeAssignments(ring) ==
  UNION {{[range |-> r, primary |-> ring[i].node_id, buddy |-> NextNode(ring, i)] :
            r \in RangesOf(ring, i)} : i \in DOMAIN ring}

KeyRanges(ring, n) ==
  UNION {RangesOf(ring, i) : i \in {j \in DOMAIN ring : ring[j].node_id = n}}

InRange(pos, r) == r[1] <= pos /\ pos < r[2]

=============================================================================
