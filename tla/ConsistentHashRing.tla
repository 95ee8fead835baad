------------------------- MODULE ConsistentHashRing -------------------------
(***************************************************************************)
(* A ConsistentHashRing object: rebuilt by the membership callback of a    *)
(* server (main_server.cpp) and by rebuildRing() of a client               *)
(* (KVDistributor.cpp) from whatever set of nodes is live, and read by     *)
(* getPrimaryNode, getBuddyNode, getKeyRangeAssignments and getKeyRanges.  *)
(* The hash of the node ids is any function into the positions.            *)
(***************************************************************************)
EXTENDS RingOperators

CONSTANT Node   \* node ids

ASSUME NodeAssumption == Node \subseteq Nat /\ IsFiniteSet(Node)

VARIABLES
  hash,   \* hashNodeId, chosen once
  live,   \* the keys of node_endpoints at the last rebuild
  ring    \* ring_

vars == <<hash, live, ring>>

Token == [position : Position, node_id : Node]

Init ==
  /\ hash \in [Node -> Position]
  /\ live = {}
  /\ ring = <<>>

AddToRing(nodes) ==                \* mutant: ring_.clear() is forgotten
  /\ live' = nodes
  /\ ring' = Tokens(hash, live \cup nodes)
  /\ UNCHANGED hash

\* The parameter is the set live': a rebuild that changes nothing is a stutter.
Rebuild(nodes) ==
  /\ live' = nodes
  /\ ring' = Tokens(hash, nodes)
  /\ UNCHANGED hash

Next == \E nodes \in SUBSET Node : Rebuild(nodes)

Spec == Init /\ [][Next]_vars

-----------------------------------------------------------------------------
(* Properties *)

\* The ring is a sorted list of tokens of the live nodes.
TypeOK ==
  /\ hash \in [Node -> Position]
  /\ live \in SUBSET Node
  /\ ring \in Seq([position : Position, node_id : live])

Primary(pos) == PrimaryNode(ring, pos)
Buddy(pos) == BuddyNode(ring, pos)

\* Positions from pos clockwise to token t.
Distance(pos, t) == (t.position - pos) % RingSize

\* getPrimaryNode() against its definition: the primary has a token nearest to the
\* key clockwise, across the wrap, and at equal positions the lower node id wins
\* (findToken, rebuild).  The definition knows nothing of sorting and searching.
PrimaryIsNearest ==
  LET all == TokenSet(hash, live) IN
  all # {} => \A pos \in Position : \E t \in all :
     /\ t.node_id = Primary(pos)
     /\ \A u \in all : \/ Distance(pos, t) < Distance(pos, u)
                       \/ Distance(pos, t) = Distance(pos, u) /\ t.node_id <= u.node_id

\* Replication has a second copy whenever it can: with two live nodes or more the
\* buddy is a live node other than the primary, whatever the hashes collide on; with
\* one it is the primary (getBuddyNode, and KVDistributor's test for it).
BuddyIsSecondNode ==
  VirtualNodes > 0 => \A pos \in Position :
    CASE live = {} -> Primary(pos) = -1 /\ Buddy(pos) = -1
      [] Cardinality(live) = 1 -> Primary(pos) \in live /\ Buddy(pos) = Primary(pos)
      [] OTHER -> Primary(pos) \in live /\ Buddy(pos) \in live \ {Primary(pos)}

\* The ranges that are printed and the lookups that are made agree: no position lies
\* in a range assigned to another primary or buddy, or in two of them, and a node's
\* own list is what it is primary of (getKeyRangeAssignments and getKeyRanges against
\* getPrimaryNode and getBuddyNode).
RangesAgree ==
  \A pos \in Position :
     LET over == {a \in KeyRangeAssignments(ring) : InRange(pos, a.range)} IN
     /\ Cardinality(over) <= 1
     /\ \A a \in over : a.primary = Primary(pos) /\ a.buddy = Buddy(pos)
     /\ \A n \in live : KeyRanges(ring, n) =
          {a.range : a \in {b \in KeyRangeAssignments(ring) : b.primary = n}}

\* A node that leaves hands every key it was primary of to the key's buddy, which
\* holds the second copy; no other key changes its primary, and a key keeps its
\* buddy unless that is the node that left.
LeavePromotesBuddy ==
  [][\A n \in live : live' = live \ {n} /\ live' # {} => \A pos \in Position :
       /\ Primary(pos)' = IF Primary(pos) = n THEN Buddy(pos) ELSE Primary(pos)
       /\ n \notin {Primary(pos), Buddy(pos)} => Buddy(pos)' = Buddy(pos)]_vars

\* A node that joins takes keys over and moves none between the others: a key's new
\* primary is the old one or the joiner, and when it is the joiner the old primary,
\* where the value is, becomes the buddy - the node get() falls back to.
JoinDemotesToBuddy ==
  [][\A n \in Node \ live : live' = live \cup {n} /\ live # {} => \A pos \in Position :
       /\ Primary(pos)' \in {Primary(pos), n}
       /\ Primary(pos)' = n => Buddy(pos)' = Primary(pos)]_vars

\* "Represent as half-open ranges [start, end)" (ConsistentHashRing.cpp:174): the
\* ranges cover every position of a ring that has tokens.
RangesCover ==
  ring # <<>> => \A pos \in Position :
    \E a \in KeyRangeAssignments(ring) : InRange(pos, a.range)

=============================================================================
