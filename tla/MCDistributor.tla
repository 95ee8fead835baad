---------------------------- MODULE MCDistributor ----------------------------
EXTENDS KVDistributor, TLC
CONSTANTS c1, c2, k1, k2, v1, v2

\* A ring of 4 positions with one token per node, node n at position n.
MCNodePos == [n \in Node |-> n]

\* With nodes 0, 1 and 2: k1 has primary 2 and buddy 0, k2 has 1 and 2.
\* With nodes 0 and 1: k1 has primary 0 and buddy 1, k2 has 1 and 0.
MCKeyPos == [k \in Key |-> CASE k = k1 -> 2 [] k = k2 -> 1]

\* What one client may be told: ops on keys, with some values.
Gives(c, ops, keys, vals) ==
  {o \in Order : /\ o.client = c /\ o.op \in ops /\ o.key \in keys
                 /\ o.val \in IF o.op \in {"insert", "update"} THEN vals ELSE {Missing}}

Everything == Gives(c1, Op, {k1}, {v1, v2})
Reads == Gives(c2, {"get"}, {k1}, {})
InsertOnce == Gives(c1, {"insert"}, {k1}, {v1})
Upserts == Gives(c1, {"insert", "update"}, {k1}, {v1, v2})

Quietly == [configured |-> {0, 1, 2}, answers |-> {}, mayCrash |-> {},
            mayRestart |-> FALSE, slow |-> FALSE, missLike |-> {},
            local |-> [c \in Client |-> -1], load |-> Everything]

Slow == [Quietly EXCEPT !.slow = TRUE, !.missLike = {v2}]
JoinOf2 == [Quietly EXCEPT !.configured = {0, 1}, !.answers = {{0, 1, 2}}]

\* n may die, and a server may take it for dead, rightly or not.
LossOf(n) == [Quietly EXCEPT !.answers = {{0, 1, 2} \ {n}}, !.mayCrash = {n}]

\* ... and it may be started again, empty, in and out of the ring.
LossAndReturnOf(n) ==
  [LossOf(n) EXCEPT !.answers = @ \cup {{0, 1, 2}}, !.mayRestart = TRUE]

\* One client, a ring that stays: the two stores of a key are one map.
Steady ==
  LET alone == [Quietly EXCEPT !.load = Gives(c1, Op, {k1, k2}, {v1, v2})] IN
  {alone, [alone EXCEPT !.configured = {0, 1}, !.local = [c \in Client |-> 0]]}

\* One client while servers are slow, join, are lost or return.
Changing ==
  {Slow, JoinOf2} \cup {LossOf(n) : n \in {0, 2}}
    \cup {[LossAndReturnOf(n) EXCEPT !.load = Gives(c1, Op, {k1}, {v1})] : n \in {0, 2}}

\* Two clients, one writes and the other reads: a node may die, or be slow, or the
\* clients' rings may differ.
Shared ==
  {[Quietly EXCEPT !.mayCrash = {n}, !.load = Upserts \cup Reads] : n \in {0, 2}}
    \cup {[Slow EXCEPT !.load = InsertOnce \cup Reads],
          [JoinOf2 EXCEPT !.load = InsertOnce \cup Gives(c1, {"update"}, {k1}, {v2}) \cup Reads]}
    \cup {[LossAndReturnOf(n) EXCEPT !.load = InsertOnce \cup Reads] : n \in {0, 2}}

\* ... and one value looks like an error.
Illegible == {[Quietly EXCEPT !.mayCrash = {2}, !.missLike = {v2}, !.load = Upserts \cup Reads]}

\* ... both write.
Rivals == {[Quietly EXCEPT !.load = Upserts \cup Gives(c2, {"insert", "get"}, {k1}, {v1, v2})]}

\* Node 0 is local to the client that writes, or to the one that reads.
Local ==
  {[Quietly EXCEPT !.configured = {0, 1}, !.mayCrash = {1}, !.load = Upserts \cup Reads,
      !.local = [c \in Client |-> IF c = d THEN 0 ELSE -1]] : d \in {c1, c2}}

\* One client, whose own node's server dies and leaves the segment to it.
Abandoned == {[Quietly EXCEPT !.configured = {0, 1}, !.answers = {{1}}, !.mayCrash = {0},
                        !.local = [c \in Client |-> 0]]}

AllChanges == Steady \cup Changing \cup Shared \cup Illegible \cup Rivals \cup Local \cup Abandoned

TwoMayDie == {[Quietly EXCEPT !.configured = {0, 1}, !.mayCrash = {0, 1},
                        !.load = InsertOnce]}

\* A client deletes what another one reads.
Deleting ==
  {[Quietly EXCEPT !.load = Gives(c1, {"insert", "delete"}, {k1}, {v1}) \cup Reads]}
=============================================================================
