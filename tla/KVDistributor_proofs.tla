------------------------- MODULE KVDistributor_proofs -------------------------
(***************************************************************************)
(* Proofs about the clients of module KVDistributor, for every set of      *)
(* clients, nodes, keys, values and environments, every placement the ring *)
(* can make and every length of a connection.                              *)
(***************************************************************************)
EXTENDS KVDistributor, RingOperators_proofs

Held == Value \cup {Missing}

\* What the assumptions say of an environment.
LEMMA EnvironmentFacts ==
  ASSUME NEW e \in Environments
  PROVE  /\ e \in Environment
         /\ e.configured \in (SUBSET Node) \ {{}} /\ e.answers \subseteq (SUBSET Node) \ {{}}
         /\ e.local \in [Client -> Node \cup {-1}] /\ e.load \subseteq Order
<1>1. e \in Environment
  BY KVAssumption
<1> QED
  BY <1>1 DEF Environment

\* Every ring of a client places every key on nodes of the ring.
LEMMA PlacementFacts ==
  ASSUME NEW nodes \in (SUBSET Node) \ {{}}, NEW k \in Key
  PROVE  /\ Placement[nodes][k].primary \in nodes
         /\ Placement[nodes][k].buddy \in nodes
<1> DEFINE T == TokenSet(NodePos, nodes)
           ring == Sorted(T)
           pos == KeyPos[k]
           others == {t \in T : t.node_id # PrimaryNode(ring, pos)}
<1>1. /\ Placement[nodes][k].primary = PrimaryNode(ring, pos)
      /\ Placement[nodes][k].buddy = BuddyNode(ring, pos)
  BY DEF Placement, Tokens
<1>2. pos \in Position /\ \A n \in nodes : NodePos[n] \in Position
  BY KVAssumption
<1>3. IsFiniteSet(nodes) /\ nodes \subseteq Int /\ nodes # {} /\ VirtualNodes > 0
  <2>1. IsFiniteSet(nodes)
    BY KVAssumption, FS_Subset
  <2>2. nodes \subseteq Int /\ VirtualNodes > 0
    BY KVAssumption
  <2> QED
    BY <2>1, <2>2
<1>4. /\ IsFiniteSet(T) /\ T \subseteq [position : Position, node_id : nodes]
      /\ \A n \in nodes : \E t \in T : t.node_id = n
  BY <1>2, <1>3, TokenSetFacts
<1> HIDE DEF T, pos
<1>5. Tokened(T) /\ \A t \in T : t.node_id \in nodes
  BY <1>3, <1>4 DEF Tokened
<1>6. PrimaryNode(ring, pos) \in nodes
  BY <1>2, <1>5, PrimaryIsOfNearest DEF Nearest
<1>7. BuddyNode(ring, pos) \in nodes
  BY <1>2, <1>5, <1>6, BuddyIsOfNearestOther DEF Nearest
<1> QED
  BY <1>1, <1>6, <1>7

\* An operation keeps the type of the map.
LEMMA AfterType ==
  ASSUME NEW m \in [Key -> Held], NEW op, NEW k \in Key, NEW v \in Held
  PROVE  Map!After(m, op, k, v) \in [Key -> Held]
BY DEF Map!After, Held

-----------------------------------------------------------------------------
(* Type correctness *)

\* What a client that is idle, or is not, has for a command, and where it sends.
LEMMA CommandFacts ==
  ASSUME TypeOK, NEW c \in Client
  PROVE  /\ Idle(c) => /\ \E r \in Held \cup {Failed} : cmd[c] = Resting(r)
                       /\ cmd[c].rpc = "none"
         /\ ~Idle(c) => /\ cmd[c] \in Cmd
                        /\ RequestOf(c) \in Request
                        /\ Primary(c, cmd[c].key) \in Node
                        /\ Buddy(c, cmd[c].key) \in Node
                        /\ Target(c) \in Node
<1>1. cmd[c] \in Cmd \cup {Resting(r) : r \in Held \cup {Failed}}
  BY DEF TypeOK, Held
<1>2. ASSUME NEW r PROVE Resting(r).at = "idle" /\ Resting(r).rpc = "none"
  BY DEF Resting
<1>3. Idle(c) => \E r \in Held \cup {Failed} : cmd[c] = Resting(r)
  BY <1>1 DEF Idle, Cmd
<1>4. Idle(c) => cmd[c].rpc = "none"
  BY <1>2, <1>3
<1>5. ASSUME ~Idle(c)
      PROVE  /\ cmd[c] \in Cmd
             /\ RequestOf(c) \in Request
             /\ Primary(c, cmd[c].key) \in Node
             /\ Buddy(c, cmd[c].key) \in Node
             /\ Target(c) \in Node
  <2>1. cmd[c] \in Cmd
    BY <1>1, <1>2, <1>5 DEF Idle
  <2>2. cmd[c].key \in Key /\ cmd[c].op \in Op /\ cmd[c].val \in Held
    BY <2>1 DEF Cmd, Held
  <2>3. RequestOf(c) \in Request
    BY <2>2 DEF RequestOf, Request, Op, Writes, Held
  <2>4. view[c] \in (SUBSET Node) \ {{}} /\ place[c] = Placement[view[c]]
    BY DEF TypeOK
  <2>5. Primary(c, cmd[c].key) \in Node /\ Buddy(c, cmd[c].key) \in Node
    BY <2>2, <2>4, PlacementFacts DEF Primary, Buddy
  <2> QED
    BY <2>1, <2>3, <2>5 DEF Target
<1> QED
  BY <1>3, <1>4, <1>5

\* Types hold at the start.
LEMMA InitType == Init => TypeOK
<1> SUFFICES ASSUME Init PROVE TypeOK
  OBVIOUS
<1>1. env.configured \in (SUBSET Node) \ {{}}
  BY EnvironmentFacts DEF Init
<1> QED
  BY <1>1, KVAssumption DEF Init, TypeOK, Empty, Resting

\* The client goes on: a value it migrates or returns is no error.
LEMMA ContinueType ==
  ASSUME TypeOK, NEW c \in Client, ~Idle(c), NEW reply \in Held \cup {Failed},
         Continue(c, reply)
  PROVE  TypeOK'
<1>1. cmd[c] \in Cmd /\ cmd[c].key \in Key /\ cmd[c].op \in Op /\ cmd[c].val \in Held
  BY CommandFacts DEF Cmd, Held
<1>2. UNCHANGED <<env, up, store, view, place, news, wire>>
  BY DEF Continue
<1>3. ASSUME NEW result \in Held \cup {Failed}, Finish(c, result)
      PROVE  /\ cmd' \in [Client -> Cmd \cup {Resting(r) : r \in Held \cup {Failed}}]
             /\ expect' \in [Key -> Held]
             /\ fresh' \in [Client -> SUBSET Held]
  BY <1>1, <1>3, AfterType DEF Finish, TypeOK, Held
<1>4. ASSUME NEW at \in {"buddy", "migrate"}, NEW v \in Held, Proceed(c, at, v),
             UNCHANGED <<expect, fresh>>
      PROVE  /\ cmd' \in [Client -> Cmd \cup {Resting(r) : r \in Held \cup {Failed}}]
             /\ expect' \in [Key -> Held]
             /\ fresh' \in [Client -> SUBSET Held]
  <2>1. [cmd[c] EXCEPT !.at = at, !.val = v, !.rpc = "none", !.reply = Missing] \in Cmd
    BY <1>1 DEF Cmd, Held
  <2> QED
    BY <1>4, <2>1 DEF Proceed, TypeOK, Held
<1>5. ~IsMissOrError(reply) => reply \in Held
  BY DEF IsMissOrError, Held
<1>6. \/ \E result \in Held \cup {Failed} : Finish(c, result)
      \/ \E at \in {"buddy", "migrate"}, v \in Held :
           Proceed(c, at, v) /\ UNCHANGED <<expect, fresh>>
  <2>1. Missing \in Held
    BY DEF Held
  <2>2. CASE cmd[c].op = "get"
    BY <1>1, <1>5, <2>1, <2>2 DEF Continue, GetContinues
  <2>3. CASE cmd[c].op # "get"
    BY <1>1, <2>1, <2>3 DEF Continue, WriteContinues
  <2> QED
    BY <2>2, <2>3
<1>7. /\ cmd' \in [Client -> Cmd \cup {Resting(r) : r \in Held \cup {Failed}}]
      /\ expect' \in [Key -> Held]
      /\ fresh' \in [Client -> SUBSET Held]
  BY <1>3, <1>4, <1>6
<1> QED
  BY <1>2, <1>7 DEF TypeOK, Held

\* A server's execution of a request keeps the type of its store.
LEMMA ExecutedType ==
  ASSUME TypeOK, NEW n \in Node, NEW req \in Request
  PROVE  Executed(n, req) \in [Node -> [Key -> Held]]
BY DEF TypeOK, Executed, Request, Held

\* Every action keeps the types.
LEMMA TypeStep ==
  ASSUME TypeOK, [Next]_vars
  PROVE  TypeOK'
<1>1. ASSUME NEW c \in Client, NEW op \in Op, NEW k \in Key, NEW v \in Held, Begin(c, op, k, v)
      PROVE  TypeOK'
  <2>1. Command(op, k, v) \in Cmd
    BY DEF Command, Cmd, Held
  <2>2. cmd' \in [Client -> Cmd \cup {Resting(r) : r \in Held \cup {Failed}}]
    BY <1>1, <2>1 DEF Begin, TypeOK, Held
  <2>3. \A e \in Client : ~Idle(e) => cmd[e].val \in Held
    BY CommandFacts DEF Cmd, Held
  <2> HIDE DEF Held
  <2>4. ASSUME NEW o, NEW w \in Held PROVE With(o, k, w) \in Held
    <3>1. expect \in [Key -> Held]
      BY DEF TypeOK, Held
    <3>2. Map!After(expect, o, k, w) \in [Key -> Held]
      BY <3>1, AfterType
    <3> QED
      BY <3>2 DEF With
  <2>5. With(op, k, v) \in Held /\ \A d \in Client : ~Idle(d) => With(cmd[d].op, k, cmd[d].val) \in Held
    BY <2>3, <2>4
  <2>6. fresh' \in [Client -> SUBSET Held]
    <3>1. expect[k] \in Held /\ \A d \in Client : fresh[d] \subseteq Held
      BY DEF TypeOK, Held
    <3>2. {expect[k]} \cup {With(cmd[e].op, k, cmd[e].val) :
                              e \in {x \in Client : ~Idle(x) /\ cmd[x].key = k}} \subseteq Held
      BY <2>5, <3>1
    <3> QED
      BY <1>1, <2>5, <3>1, <3>2 DEF Begin, StartsFresh
  <2> QED
    BY <1>1, <2>2, <2>6 DEF Begin, TypeOK, Held
<1>2. ASSUME NEW c \in Client, Send(c) PROVE TypeOK'
  <2>1. cmd[c] \in Cmd /\ RequestOf(c) \in Request
    BY <1>2, CommandFacts DEF Send
  <2>2. cmd' \in [Client -> Cmd \cup {Resting(r) : r \in Held \cup {Failed}}]
    BY <1>2, <2>1 DEF Send, TypeOK, Held, Cmd
  <2>3. /\ wire' \in [Client -> [Node -> Seq(Request)]]
        /\ \A d \in Client, n \in Node : Len(wire'[d][n]) <= MaxWire
    <3> DEFINE m == Target(c)
    <3>1. CASE m \notin up
      BY <1>2, <3>1 DEF Send, TypeOK
    <3>2. CASE m \in up
      <4>1. m \in Node /\ wire[c][m] \in Seq(Request) /\ Len(wire[c][m]) < MaxWire
        BY <1>2, <3>2 DEF Send, TypeOK
      <4>2. wire' = [wire EXCEPT ![c][m] = Append(@, RequestOf(c))]
        BY <1>2, <3>2 DEF Send
      <4> HIDE DEF m
      <4>3. /\ Append(wire[c][m], RequestOf(c)) \in Seq(Request)
            /\ Len(Append(wire[c][m], RequestOf(c))) = Len(wire[c][m]) + 1
        BY <2>1, <4>1
      <4>4. Len(Append(wire[c][m], RequestOf(c))) <= MaxWire
        <5>1. Len(wire[c][m]) \in Nat
          BY <4>1
        <5> QED
          BY <4>1, <4>3, <5>1, KVAssumption
      <4> QED
        BY <4>1, <4>2, <4>3, <4>4 DEF TypeOK
    <3> QED
      BY <3>1, <3>2
  <2> QED
    BY <1>2, <2>2, <2>3 DEF Send, TypeOK, Held
<1>3. ASSUME NEW c \in Client, Direct(c) PROVE TypeOK'
  <2>1. cmd[c] \in Cmd /\ RequestOf(c) \in Request
    BY <1>3, CommandFacts DEF Direct
  <2>2. store' \in [Node -> [Key -> Held]]
    BY <1>3, <2>1, ExecutedType, KVAssumption DEF Direct
  <2>3. store[First][RequestOf(c).key] \in Held
    BY <2>1, KVAssumption DEF TypeOK, Request, Held
  <2>4. cmd' \in [Client -> Cmd \cup {Resting(r) : r \in Held \cup {Failed}}]
    BY <1>3, <2>1, <2>3 DEF Direct, TypeOK, Held, Cmd
  <2> QED
    BY <1>3, <2>2, <2>4 DEF Direct, TypeOK, Held
<1>4. ASSUME NEW c \in Client, Answer(c) PROVE TypeOK'
  <2>1. ~Idle(c)
    BY <1>4, CommandFacts DEF Answer
  <2>2. cmd[c].reply \in Held
    BY <2>1, CommandFacts DEF Cmd, Held
  <2> QED
    BY <1>4, <2>1, <2>2, ContinueType DEF Answer
<1>5. ASSUME NEW c \in Client, TimeOut(c) PROVE TypeOK'
  <2>1. ~Idle(c)
    BY <1>5, CommandFacts DEF TimeOut
  <2> QED
    BY <1>5, <2>1, ContinueType DEF TimeOut
<1>6. ASSUME NEW c \in Client, NEW n \in Node, Handle(c, n) PROVE TypeOK'
  <2> DEFINE req == Head(wire[c][n])
  <2>1. wire[c][n] \in Seq(Request) /\ wire[c][n] # <<>> /\ Len(wire[c][n]) <= MaxWire
    BY <1>6 DEF Handle, TypeOK
  <2>2. /\ req \in Request /\ Tail(wire[c][n]) \in Seq(Request)
        /\ Len(Tail(wire[c][n])) = Len(wire[c][n]) - 1 /\ Len(wire[c][n]) \in Nat
    BY <2>1
  <2>3. store' \in [Node -> [Key -> Held]]
    BY <1>6, <2>2, ExecutedType DEF Handle
  <2>4. store[n][req.key] \in Held
    BY <2>2 DEF TypeOK, Request, Held
  <2>5. cmd' \in [Client -> Cmd \cup {Resting(r) : r \in Held \cup {Failed}}]
    <3>1. CASE Len(wire[c][n]) = 1 /\ cmd[c].rpc = "sent" /\ Target(c) = n
      <4>1. cmd[c] \in Cmd
        BY <3>1, CommandFacts
      <4>2. [cmd[c] EXCEPT !.rpc = "answered",
               !.reply = IF req.kind = "fetch" THEN store[n][req.key] ELSE Missing] \in Cmd
        BY <2>4, <4>1 DEF Cmd, Held
      <4> QED
        BY <1>6, <3>1, <4>2 DEF Handle, TypeOK, Held
    <3>2. CASE ~(Len(wire[c][n]) = 1 /\ cmd[c].rpc = "sent" /\ Target(c) = n)
      BY <1>6, <3>2 DEF Handle, TypeOK, Held
    <3> QED
      BY <3>1, <3>2
  <2>6. /\ wire' \in [Client -> [Node -> Seq(Request)]]
        /\ \A d \in Client, m \in Node : Len(wire'[d][m]) <= MaxWire
    <3>1. wire' = [wire EXCEPT ![c][n] = Tail(@)]
      BY <1>6 DEF Handle
    <3>2. Len(Tail(wire[c][n])) <= MaxWire
      BY <2>1, <2>2, KVAssumption
    <3> QED
      BY <2>2, <3>1, <3>2 DEF TypeOK
  <2> QED
    BY <1>6, <2>3, <2>5, <2>6 DEF Handle, TypeOK, Held
<1>7. ASSUME NEW c \in Client, Refresh(c) PROVE TypeOK'
  BY <1>7 DEF Refresh, TypeOK
<1>8. ASSUME NEW c \in Client, NEW live \in SUBSET Node, Ask(c, live) PROVE TypeOK'
  BY <1>8 DEF Ask, TypeOK
<1>9. ASSUME NEW n \in Node, Crash(n) PROVE TypeOK'
  <2>1. /\ wire' \in [Client -> [Node -> Seq(Request)]]
        /\ \A d \in Client, m \in Node : Len(wire'[d][m]) <= MaxWire
    BY <1>9, KVAssumption DEF Crash, TypeOK
  <2> QED
    BY <1>9, <2>1 DEF Crash, TypeOK
<1>10. ASSUME NEW n \in Node, Restart(n) PROVE TypeOK'
  BY <1>10 DEF Restart, TypeOK, Empty
<1>11. CASE UNCHANGED vars
  BY <1>11 DEF TypeOK, vars
<1>12. Value \subseteq Held /\ Missing \in Held /\ {"get", "delete", "insert", "update"} \subseteq Op
  BY DEF Held, Op, Writes
<1> QED
  BY <1>1, <1>2, <1>3, <1>4, <1>5, <1>6, <1>7, <1>8, <1>9, <1>10, <1>11, <1>12 DEF Next

\* Every variable keeps its type; no store ever holds the text of an error.
THEOREM TypeCorrect == Spec => []TypeOK
BY InitType, TypeStep, PTL DEF Spec

=============================================================================
