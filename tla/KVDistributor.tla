---------------------------- MODULE KVDistributor ----------------------------
(***************************************************************************)
(* Clients running KVDistributor (KVDistributor.cpp) through KVClient      *)
(* (KVClient.cpp) against the servers' handlers (KVServer.cpp): routing by *)
(* the client's own ring, writes to primary and buddy, reads that fall     *)
(* back to the buddy and migrate the value, and the refresh of the ring    *)
(* from a server's membership view.                                        *)
(*                                                                         *)
(* A command is a sequence of RPCs made under ring_mutex_.  An RPC is a    *)
(* request on the connection from client to server, which is FIFO, its     *)
(* execution by the server, whose engine has one execution stream, and the *)
(* client's going on with the answer or with the timeout.  A request whose *)
(* caller has timed out stays on the connection and is executed later.     *)
(*                                                                         *)
(* A client whose configuration names one of the nodes as its own works on *)
(* a KvStore directly when it addresses that node, without an RPC.  The    *)
(* KvStore is the one main_client.cpp has attached to: the segment of the  *)
(* node with the first endpoint, which may outlive its server.             *)
(*                                                                         *)
(* A server's KvStore is a map here, and never full: module KvStore shows  *)
(* what it does otherwise.                                                 *)
(***************************************************************************)
EXTENDS RingOperators

CONSTANTS
  Client, Key, Value,
  Node,          \* node ids of the servers
  Missing,       \* "key not found"
  Failed,        \* no answer: the RPC failed, or get() returns "RPC Failed"
  First,         \* the node with endpoint 0, whose segment clients attach to
  NodePos, KeyPos,   \* the hashes of the node ids and of the keys
  Environments,  \* what the world may do, one of these in each behaviour
  MaxWire        \* bound: requests on one connection

Writes == {"insert", "update", "delete"}
Op == {"get"} \cup Writes

\* What a user may tell a client to do; only insert and update carry a value.
Order == [client : Client, op : Op, key : Key, val : Value \cup {Missing}]

\* configured: the nodes of config.json, every client's first ring; answers: the sets
\* of ALIVE nodes a server may answer a refresh with; mayCrash: the nodes that may die,
\* and be started again if mayRestart; slow: an RPC to a server that is up may time out;
\* missLike: values users store that isMissOrError() takes for an error; local[c]: the
\* node c's configuration names as its own, -1 for none; load: the orders users give.
\* An abandoned segment is not made anew here: First is not restarted under a client
\* that is local to it.
Environment ==
  [configured : (SUBSET Node) \ {{}}, answers : SUBSET ((SUBSET Node) \ {{}}),
   mayCrash : SUBSET Node, mayRestart : BOOLEAN, slow : BOOLEAN,
   missLike : SUBSET Value, local : [Client -> Node \cup {-1}],
   load : SUBSET Order]

ASSUME KVAssumption ==
  /\ IsFiniteSet(Client)
  /\ First \in Node /\ Node \subseteq Nat /\ IsFiniteSet(Node)
  /\ Environments \subseteq Environment
  /\ \A e \in Environments :
       e.mayRestart /\ First \in e.mayCrash => \A c \in Client : e.local[c] = -1
  /\ Missing \notin Value /\ Failed \notin Value /\ Missing # Failed
  /\ NodePos \in [Node -> Position] /\ KeyPos \in [Key -> Position]
  /\ VirtualNodes > 0 /\ MaxWire \in Nat \ {0}

VARIABLES
  env,     \* the environment, chosen once
  up,      \* the servers that are running
  store,   \* store[n][k]: what n's KvStore holds for k
  view,    \* view[c]: node_to_ip of c
  place,   \* place[c]: where c's hash_ring, rebuilt when node_to_ip is, places each key
  news,    \* news[c]: live nodes its refresh thread was told of, {} when none
  cmd,     \* cmd[c]: the command c is executing
  wire,    \* wire[c][n]: requests from c to n that n has not executed
  expect,  \* history: the map as the completed commands would leave it
  fresh    \* history: fresh[c]: what the get() of c may return, see StartsFresh

vars == <<env, up, store, view, place, news, cmd, wire, expect, fresh>>

-----------------------------------------------------------------------------
(* Routing *)

\* Where the ring built from a set of nodes places a key.
Placement ==
  [nodes \in (SUBSET Node) \ {{}} |-> [k \in Key |->
     LET ring == Tokens(NodePos, nodes) IN
     [primary |-> PrimaryNode(ring, KeyPos[k]), buddy |-> BuddyNode(ring, KeyPos[k])]]]

Primary(c, k) == place[c][k].primary
Buddy(c, k) == place[c][k].buddy

MissOnlyNotFound(value) ==         \* mutant: a failed RPC is not taken for a miss
  value = Missing

IsMissOrError(value) == value \in {Missing, Failed} \cup env.missLike

-----------------------------------------------------------------------------
(* Commands *)

\* No command; result: what the last get() returned.
Resting(result) ==
  [at |-> "idle", op |-> "none", val |-> result, rpc |-> "none", reply |-> Missing]

\* at: the RPC of the command that is next or in progress; val: the value to write,
\* for a get() the value to migrate.
Command(op, k, v) ==
  [at |-> "primary", op |-> op, key |-> k, val |-> v, rpc |-> "none", reply |-> Missing]

Cmd ==
  [at : {"primary", "buddy", "migrate"}, op : Op, key : Key,
   val : Value \cup {Missing}, rpc : {"none", "sent", "answered"}, reply : Value \cup {Missing}]

Request == [kind : {"fetch"} \cup Writes, key : Key, val : Value \cup {Missing}]

Idle(c) == cmd[c].at = "idle"

Target(c) == IF cmd[c].at = "buddy" THEN Buddy(c, cmd[c].key) ELSE Primary(c, cmd[c].key)

\* isLocalNode(): local_node_id is found once, by the constructor.
AtLocalNode(c) == Target(c) = env.local[c]

\* What the current step of the command asks of its target.
RequestOf(c) ==
  [kind |-> IF cmd[c].op # "get" THEN cmd[c].op
            ELSE IF cmd[c].at = "migrate" THEN "insert" ELSE "fetch",
   key |-> cmd[c].key, val |-> cmd[c].val]

\* The command as it goes on with its next RPC.
Proceed(c, at, v) ==
  cmd' = [cmd EXCEPT ![c].at = at, ![c].val = v, ![c].rpc = "none", ![c].reply = Missing]

\* KeyValueMap for one client, a ring that stays as configured and servers that answer:
\* the primary's store is the map, and an operation takes effect when it is executed
\* there.  In any other environment nothing is promised.
Home(k) == Placement[env.configured][k].primary

Users == {o.client : o \in env.load}

Undisturbed ==
  /\ env.answers = {} /\ env.mayCrash = {} /\ ~env.slow /\ env.missLike = {}
  /\ Cardinality(Users) = 1 /\ \A c \in Users : env.local[c] \in {-1, First}

ResultSoFar(c) ==
  IF cmd[c].op = "get" /\ cmd[c].at = "primary" THEN cmd[c].reply
  ELSE IF cmd[c].op = "get" THEN cmd[c].val ELSE Missing

MappedCall(c) ==
  CASE ~Undisturbed -> [stage |-> "resting", result |-> Missing]
    [] Undisturbed /\ Idle(c) ->
         [stage |-> "resting", result |-> IF cmd[c].val = Failed THEN Missing ELSE cmd[c].val]
    [] Undisturbed /\ ~Idle(c) /\ cmd[c].at = "primary" /\ cmd[c].rpc # "answered" ->
         [stage |-> "called", op |-> cmd[c].op, key |-> cmd[c].key, val |-> cmd[c].val]
    [] OTHER -> [stage |-> "done", result |-> ResultSoFar(c)]

Map == INSTANCE KeyValueMap WITH
  MayBeFull <- FALSE,
  content <- [k \in Key |-> IF Undisturbed THEN store[Home(k)][k] ELSE Missing],
  call <- [c \in Client |-> MappedCall(c)]

\* The command returns; expect follows what it was asked to do.
Finish(c, result) ==
  /\ cmd' = [cmd EXCEPT ![c] = Resting(result)]
  /\ expect' = Map!After(expect, cmd[c].op, cmd[c].key, cmd[c].val)
  /\ fresh' = [fresh EXCEPT ![c] = {}]

\* What k would hold once a write is completed too.
With(op, k, v) == Map!After(expect, op, k, v)[k]

\* A get() that begins may return what the completed commands left, or what a write
\* makes of it that is running or begins while the get() does.
StartsFresh(c, op, k, v) ==
  fresh' = [d \in Client |->
    CASE d = c /\ op = "get" ->
           {expect[k]} \cup {With(cmd[e].op, k, cmd[e].val) :
                               e \in {x \in Client : ~Idle(x) /\ cmd[x].key = k}}
      [] d # c /\ op # "get" /\ ~Idle(d) /\ cmd[d].op = "get" /\ cmd[d].key = k ->
           fresh[d] \cup {With(op, k, v)}
      [] OTHER -> fresh[d]]

Empty == [k \in Key |-> Missing]

Init ==
  /\ env \in Environments
  /\ up = Node
  /\ store = [n \in Node |-> Empty]
  /\ view = [c \in Client |-> env.configured]
  /\ place = [c \in Client |-> Placement[env.configured]]
  /\ news = [c \in Client |-> {}]
  /\ cmd = [c \in Client |-> Resting(Missing)]
  /\ wire = [c \in Client |-> [n \in Node |-> <<>>]]
  /\ expect = Empty
  /\ fresh = [c \in Client |-> {}]

\* get(), insert(), update(), deleteKey(): ring_mutex_ is taken until the end.
Begin(c, op, k, v) ==
  /\ Idle(c)
  /\ [client |-> c, op |-> op, key |-> k, val |-> v] \in env.load
  /\ cmd' = [cmd EXCEPT ![c] = Command(op, k, v)]
  /\ StartsFresh(c, op, k, v)
  /\ UNCHANGED <<env, up, store, view, place, news, wire, expect>>

\* readFromNode(), writeToNode(), deleteOnNode(): the RPC is made.
Send(c) ==
  LET n == Target(c) IN
  /\ ~Idle(c) /\ cmd[c].rpc = "none"
  /\ ~AtLocalNode(c)
  /\ n \in up => Len(wire[c][n]) < MaxWire
  /\ wire' = IF n \in up THEN [wire EXCEPT ![c][n] = Append(@, RequestOf(c))] ELSE wire
  /\ cmd' = [cmd EXCEPT ![c].rpc = "sent"]
  /\ UNCHANGED <<env, up, store, view, place, news, expect, fresh>>

-----------------------------------------------------------------------------
(* The handlers of KVServer.cpp *)

ExecutedUpsert(n, req) ==          \* mutant: an insert replaces the value that is there
  CASE req.kind \in {"insert", "update"} -> [store EXCEPT ![n][req.key] = req.val]
    [] req.kind = "delete" -> [store EXCEPT ![n][req.key] = Missing]
    [] OTHER -> store

\* kv_insert, kv_update and kv_delete on the map of n; they answer 1 in any case.
Executed(n, req) ==
  CASE req.kind = "insert" /\ store[n][req.key] = Missing -> [store EXCEPT ![n][req.key] = req.val]
    [] req.kind = "update" /\ store[n][req.key] # Missing -> [store EXCEPT ![n][req.key] = req.val]
    [] req.kind = "delete" -> [store EXCEPT ![n][req.key] = Missing]
    [] OTHER -> store

\* n executes the oldest request of c; the answer reaches c if c still waits for it.
Handle(c, n) ==
  LET req == Head(wire[c][n])
      awaited == Len(wire[c][n]) = 1 /\ cmd[c].rpc = "sent" /\ Target(c) = n
  IN
  /\ n \in up
  /\ wire[c][n] # <<>>
  /\ store' = Executed(n, req)
  /\ wire' = [wire EXCEPT ![c][n] = Tail(@)]
  /\ cmd' = IF awaited
            THEN [cmd EXCEPT ![c].rpc = "answered",
                    ![c].reply = IF req.kind = "fetch" THEN store[n][req.key] ELSE Missing]
            ELSE cmd
  /\ UNCHANGED <<env, up, view, place, news, expect, fresh>>

DirectOnTarget(c) ==               \* mutant: a direct call on a server's store bypasses it
  LET req == RequestOf(c) IN
  /\ ~Idle(c) /\ cmd[c].rpc = "none"
  /\ AtLocalNode(c)
  /\ cmd' = [cmd EXCEPT ![c].rpc = "answered",
               ![c].reply = IF req.kind = "fetch" THEN store[First][req.key] ELSE Missing]
  /\ UNCHANGED <<env, up, store, view, place, news, wire, expect, fresh>>

\* The same on the client's own node: kv.Find, kv.Insert, kv.Update or kv.Delete is
\* called on the segment that is attached, under its mutex, server or no server.
Direct(c) ==
  LET req == RequestOf(c) IN
  /\ ~Idle(c) /\ cmd[c].rpc = "none"
  /\ AtLocalNode(c)
  /\ store' = Executed(First, req)
  /\ cmd' = [cmd EXCEPT ![c].rpc = "answered",
               ![c].reply = IF req.kind = "fetch" THEN store[First][req.key] ELSE Missing]
  /\ UNCHANGED <<env, up, view, place, news, wire, expect, fresh>>

-----------------------------------------------------------------------------
(* The client goes on *)

GetFromPrimary(c, reply) ==        \* mutant: a miss at the primary is final
  Finish(c, IF IsMissOrError(reply) THEN Failed ELSE reply)

\* get() with what the RPC returned.
GetContinues(c, reply) ==
  LET k == cmd[c].key IN
  \/ /\ cmd[c].at = "primary" /\ ~IsMissOrError(reply)
     /\ Finish(c, reply)
  \/ /\ cmd[c].at = "primary" /\ IsMissOrError(reply) /\ Buddy(c, k) # Primary(c, k)
     /\ Proceed(c, "buddy", Missing)
     /\ UNCHANGED <<expect, fresh>>
  \/ /\ cmd[c].at = "buddy" /\ ~IsMissOrError(reply)
     /\ Proceed(c, "migrate", reply)
     /\ UNCHANGED <<expect, fresh>>
  \/ /\ \/ cmd[c].at = "primary" /\ Buddy(c, k) = Primary(c, k)
        \/ cmd[c].at = "buddy"
     /\ IsMissOrError(reply)
     /\ Finish(c, Failed)
  \/ /\ cmd[c].at = "migrate"
     /\ Finish(c, cmd[c].val)

WriteFailsOver(c) ==               \* mutant: the buddy is written only if the primary fails
  \/ /\ cmd[c].at = "primary" /\ Buddy(c, cmd[c].key) # Primary(c, cmd[c].key)
     /\ cmd[c].rpc = "sent"
     /\ Proceed(c, "buddy", cmd[c].val)
     /\ UNCHANGED <<expect, fresh>>
  \/ /\ cmd[c].at = "buddy" \/ cmd[c].rpc = "answered"
     /\ Finish(c, Missing)

\* insert(), update(), deleteKey(): the buddy follows whatever the primary answered.
WriteContinues(c) ==
  LET k == cmd[c].key IN
  \/ /\ cmd[c].at = "primary" /\ Buddy(c, k) # Primary(c, k)
     /\ Proceed(c, "buddy", cmd[c].val)
     /\ UNCHANGED <<expect, fresh>>
  \/ /\ cmd[c].at = "buddy" \/ Buddy(c, k) = Primary(c, k)
     /\ Finish(c, Missing)

Continue(c, reply) ==
  /\ IF cmd[c].op = "get" THEN GetContinues(c, reply) ELSE WriteContinues(c)
  /\ UNCHANGED <<env, up, store, view, place, news, wire>>

Answer(c) == cmd[c].rpc = "answered" /\ Continue(c, cmd[c].reply)

Unreachable(c) ==                  \* mutant: no timeout, only a refused connection fails
  Target(c) \notin up

\* No answer will come: the server was or went down.
Lost(c) ==
  \/ cmd[c].rpc = "sent" /\ wire[c][Target(c)] = <<>>
  \/ cmd[c].rpc = "answered" /\ Target(c) \notin up

\* KVClient: the RPC fails or its timeout of 2000 ms passes; readFromNode() and the
\* write functions swallow the exception.
TimeOut(c) ==
  /\ cmd[c].rpc # "none" /\ ~AtLocalNode(c)
  /\ env.slow \/ Lost(c)
  /\ Continue(c, Failed)

-----------------------------------------------------------------------------
(* Membership and failures *)

\* fetchMembershipFromServer(): a server of the ring answers with the nodes it takes
\* for ALIVE, no lock being held; an empty set would be ignored.
Ask(c, live) ==
  /\ live \in env.answers
  /\ news[c] = {}
  /\ view[c] \cap up # {}
  /\ news' = [news EXCEPT ![c] = live]
  /\ UNCHANGED <<env, up, store, view, place, cmd, wire, expect, fresh>>

\* ... and the ring is rebuilt once ring_mutex_ is free.
Refresh(c) ==
  /\ news[c] # {}
  /\ Idle(c)
  /\ view' = [view EXCEPT ![c] = news[c]]
  /\ place' = [place EXCEPT ![c] = Placement[news[c]]]
  /\ news' = [news EXCEPT ![c] = {}]
  /\ UNCHANGED <<env, up, store, cmd, wire, expect, fresh>>

\* A server dies; what was on its connections is gone.
Crash(n) ==
  /\ n \in env.mayCrash \cap up
  /\ up' = up \ {n}
  /\ wire' = [c \in Client |-> [wire[c] EXCEPT ![n] = <<>>]]
  /\ UNCHANGED <<env, store, view, place, news, cmd, expect, fresh>>

\* It is started again: createMemoryStorage() removes what was there.
Restart(n) ==
  /\ env.mayRestart
  /\ n \in Node \ up
  /\ up' = up \cup {n}
  /\ store' = [store EXCEPT ![n] = Empty]
  /\ UNCHANGED <<env, view, place, news, cmd, wire, expect, fresh>>

Next ==
  \/ \E c \in Client :
       \/ \E k \in Key : \/ \E op \in {"get", "delete"} : Begin(c, op, k, Missing)
                         \/ \E op \in {"insert", "update"}, v \in Value : Begin(c, op, k, v)
       \/ Send(c) \/ Direct(c) \/ Answer(c) \/ TimeOut(c)
       \/ \E n \in Node : Handle(c, n)
       \/ Refresh(c)
       \/ \E live \in SUBSET Node : Ask(c, live)
  \/ \E n \in Node : Crash(n) \/ Restart(n)

Spec == Init /\ [][Next]_vars

\* A client thread runs on and its RPCs time out; servers that are up serve what is
\* on its connections.
Fairness ==
  \A c \in Client :
    /\ WF_vars(Send(c) \/ Direct(c) \/ Answer(c) \/ TimeOut(c))
    /\ WF_vars(\E n \in Node : Handle(c, n))

FairSpec == Spec /\ Fairness

-----------------------------------------------------------------------------
(* Properties *)

\* Every variable keeps its type; in particular no store ever holds the text of an
\* error, which get() could migrate (isMissOrError, readFromNode).
TypeOK ==
  /\ env \in Environments
  /\ up \in SUBSET Node
  /\ store \in [Node -> [Key -> Value \cup {Missing}]]
  /\ view \in [Client -> (SUBSET Node) \ {{}}]
  /\ place = [c \in Client |-> Placement[view[c]]]
  /\ news \in [Client -> SUBSET Node]
  /\ cmd \in [Client -> Cmd \cup {Resting(r) : r \in Value \cup {Missing, Failed}}]
  /\ wire \in [Client -> [Node -> Seq(Request)]]
  /\ \A c \in Client, n \in Node : Len(wire[c][n]) <= MaxWire
  /\ expect \in [Key -> Value \cup {Missing}]
  /\ fresh \in [Client -> SUBSET (Value \cup {Missing})]

\* With a ring that stays and servers that answer, a client's commands are atomic
\* operations on one map, though each writes two stores one after the other
\* (KVDistributor get, insert, update, deleteKey).
ReplicasImplementMap == Map!Spec

Returns(c, op) == cmd[c].op = op /\ Idle(c)'

\* A node that no client had in its ring may be in an answer.
NodesJoin == \E live \in env.answers : ~(live \subseteq env.configured)

\* A node that died or was out of the ring may be in it again, empty or out of date:
\* it is started anew, or the ring changes more than once.
NodesReturn == env.mayRestart \/ Cardinality(env.answers) > 1

\* At most one node dies, comes or goes; the others are in every ring.
OneComesAndGoes ==
  \E n \in Node : /\ env.mayCrash \subseteq {n}
                  /\ env.configured \ {n} # {}
                  /\ \A live \in env.answers : live \ {n} = env.configured \ {n}

Readable(v) == v \in Value \ env.missLike

\* No value that is written is taken for an error.
Legible == \A o \in env.load : o.val \notin env.missLike

OneWriter == Cardinality({o.client : o \in {x \in env.load : x.op \in Writes}}) <= 1

\* A client deletes keys that another one reads or writes.
Contended == Cardinality(Users) > 1 /\ \E o \in env.load : o.op = "delete"

\* A client works on a segment other than that of the node it takes for its own, or
\* on one whose server may die under it while others go on without that node.
Estranged ==
  \E c \in Users : \/ env.local[c] \notin {-1, First}
                   \/ env.local[c] = First /\ First \in env.mayCrash /\ Users # {c}

\* A get() returns what the last completed write left, or what a write that overlaps
\* it leaves, whether it is answered by the primary or by the buddy, by an RPC or from
\* the client's own node, whichever replica has died meanwhile and whether the ring has
\* noticed, as long as one node is lost and none comes.  Stated for one client that
\* writes and any that read; if the ring may change, for a client alone, and values that
\* are not taken for errors: an insert of such a key does not replace the value at the
\* primary but may be all that a new buddy has (KVDistributor::get, isLocalNode).
ReadsAreRegular ==
  [][\A c \in Client :
       (/\ Returns(c, "get") /\ OneComesAndGoes /\ ~(NodesJoin \/ NodesReturn \/ env.slow)
        /\ OneWriter /\ ~Contended /\ ~Estranged
        /\ env.answers = {} \/ (Legible /\ Cardinality(Users) = 1))
         => cmd'[c].val \in {IF Readable(v) THEN v ELSE Failed : v \in fresh[c]}]_vars

\* "Reads that miss on `N_new` fall back to the previous owner transparently"
\* (design.md:467): a get() of a key that was written and not deleted finds it, when one
\* node joins, is lost, or returns empty, in and out of the ring, and when the clients
\* have not all noticed and one writes by another ring than the other reads.  Two joins
\* may move both replicas of a key to nodes that have never heard of it.
ReadsFallBack ==
  [][\A c \in Client :
       (/\ Returns(c, "get") /\ Missing \notin fresh[c] /\ OneComesAndGoes /\ Legible
        /\ ~(env.slow \/ Contended \/ Estranged))
         => cmd'[c].val # Failed]_vars

\* A get() of a key that was deleted and not written again does not find it, as long
\* as no node returns: neither the old owner that get() falls back to nor a request
\* that was executed late brings it back (KVDistributor::deleteKey, get).  Not so for a
\* client that reaches one store as two nodes (Estranged).
DeletedStaysDeleted ==
  [][\A c \in Client :
       Returns(c, "get") /\ fresh[c] = {Missing} /\ ~(NodesReturn \/ Contended \/ Estranged)
         => cmd'[c].val = Failed]_vars

Quiet == \A c \in Client : Idle(c) /\ \A n \in Node : wire[c][n] = <<>>

RingStays == env.answers = {} /\ env.mayCrash = {} /\ ~Estranged

\* Requests executed after their caller gave up do no harm: once a client's
\* connections are drained both replicas hold what its commands would have left,
\* because both executed the same requests in the same order (KVClient timeouts).
\* Stated for a client alone: what another one migrates may give a late update,
\* which found no key when it was made, a key to change on one of the two nodes.
LateRequestsSettle ==
  Quiet /\ RingStays /\ Cardinality(Users) = 1 => \A k \in Key, c \in Users :
    store[Primary(c, k)][k] = expect[k] /\ store[Buddy(c, k)][k] = expect[k]

\* "Primary and buddy both hold the key" (design.md:575): once the connections are
\* drained, a key that nobody deletes is on both of its nodes or on none, however
\* many clients write it at the same time and in whatever order their requests reach
\* the two nodes; which of the values each of them holds is left open.
BothHoldTheKey ==
  Quiet /\ RingStays /\ ~Contended => \A k \in Key, c \in Client :
    store[Primary(c, k)][k] = Missing <=> store[Buddy(c, k)][k] = Missing

\* "Delete operation completed successfully" (main_client.cpp:467): once all is quiet,
\* a key that one client deleted last, and only that client writes, is on neither of
\* its nodes.
DeletesAreKept ==
  Quiet /\ RingStays /\ OneWriter => \A k \in Key, c \in Client :
    expect[k] = Missing =>
      store[Primary(c, k)][k] = Missing /\ store[Buddy(c, k)][k] = Missing

\* Every command returns: it never waits for ever on a server that died, came back
\* empty or is slow (KVClient's timeout, KVDistributor's fallbacks).
CommandEnds == \A c \in Client : ~Idle(c) ~> Idle(c)

\* "The client receives a success response only when the buddy path succeeds"
\* (design.md:744, of a primary that is down): when insert() returns, and
\* main_client.cpp:421 prints success, and the primary does not have the key, the buddy
\* has it.  A buddy that fails alone is tolerated (design.md:746) and violates nothing.
InsertReachesBuddy ==
  [][\A c \in Client :
       LET k == cmd[c].key IN
       Returns(c, "insert") /\ store[Primary(c, k)][k] = Missing
         => store[Buddy(c, k)][k] # Missing]_vars

=============================================================================
