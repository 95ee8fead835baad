-------------------------- MODULE GossipMembership --------------------------
(***************************************************************************)
(* The membership service of the key-value servers: GossipMembership.cpp,  *)
(* driven by main_server.cpp (construction, start(), the shutdown watcher) *)
(* and by the gossip_exchange handler of KVServer.cpp.                     *)
(*                                                                         *)
(* A server process has two threads that exchange views: "main", which     *)
(* runs start() and later stop(), and "loop", which runs gossipLoop().     *)
(* Handlers of incoming exchanges run beside them.  Every critical section *)
(* of mutex_ is one action; an RPC is three (send, serve, reply), so that  *)
(* whatever the code does between unlocking and locking again can happen.  *)
(*                                                                         *)
(* Abstractions.  An endpoint is determined by its node id.  A clock is    *)
(* not kept: any time may pass between two steps, so each detectFailures() *)
(* finds every entry's age below, between or above the two thresholds      *)
(* (suspect_threshold_ms_ <= dead_threshold_ms_, as in config.json).       *)
(* The state of a process that is down is reset to fixed values.           *)
(***************************************************************************)
EXTENDS Naturals, FiniteSets

CONSTANTS
  Node,     \* node ids of config.json
  Seeds,    \* the nodes named in seed_nodes
  MayStop,  \* the nodes that may be shut down cleanly
  MayCrash, \* the nodes that may die without notice
  MaxGen,   \* bound: incarnations of one node
  MaxHb,    \* bound: heartbeat_counter at which the gossip thread stays asleep
  MaxLate   \* bound: exchange requests under way whose caller gave up

ASSUME NodesAssumption == Seeds \subseteq Node /\ MayStop \subseteq Node /\ MayCrash \subseteq Node
ASSUME BoundsAssumption == MaxGen \in Nat /\ MaxHb \in Nat /\ MaxLate \in Nat

VARIABLES
  disk,      \* disk[n]: generation file of n, 0 when there is none
  pc,        \* pc[n][t]: where thread t of process n is
  running,   \* running[n]: running_
  toContact, \* toContact[n]: seeds start() has still to contact
  table,     \* table[n]: member_table_ of n
  ring,      \* ring[n]: last_alive_set_, the nodes server_ring was built from
  call,      \* call[n][t]: the exchange thread t is blocked in
  late,      \* requests that were sent and are no longer waited for
  farewell   \* history: heartbeat of the DEAD mark stop() made, 0 before it

vars == <<disk, pc, running, toContact, table, ring, call, late, farewell>>

-----------------------------------------------------------------------------
(* Records and views *)

ALIVE == 0
SUSPECT == 1
DEAD == 2
Status == {ALIVE, SUSPECT, DEAD}

Thread == {"main", "loop"}

MemberRecord == [gen : Nat, hb : Nat, status : Status]

\* No entry in member_table_: generations of real records start at 1, so every
\* real record supersedes it and it supersedes none.
Absent == [gen |-> 0, hb |-> 0, status |-> DEAD]

View == [Node -> MemberRecord]
NoView == [m \in Node |-> Absent]

Self(g) == [gen |-> g, hb |-> 0, status |-> ALIVE]

AliveIn(view) == {m \in Node : view[m].status = ALIVE}

\* The merge rule, written out twice in the code (mergeView, doGossipRound).
Supersedes(in, local) ==
  \/ in.gen > local.gen
  \/ /\ in.gen = local.gen
     /\ \/ in.hb > local.hb
        \/ in.hb = local.hb /\ in.status > local.status

MergedNoGeneration(n, view) ==      \* mutant: heartbeats compared across generations
  [m \in Node |-> IF m # n /\ (view[m].hb > table[n][m].hb \/ table[n][m] = Absent)
                  THEN view[m] ELSE table[n][m]]

MergedOverSelf(n, view) ==          \* mutant: the test for the own id is dropped
  [m \in Node |-> IF Supersedes(view[m], table[n][m]) THEN view[m] ELSE table[n][m]]

\* n's table after it has merged view: its own entry is never overwritten.
Merged(n, view) ==
  [m \in Node |-> IF m # n /\ Supersedes(view[m], table[n][m])
                  THEN view[m] ELSE table[n][m]]

DegradedBySteps(r, age) ==          \* mutant: the severity is added, not set
  [r EXCEPT !.status = @ + age]

\* detectFailures(): age[m] thresholds have passed since n's entry for m was
\* refreshed; an entry may go from ALIVE to DEAD in one pass.
Degraded(r, age) ==
  IF r.status = DEAD THEN r
  ELSE [r EXCEPT !.status = IF age = 2 THEN DEAD ELSE IF age = 1 THEN SUSPECT ELSE @]

\* The mark stop() puts on the own record.
Farewell(r) == [gen |-> r.gen, hb |-> r.hb + 1, status |-> DEAD]

\* pickRandomPeer()
PeersNotDead(n) ==                  \* mutant: suspected peers are contacted too
  {m \in Node \ {n} : table[n][m].status # DEAD}

Peers(n) == AliveIn(table[n]) \ {n}

-----------------------------------------------------------------------------
(* Calls *)

Idle(n) == [state |-> "idle", peer |-> n, view |-> NoView]
Sent(p, v) == [state |-> "sent", peer |-> p, view |-> v]
Answered(p, v) == [state |-> "answered", peer |-> p, view |-> v]

Call == [state : {"idle", "sent", "answered"}, peer : Node, view : View]
Request == [to : Node, view : View]

At(main, loop) == [t \in Thread |-> IF t = "main" THEN main ELSE loop]

Up(n) == pc[n]["main"] # "down"

\* Handlers run on the engine's only execution stream, which is main's own
\* while start() is not blocked in an exchange.
Serving(n) == Up(n) /\ (pc[n]["main"] = "boot" => call[n]["main"].state # "idle")

\* Where a thread goes when doGossipRound() returns.
AfterRound(t) == IF t = "main" THEN "join" ELSE "sleep"

SendTo(n, t, p) == call' = [call EXCEPT ![n][t] = Sent(p, table[n])]

\* What becomes of requests nobody waits for: each arrives later or is lost.
Abandon(reqs) ==
  \E kept \in SUBSET reqs :
     /\ Cardinality(late \cup kept) <= MaxLate
     /\ late' = late \cup kept

\* The critical section of mergeView() and the second one of doGossipRound():
\* merge, and notifyChange() when the table changed.
AbsorbIfAliveChanges(n, view) ==    \* mutant: compared with the table before the merge
  LET merged == Merged(n, view) IN
  /\ table' = [table EXCEPT ![n] = merged]
  /\ ring' = [ring EXCEPT ![n] =
                IF AliveIn(merged) = AliveIn(table[n]) THEN @ ELSE AliveIn(merged)]

Absorb(n, view) ==
  LET merged == Merged(n, view) IN
  /\ table' = [table EXCEPT ![n] = merged]
  /\ ring' = [ring EXCEPT ![n] = IF merged = table[n] THEN @ ELSE AliveIn(merged)]

-----------------------------------------------------------------------------
(* Start-up: the constructor and start() *)

Init ==
  /\ disk = [n \in Node |-> 0]
  /\ pc = [n \in Node |-> At("down", "off")]
  /\ running = [n \in Node |-> FALSE]
  /\ toContact = [n \in Node |-> {}]
  /\ table = [n \in Node |-> NoView]
  /\ ring = [n \in Node |-> {}]
  /\ call = [n \in Node |-> [t \in Thread |-> Idle(n)]]
  /\ late = {}
  /\ farewell = [n \in Node |-> 0]

StartSameGeneration(n) ==           \* mutant: the generation is not increased
  /\ ~Up(n)
  /\ disk[n] < MaxGen
  /\ disk' = [disk EXCEPT ![n] = 1]
  /\ table' = [table EXCEPT ![n] = [NoView EXCEPT ![n] = Self(1)]]
  /\ pc' = [pc EXCEPT ![n]["main"] = "boot"]
  /\ running' = [running EXCEPT ![n] = TRUE]
  /\ toContact' = [toContact EXCEPT ![n] = Seeds \ {n}]
  /\ farewell' = [farewell EXCEPT ![n] = 0]
  /\ UNCHANGED <<ring, call, late>>

Start(n) ==
  /\ ~Up(n)
  /\ disk[n] < MaxGen
  /\ disk' = [disk EXCEPT ![n] = @ + 1]
  /\ table' = [table EXCEPT ![n] = [NoView EXCEPT ![n] = Self(disk[n] + 1)]]
  /\ pc' = [pc EXCEPT ![n]["main"] = "boot"]
  /\ running' = [running EXCEPT ![n] = TRUE]
  /\ toContact' = [toContact EXCEPT ![n] = Seeds \ {n}]
  /\ farewell' = [farewell EXCEPT ![n] = 0]
  /\ UNCHANGED <<ring, call, late>>

\* start(), first half of the loop body: snapshot the table, call the seed.
ContactSeed(n, s) ==
  /\ pc[n]["main"] = "boot"
  /\ call[n]["main"].state = "idle"
  /\ s \in toContact[n]
  /\ toContact' = [toContact EXCEPT ![n] = @ \ {s}]
  /\ SendTo(n, "main", s)
  /\ UNCHANGED <<disk, pc, running, table, ring, late, farewell>>

\* start(), second half: the response is copied over the table as it is, with no
\* comparison of generations or heartbeats and no notifyChange().
SeedReply(n) ==
  LET view == call[n]["main"].view IN
  /\ pc[n]["main"] = "boot"
  /\ call[n]["main"].state = "answered"
  /\ table' = [table EXCEPT ![n] =
                 [m \in Node |-> IF m = n \/ view[m] = Absent THEN @[m] ELSE view[m]]]
  /\ call' = [call EXCEPT ![n]["main"] = Idle(n)]
  /\ UNCHANGED <<disk, pc, running, toContact, ring, late, farewell>>

\* All seeds were tried: the gossip thread is created.
Started(n) ==
  /\ pc[n]["main"] = "boot"
  /\ call[n]["main"].state = "idle"
  /\ toContact[n] = {}
  /\ pc' = [pc EXCEPT ![n] = At("up", "sleep")]
  /\ UNCHANGED <<disk, running, toContact, table, ring, call, late, farewell>>

-----------------------------------------------------------------------------
(* The gossip thread *)

\* sleep_for() returns; the tests of running_ on both sides of it.
Wake(n) ==
  /\ pc[n]["loop"] = "sleep"
  /\ running[n] => table[n][n].hb < MaxHb
  /\ pc' = [pc EXCEPT ![n]["loop"] = IF running[n] THEN "beat" ELSE "off"]
  /\ UNCHANGED <<disk, running, toContact, table, ring, call, late, farewell>>

\* The critical section of gossipLoop(): own heartbeat, then detectFailures().
Beat(n, age) ==
  LET seen == [m \in Node |-> IF m = n THEN table[n][n] ELSE Degraded(table[n][m], age[m])]
  IN
  /\ pc[n]["loop"] = "beat"
  /\ table' = [table EXCEPT ![n] = [seen EXCEPT ![n].hb = @ + 1]]
  /\ ring' = [ring EXCEPT ![n] = IF seen = table[n] THEN @ ELSE AliveIn(seen)]
  /\ pc' = [pc EXCEPT ![n]["loop"] = "round"]
  /\ UNCHANGED <<disk, running, toContact, call, late, farewell>>

-----------------------------------------------------------------------------
(* One gossip round, run by the gossip thread and by stop() *)

NoPeer(n, t) ==
  /\ pc[n][t] = "round"
  /\ call[n][t].state = "idle"
  /\ Peers(n) = {}
  /\ pc' = [pc EXCEPT ![n][t] = AfterRound(t)]
  /\ UNCHANGED <<disk, running, toContact, table, ring, call, late, farewell>>

RoundSend(n, t) ==
  /\ pc[n][t] = "round"
  /\ call[n][t].state = "idle"
  /\ \E p \in Peers(n) : SendTo(n, t, p)
  /\ UNCHANGED <<disk, pc, running, toContact, table, ring, late, farewell>>

RoundReply(n, t) ==
  /\ pc[n][t] = "round"
  /\ call[n][t].state = "answered"
  /\ Absorb(n, call[n][t].view)
  /\ call' = [call EXCEPT ![n][t] = Idle(n)]
  /\ pc' = [pc EXCEPT ![n][t] = AfterRound(t)]
  /\ UNCHANGED <<disk, running, toContact, late, farewell>>

-----------------------------------------------------------------------------
(* The exchange as the peer and the network see it *)

\* gossip_exchange at the peer: merge the caller's view, answer with the result.
Serve(n, t) ==
  LET p == call[n][t].peer IN
  /\ call[n][t].state = "sent"
  /\ Serving(p)
  /\ Absorb(p, call[n][t].view)
  /\ call' = [call EXCEPT ![n][t] = Answered(p, table'[p])]
  /\ UNCHANGED <<disk, pc, running, toContact, late, farewell>>

\* The same for a request whose caller gave up: its answer goes nowhere.
ServeLate(r) ==
  /\ Serving(r.to)
  /\ Absorb(r.to, r.view)
  /\ late' = late \ {r}
  /\ UNCHANGED <<disk, pc, running, toContact, call, farewell>>

GiveUpWhenAnswered(n, t) ==         \* mutant: the exchange is made without .timed()
  /\ call[n][t].state = "answered"
  /\ call' = [call EXCEPT ![n][t] = Idle(n)]
  /\ pc' = [pc EXCEPT ![n][t] = IF @ = "round" THEN AfterRound(t) ELSE @]
  /\ UNCHANGED <<disk, running, toContact, table, ring, late, farewell>>

\* The exchange times out or fails: the request or the answer is lost or late.
GiveUp(n, t) ==
  LET c == call[n][t] IN
  /\ c.state # "idle"
  /\ Abandon(IF c.state = "sent" THEN {[to |-> c.peer, view |-> c.view]} ELSE {})
  /\ call' = [call EXCEPT ![n][t] = Idle(n)]
  /\ pc' = [pc EXCEPT ![n][t] = IF @ = "round" THEN AfterRound(t) ELSE @]
  /\ UNCHANGED <<disk, running, toContact, table, ring, farewell>>

-----------------------------------------------------------------------------
(* Shutdown *)

StopSameHeartbeat(n) ==             \* mutant: the heartbeat is not increased
  /\ n \in MayStop
  /\ pc[n]["main"] = "up"
  /\ running' = [running EXCEPT ![n] = FALSE]
  /\ table' = [table EXCEPT ![n][n].status = DEAD]
  /\ farewell' = [farewell EXCEPT ![n] = table[n][n].hb]
  /\ pc' = [pc EXCEPT ![n]["main"] = "round"]
  /\ UNCHANGED <<disk, toContact, ring, call, late>>

\* stop(): running_ is cleared and the own record is marked DEAD, then one last
\* round.  The gossip thread may be past its test of running_ and beat once more.
Stop(n) ==
  /\ n \in MayStop
  /\ pc[n]["main"] = "up"
  /\ running' = [running EXCEPT ![n] = FALSE]
  /\ table' = [table EXCEPT ![n][n] = Farewell(@)]
  /\ farewell' = [farewell EXCEPT ![n] = table[n][n].hb + 1]
  /\ pc' = [pc EXCEPT ![n]["main"] = "round"]
  /\ UNCHANGED <<disk, toContact, ring, call, late>>

\* The process is gone and its memory with it.
Vanish(n) ==
  /\ pc' = [pc EXCEPT ![n] = At("down", "off")]
  /\ running' = [running EXCEPT ![n] = FALSE]
  /\ toContact' = [toContact EXCEPT ![n] = {}]
  /\ table' = [table EXCEPT ![n] = NoView]
  /\ ring' = [ring EXCEPT ![n] = {}]
  /\ call' = [call EXCEPT ![n] = [t \in Thread |-> Idle(n)]]
  /\ UNCHANGED <<disk, farewell>>

\* stop() has joined the gossip thread; the engine is finalized.
Leave(n) ==
  /\ pc[n] = At("join", "off")
  /\ Vanish(n)
  /\ UNCHANGED late

\* The process dies at any point; its requests may already be under way.
Crash(n) ==
  /\ n \in MayCrash
  /\ Up(n)
  /\ Abandon({[to |-> call[n][t].peer, view |-> call[n][t].view] :
                t \in {u \in Thread : call[n][u].state = "sent"}})
  /\ Vanish(n)

-----------------------------------------------------------------------------

GossipRound(n, t) == NoPeer(n, t) \/ RoundSend(n, t) \/ RoundReply(n, t)

MainStep(n) ==
  \/ \E s \in Seeds : ContactSeed(n, s)
  \/ SeedReply(n)
  \/ Started(n)
  \/ GossipRound(n, "main")
  \/ GiveUp(n, "main")
  \/ Leave(n)

LoopStep(n) ==
  \/ Wake(n)
  \/ \E age \in [Node \ {n} -> 0..2] : Beat(n, age)
  \/ GossipRound(n, "loop")
  \/ GiveUp(n, "loop")

Next ==
  \/ \E n \in Node :
       \/ Start(n) \/ Stop(n) \/ Crash(n)
       \/ MainStep(n)
       \/ LoopStep(n)
       \/ \E t \in Thread : Serve(n, t)
  \/ \E r \in late : ServeLate(r)

Spec == Init /\ [][Next]_vars

\* Both threads of a process keep running: a sleep ends, the mutex is free again
\* after each critical section, and an exchange returns or times out.  Nothing is
\* promised about delivery, about crashes, or about when a server is started.
Fairness == \A n \in Node : WF_vars(MainStep(n)) /\ WF_vars(LoopStep(n))

FairSpec == Spec /\ Fairness

-----------------------------------------------------------------------------
(* Types *)

MainPC == {"down", "boot", "up", "round", "join"}
LoopPC == {"off", "sleep", "beat", "round"}

\* Every variable keeps its type, and the two threads are where their code can be.
TypeOK ==
  /\ disk \in [Node -> Nat]
  /\ pc \in [Node -> [Thread -> MainPC \cup LoopPC]]
  /\ \A n \in Node : pc[n]["main"] \in MainPC /\ pc[n]["loop"] \in LoopPC
  /\ running \in [Node -> BOOLEAN]
  /\ toContact \in [Node -> SUBSET Node]
  /\ table \in [Node -> View]
  /\ ring \in [Node -> SUBSET Node]
  /\ call \in [Node -> [Thread -> Call]]
  /\ late \in SUBSET Request
  /\ farewell \in [Node -> Nat]

-----------------------------------------------------------------------------
(* Safety *)

\* Every view there is: in a table, in a request, in an answer.
Views ==
  {table[n] : n \in Node} \cup {call[n][t].view : n \in Node, t \in Thread}
    \cup {r.view : r \in late}

\* r is a record m has issued: its generation is one m has saved, and in m's
\* current incarnation its heartbeat is at most m's own.
Issued(r, m) ==
  /\ r.gen <= disk[m]
  /\ Up(m) /\ r.gen = disk[m] => r.hb <= table[m][m].hb

\* r does not deny a departure that m has announced.
Final(r, m) ==
  farewell[m] # 0 /\ r.gen = disk[m] /\ r.hb >= farewell[m] => r.status = DEAD

\* Nobody holds or carries a record that its subject has not issued, however views
\* are merged, relayed, delayed and copied (loadGeneration/saveGeneration,
\* mergeView, doGossipRound and start() never invent a record).
NeverAheadOfOwner == \A v \in Views, m \in Node : Issued(v[m], m)

\* A process never adopts a peer's verdict about itself: whatever arrives, and
\* however many nodes have declared it dead, its own record carries the generation
\* it was started with and stays ALIVE until stop() (mergeView "never overwrite
\* self from peer", doGossipRound, start(), detectFailures).
OwnRecordIsOwn ==
  \A n \in Node : Up(n) =>
     /\ table[n][n].gen = disk[n]
     /\ table[n][n].status = IF pc[n]["main"] \in {"boot", "up"} THEN ALIVE ELSE DEAD

\* An announced departure cannot be mistaken for life: once stop() has marked the
\* record, no copy of it with that heartbeat or a later one says anything but DEAD,
\* although the gossip thread may beat once more after the mark (stop, gossipLoop).
FarewellIsFinal == \A v \in Views, m \in Node : Final(v[m], m)

\* Once start() is over, an entry of the table only moves forward: to a later
\* generation, or in the same one to a later heartbeat, or at the same heartbeat to
\* a more severe status, whatever late and reordered views are merged, by the
\* handlers or by either thread (mergeView, doGossipRound, detectFailures, stop).
MonotoneTables ==
  [][\A n, m \in Node :
       (pc[n]["main"] \notin {"down", "boot"} /\ Up(n)')
          => (table'[n][m] = table[n][m] \/ Supersedes(table'[n][m], table[n][m]))]_vars

\* n learns something of another node, if only a heartbeat.
Learns(n) == \E m \in Node \ {n} : table'[n][m] # table[n][m]

\* start() fills the table without notifying, so a server may be ready while its ring
\* lacks the peers it holds ALIVE, and stop() does not notify either.  Any news of another
\* node makes good for it: whichever thread or handler learns it, and whether or not it
\* changes who is ALIVE, the ring is then the one of the whole table (mergeView,
\* doGossipRound, detectFailures; notifyChange compares with what the ring was built from).
RingFollowsView ==
  [][\A n \in Node :
       pc[n]["main"] \notin {"down", "boot"} /\ Up(n)' /\ Learns(n)
          => ring'[n] = AliveIn(table'[n])]_vars

\* S and the rest have lost each other: nothing held by one side, or on its way to
\* it, calls a node of the other ALIVE, and no exchange crosses.
Split(S) ==
  LET Other(n) == IF n \in S THEN Node \ S ELSE S IN
  /\ \A n \in Node :
        /\ AliveIn(table[n]) \cap Other(n) = {}
        /\ toContact[n] \cap Other(n) = {}
        /\ \A t \in Thread : /\ call[n][t].peer \notin Other(n)
                             /\ AliveIn(call[n][t].view) \cap Other(n) = {}
  /\ \A r \in late : AliveIn(r.view) \cap Other(r.to) = {}

\* Two groups that suspect each other never find each other again by gossip, however
\* long both run and even if every message is delivered: pickRandomPeer() offers
\* only ALIVE peers and the seeds are contacted by start() alone, so only a process
\* that starts can join the two views again.
SplitIsPermanent ==
  [][(\A n \in Node : ~(~Up(n) /\ Up(n)'))
        => \A S \in SUBSET Node : Split(S) => Split(S)']_vars

-----------------------------------------------------------------------------
(* The inductive invariant behind the safety properties *)

\* What a process knows of itself follows its main thread.
OwnState ==
  \A n \in Node :
     /\ ~Up(n) => table[n] = NoView
     /\ pc[n]["main"] \in {"boot", "up"} => farewell[n] = 0

\* No thread of a process that is down is anywhere in the code.
DownIsIdle ==
  \A n \in Node : ~Up(n) =>
     pc[n]["loop"] = "off" /\ \A t \in Thread : call[n][t] = Idle(n)

\* Proved inductive in GossipMembership_proofs: the records in
\* flight are bounded by what each owner keeps in its file and its own entry.
Inv == TypeOK /\ OwnState /\ DownIsIdle /\ OwnRecordIsOwn /\ NeverAheadOfOwner /\ FarewellIsFinal

-----------------------------------------------------------------------------
(* Liveness *)

\* A server that was told to stop goes down: stop() waits for a last exchange and
\* joins the gossip thread, which may itself be blocked in an exchange with a peer
\* that is dead or stopping and waiting likewise.
ShutdownCompletes ==
  \A n \in Node : (pc[n]["main"] = "round") ~> ~Up(n)

-----------------------------------------------------------------------------
(* What the comments say and the code does not do *)

\* "stale generation, ignore" (GossipMembership.cpp:160): a record of an earlier
\* generation never replaces one of a later generation in a running process.
StaleGenerationIgnored ==
  [][\A n, m \in Node : Up(n) /\ Up(n)' => table'[n][m].gen >= table[n][m].gen]_vars

=============================================================================
