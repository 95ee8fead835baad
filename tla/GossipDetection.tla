--------------------------- MODULE GossipDetection ---------------------------
(***************************************************************************)
(* Failure detection by gossip in time: what the servers of one cluster    *)
(* make of one of them, the subject, which runs and may die.               *)
(* GossipMembership.cpp, gossipLoop(), detectFailures(), doGossipRound()   *)
(* and mergeView().                                                        *)
(*                                                                         *)
(* Members are merged and judged one by one, so a view is cut down here to *)
(* its entry for the subject, with the age that GossipMembership.tla       *)
(* leaves open.  Whether the other servers are ALIVE for each other is not *)
(* kept, and a server may or may not contact any of them.                  *)
(*                                                                         *)
(* Time is counted in ticks.  A step takes none; a sleep takes             *)
(* gossip_interval_ms_, an exchange up to as much, after which it has      *)
(* failed and is not delivered any more.  A thread whose sleep is over     *)
(* runs at once.  No server restarts, so generations do not matter.        *)
(***************************************************************************)
EXTENDS Naturals, FiniteSets

CONSTANTS
  Node,
  Subject,     \* the server that is watched
  Situations   \* clusters, one of these in each behaviour

\* members: the servers of the cluster; lossy: exchanges may be lost; mortal: the
\* subject may die; heard: the subject holds some other server ALIVE; interval, suspect, dead: the times of config.json in ticks;
\* beats: a bound on the subject's heartbeats, time ends when the next one is due.
Situation ==
  [members : SUBSET Node, lossy : BOOLEAN, mortal : BOOLEAN, heard : BOOLEAN,
   interval : Nat \ {0}, suspect : Nat, dead : Nat, beats : Nat]

ASSUME DetectionAssumption ==
  /\ IsFiniteSet(Node) /\ Subject \in Node
  /\ Situations \subseteq Situation
  /\ \A s \in Situations : Subject \in s.members /\ s.suspect <= s.dead

VARIABLES
  cluster, \* the situation, chosen once
  up,      \* whether the subject runs
  hb,      \* heartbeat_counter of the subject
  entry,   \* entry[n]: what n's member_table_ holds of the subject, and its age
  loop,    \* loop[n]: where the gossip thread of n is
  since,   \* since[n]: ticks since it went to sleep or made its call
  call,    \* call[n]: the exchange it has made
  gone     \* history: ticks since the subject died

vars == <<cluster, up, hb, entry, loop, since, call, gone>>

ALIVE == 0
SUSPECT == 1
DEAD == 2

Members == cluster.members
Watchers == Members \ {Subject}

\* A record on its way: it has no age.
Record == [hb : 0..cluster.beats, status : {ALIVE, SUSPECT, DEAD}]
Own == [hb |-> hb, status |-> ALIVE]
Cut(e) == [hb |-> e.hb, status |-> e.status]
RecordOf(n) == IF n = Subject THEN Own ELSE Cut(entry[n])

NoCall == [state |-> "none", peer |-> Subject, record |-> [hb |-> 0, status |-> ALIVE]]
Call == [state : {"none", "sent", "answered"}, peer : Node, record : Record]

\* Ages and gone are counted up to where they make no difference any more.
AgeLimit == cluster.dead + 1

\* How long a heartbeat of a dead subject may pass for a sign of life at one watcher
\* and on its way to the next: whoever adopts it holds it ALIVE until the first pass of
\* detectFailures() past the threshold, two intervals later at most, and what it sends
\* or answers just before is up to one more on its way.
AliveTurn == cluster.suspect + 3 * cluster.interval

\* ... and how long a suspicion of it may, which starts the clock anew.
DeadTurn == cluster.dead + 3 * cluster.interval

\* A suspicion may also meet a watcher in the middle of its turn with the heartbeat.
\* Unless the thresholds are far apart, that is later than the turns of suspicion say.
Overlap ==
  LET early == 2 * (cluster.suspect + cluster.interval) IN
  IF cluster.dead >= early THEN 0 ELSE early - cluster.dead

\* Every watcher may have its turn.
AliveBound == Cardinality(Watchers) * AliveTurn
DeadBound == Cardinality(Watchers) * DeadTurn + Overlap

-----------------------------------------------------------------------------

IsNews(e, r) == r.hb > e.hb \/ (r.hb = e.hb /\ r.status > e.status)

RefreshedByMention(e, r) ==         \* mutant: any mention counts as news
  IF IsNews(e, r)
  THEN [hb |-> r.hb, status |-> r.status, age |-> 0] ELSE [e EXCEPT !.age = 0]

NotRefreshed(e, r) ==               \* mutant: last_updated_ms is not set
  IF IsNews(e, r)
  THEN [hb |-> r.hb, status |-> r.status, age |-> e.age] ELSE e

\* mergeView() and doGossipRound() for one entry: what is adopted is new now,
\* be it a heartbeat or only a worse opinion.
Adopted(e, r) ==
  IF IsNews(e, r)
  THEN [hb |-> r.hb, status |-> r.status, age |-> 0] ELSE e

SuspectedOnly(e) ==                 \* mutant: the second test is left out
  IF e.status = ALIVE /\ e.age > cluster.suspect THEN [e EXCEPT !.status = SUSPECT] ELSE e

JudgedWorse(e) ==                   \* mutant: the second test does not ask for SUSPECT
  LET e1 == IF e.status = ALIVE /\ e.age > cluster.suspect
            THEN [e EXCEPT !.status = SUSPECT] ELSE e
  IN  IF e1.age > cluster.dead THEN [e1 EXCEPT !.status = @ + 1] ELSE e1

\* detectFailures(): two tests, one after the other.
Judged(e) ==
  LET e1 == IF e.status = ALIVE /\ e.age > cluster.suspect
            THEN [e EXCEPT !.status = SUSPECT] ELSE e
  IN  IF e1.status = SUSPECT /\ e1.age > cluster.dead
      THEN [e1 EXCEPT !.status = DEAD] ELSE e1

\* n merges a record; the subject ignores what others say of it.
Learn(n, r) ==
  entry' = IF n = Subject THEN entry ELSE [entry EXCEPT ![n] = Adopted(@, r)]

Runs(n) == n \in Members /\ (n = Subject => up)

\* Everybody knows everybody; the threads sleep, out of step with each other.
Init ==
  /\ cluster \in Situations
  /\ up = TRUE
  /\ hb = 0
  /\ entry = [n \in Node |-> [hb |-> 0, status |-> ALIVE, age |-> 0]]
  /\ loop = [n \in Node |-> "sleep"]
  /\ since \in [Node -> 0..cluster.interval]
  /\ \A n \in Node \ Members : since[n] = 0
  /\ call = [n \in Node |-> NoCall]
  /\ gone = 0

-----------------------------------------------------------------------------
(* The gossip thread *)

\* The sleep is over: the own heartbeat, then detectFailures().
Beat(n) ==
  /\ Runs(n)
  /\ loop[n] = "sleep" /\ since[n] = cluster.interval
  /\ n = Subject => hb < cluster.beats
  /\ hb' = IF n = Subject THEN hb + 1 ELSE hb
  /\ entry' = IF n = Subject THEN entry ELSE [entry EXCEPT ![n] = Judged(@)]
  /\ loop' = [loop EXCEPT ![n] = "pick"]
  /\ UNCHANGED <<cluster, up, since, call, gone>>

GoesTo(n, where) ==
  /\ loop' = [loop EXCEPT ![n] = where]
  /\ since' = [since EXCEPT ![n] = 0]

\* pickRandomPeer() and the snapshot: the subject is a candidate while it is ALIVE in
\* n's table, the others may be.
Send(n, p) ==
  /\ Runs(n)
  /\ loop[n] = "pick"
  /\ p \in Members \ {n}
  /\ p = Subject => entry[n].status = ALIVE
  /\ call' = [call EXCEPT ![n] = [state |-> "sent", peer |-> p, record |-> RecordOf(n)]]
  /\ GoesTo(n, "round")
  /\ UNCHANGED <<cluster, up, hb, entry, gone>>

\* There is no peer to pick.
Skip(n) ==
  /\ Runs(n)
  /\ loop[n] = "pick"
  /\ IF n = Subject THEN ~cluster.heard ELSE entry[n].status # ALIVE
  /\ GoesTo(n, "sleep")
  /\ UNCHANGED <<cluster, up, hb, entry, call, gone>>

\* gossip_exchange at the peer: merge, and answer with the result.
Serve(n) ==
  LET p == call[n].peer IN
  /\ call[n].state = "sent"
  /\ Runs(p)
  /\ Learn(p, call[n].record)
  /\ call' = [call EXCEPT ![n].state = "answered", 
                              ![n].record = IF p = Subject THEN Own ELSE Cut(entry'[p])]
  /\ UNCHANGED <<cluster, up, hb, loop, since, gone>>

\* The answer is merged.
Reply(n) ==
  /\ Runs(n)
  /\ call[n].state = "answered"
  /\ Learn(n, call[n].record)
  /\ call' = [call EXCEPT ![n] = NoCall]
  /\ GoesTo(n, "sleep")
  /\ UNCHANGED <<cluster, up, hb, gone>>

\* The exchange has failed: by a timeout, or at once if the peer is not there.
GiveUp(n) ==
  /\ Runs(n)
  /\ call[n].state # "none"
  /\ \/ cluster.lossy /\ since[n] = cluster.interval
     \/ ~Runs(call[n].peer)
  /\ call' = [call EXCEPT ![n] = NoCall]
  /\ GoesTo(n, "sleep")
  /\ UNCHANGED <<cluster, up, hb, entry, gone>>

\* What the subject had sent before it died has not arrived in time.
Drop ==
  /\ ~up /\ call[Subject].state # "none"
  /\ call[Subject].state = "sent" => since[Subject] = cluster.interval
  /\ call' = [call EXCEPT ![Subject] = NoCall]
  /\ GoesTo(Subject, "off")
  /\ UNCHANGED <<cluster, up, hb, entry, gone>>

Crash ==
  /\ up /\ cluster.mortal
  /\ up' = FALSE
  /\ IF call[Subject].state = "sent" THEN UNCHANGED <<loop, since>> ELSE GoesTo(Subject, "off")
  /\ call' = IF call[Subject].state = "sent" THEN call ELSE [call EXCEPT ![Subject] = NoCall]
  /\ UNCHANGED <<cluster, hb, entry, gone>>

\* Time passes when nobody has something to do that is due.
Tick ==
  /\ \A n \in Members : /\ loop[n] # "pick"
                        /\ loop[n] # "off" => since[n] < cluster.interval
  /\ since' = [n \in Node |-> IF n \in Members /\ loop[n] # "off" THEN since[n] + 1 ELSE since[n]]
  /\ entry' = [n \in Node |->
       IF n \in Watchers /\ entry[n].age < AgeLimit
       THEN [entry[n] EXCEPT !.age = @ + 1] ELSE entry[n]]
  /\ gone' = IF ~up /\ gone <= DeadBound THEN gone + 1 ELSE gone
  /\ UNCHANGED <<cluster, up, hb, loop, call>>

Step(n) ==
  Beat(n) \/ Skip(n) \/ Serve(n) \/ Reply(n) \/ GiveUp(n) \/ \E p \in Node : Send(n, p)

Next == Tick \/ Crash \/ Drop \/ \E n \in Node : Step(n)

Spec == Init /\ [][Next]_vars

\* Time passes, and every thread, and every exchange before its timeout, goes on.
Fairness == WF_vars(Tick) /\ WF_vars(Drop) /\ \A n \in Node : WF_vars(Step(n))

FairSpec == Spec /\ Fairness

-----------------------------------------------------------------------------
(* Properties *)

\* Every variable keeps its type.
TypeOK ==
  /\ cluster \in Situations
  /\ up \in BOOLEAN
  /\ hb \in 0..cluster.beats
  /\ entry \in [Node -> [hb : 0..cluster.beats, status : {ALIVE, SUSPECT, DEAD}, age : 0..AgeLimit]]
  /\ loop \in [Node -> {"sleep", "pick", "round", "off"}]
  /\ since \in [Node -> 0..cluster.interval]
  /\ call \in [Node -> Call]
  /\ gone \in 0..DeadBound + 1

\* A server that died is not held ALIVE, nor short of DEAD, for longer than a bound
\* that depends on the times configured and the number of servers, although its last
\* heartbeat may reach the others one after the other, bring it back to ALIVE where it
\* was DEAD, and hearsay of a suspicion starts the clock anew (detectFailures,
\* mergeView, doGossipRound).
DetectedInTime ==
  /\ gone > AliveBound => \A n \in Watchers : entry[n].status # ALIVE
  /\ gone > DeadBound => \A n \in Watchers : entry[n].status = DEAD

\* In the end every server holds a server that died DEAD, and keeps it so.
DeadForGood == <>[](up \/ \A n \in Watchers : entry[n].status = DEAD)

\* Of two servers whose exchanges arrive in time, neither suspects the other while it
\* runs: their threads run out of step and each exchange may take all of its timeout,
\* but a threshold of three intervals, as in config.json, leaves room for both.  To be
\* the first to be suspected the subject must hold the other ALIVE until then, which is
\* what heard says (detectFailures, gossipLoop).
NoFalseAlarm ==
  (/\ up /\ cluster.heard /\ ~cluster.lossy
   /\ Cardinality(Members) = 2 /\ cluster.suspect >= 3 * cluster.interval)
    => \A n \in Watchers : entry[n].status = ALIVE

=============================================================================
