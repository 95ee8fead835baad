----------------------- MODULE GossipDetection_proofs -----------------------
(***************************************************************************)
(* Proofs about GossipDetection for every number of servers and all times. *)
(*                                                                         *)
(* DetectedInTime: the watchers that have heard of a heartbeat only become *)
(* more, so counting them bounds the time at which it may still pass for a *)
(* sign of life: one more watcher, one more turn.  Suspicion goes from one *)
(* to the next in the same way.                                            *)
(*                                                                         *)
(* NoFalseAlarm: a heartbeat of the subject is at the other server when    *)
(* its exchange ends, at most three intervals after the last one.          *)
(***************************************************************************)
EXTENDS GossipDetection, FiniteSetTheorems, TLAPS

Entry == [hb : 0..cluster.beats, status : {ALIVE, SUSPECT, DEAD}, age : 0..AgeLimit]

\* The watchers that have heard of heartbeat h, or of a later one.
Heard(h) == {v \in Watchers : entry[v].hb >= h}

\* Until when h may be taken for a sign of life, and for a suspicion, by those who have
\* heard of it.
AliveTime(h) == Cardinality(Heard(h)) * AliveTurn
DeadTime(h) == Cardinality(Heard(h)) * DeadTurn + Overlap

\* A bound on the time since the last pass of detectFailures() at n.
Waiting(n) ==
  CASE loop[n] = "sleep" -> cluster.interval + since[n]
    [] loop[n] = "round" -> since[n]
    [] OTHER -> 0

\* A thread that waits for an exchange is in its round, and a dead subject only stops.
CallInv ==
  /\ up => gone = 0
  /\ \A n \in Watchers : loop[n] # "off"
  /\ \A n \in Node : call[n].state # "none" =>
       /\ n \in Members /\ call[n].peer \in Members \ {n}
       /\ loop[n] = "round"
  /\ call[Subject].state = "none" => up \/ loop[Subject] = "off"

\* A record of the subject is of its own making, or its sender has heard of the
\* heartbeat and still has.
SentBy(e, v, r) ==
  IF v = Subject THEN r.status = ALIVE ELSE e[v].hb >= r.hb

SourceInv ==
  \A n \in Members :
    /\ call[n].state = "sent" => SentBy(entry, n, call[n].record)
    /\ call[n].state = "answered" => SentBy(entry, call[n].peer, call[n].record)

\* A heartbeat held ALIVE, or a suspicion, is not older than its turns allow: neither by
\* the age of the entry nor, when that is past the threshold, by the time since the last
\* pass.
EntryOK(n, h) ==
  /\ entry[n].status = ALIVE =>
       /\ entry[n].age <= cluster.dead =>
            gone + cluster.suspect + 2 * cluster.interval <= AliveTime(h) + entry[n].age
       /\ gone + 2 * cluster.interval <= AliveTime(h) + Waiting(n)
  /\ entry[n].status = SUSPECT =>
       /\ entry[n].age <= cluster.dead =>
            gone + cluster.dead + 2 * cluster.interval <= DeadTime(h) + entry[n].age
       /\ gone + 2 * cluster.interval <= DeadTime(h) + Waiting(n)

EntryInv == \A n \in Watchers, h \in 0..cluster.beats : entry[n].hb = h => EntryOK(n, h)

\* ... nor is it on its way.
RecordOK(n, h) ==
  /\ call[n].record.status = ALIVE => gone <= since[n] + AliveTime(h)
  /\ call[n].record.status = SUSPECT => gone <= since[n] + DeadTime(h)

RecordInv ==
  \A n \in Members, h \in 0..cluster.beats :
    call[n].state # "none" /\ call[n].record.hb = h => RecordOK(n, h)

DetectionInv == TypeOK /\ CallInv /\ SourceInv /\ EntryInv /\ RecordInv

-----------------------------------------------------------------------------
(* Type correctness *)

USE DEF ALIVE, SUSPECT, DEAD

\* A set of two.
LEMMA TwoElements ==
  ASSUME NEW a, NEW b, a # b
  PROVE  Cardinality({a, b}) = 2
<1>1. IsFiniteSet({a}) /\ Cardinality({a}) = 1
  BY FS_Singleton
<1>2. b \notin {a}
  OBVIOUS
<1>3. Cardinality({a} \cup {b}) = Cardinality({a}) + 1
  BY <1>1, <1>2, FS_AddElement
<1>4. {a, b} = {a} \cup {b}
  OBVIOUS
<1> QED
  BY <1>1, <1>3, <1>4

\* What the assumption says of the situation chosen.
LEMMA ClusterFacts ==
  ASSUME cluster \in Situations
  PROVE  /\ Subject \in Members /\ Members \subseteq Node
         /\ Watchers \subseteq Members /\ Subject \notin Watchers
         /\ IsFiniteSet(Members) /\ IsFiniteSet(Watchers) /\ Cardinality(Watchers) \in Nat
         /\ cluster.interval \in Nat \ {0} /\ cluster.suspect \in Nat /\ cluster.dead \in Nat
         /\ cluster.beats \in Nat /\ cluster.suspect <= cluster.dead
         /\ cluster.lossy \in BOOLEAN /\ cluster.mortal \in BOOLEAN /\ cluster.heard \in BOOLEAN
<1>1. cluster \in Situation
  BY DetectionAssumption
<1>2. Members \subseteq Node /\ Watchers \subseteq Node
  BY <1>1 DEF Situation, Members, Watchers
<1>3. IsFiniteSet(Members) /\ IsFiniteSet(Watchers)
  BY <1>2, DetectionAssumption, FS_Subset
<1>4. Cardinality(Watchers) \in Nat
  BY <1>3, FS_CardinalityType
<1> QED
  BY <1>1, <1>2, <1>3, <1>4, DetectionAssumption DEF Situation, Members, Watchers

\* The turns and the bounds are times.
LEMMA TurnFacts ==
  ASSUME cluster \in Situations
  PROVE  /\ AliveTurn \in Nat /\ DeadTurn \in Nat /\ Overlap \in Nat
         /\ AliveTurn = cluster.suspect + 3 * cluster.interval
         /\ DeadTurn = cluster.dead + 3 * cluster.interval
         /\ Overlap + cluster.dead >= 2 * (cluster.suspect + cluster.interval)
         /\ AliveBound \in Nat /\ DeadBound \in Nat
<1>1. /\ AliveTurn \in Nat /\ DeadTurn \in Nat /\ Overlap \in Nat
      /\ Overlap + cluster.dead >= 2 * (cluster.suspect + cluster.interval)
  BY ClusterFacts DEF AliveTurn, DeadTurn, Overlap
<1>2. \A a, b \in Nat : a * b \in Nat
  OBVIOUS
<1>3. AliveBound \in Nat /\ DeadBound \in Nat
  <2> HIDE DEF AliveTurn, DeadTurn, Overlap
  <2> QED
    BY <1>1, <1>2, ClusterFacts DEF AliveBound, DeadBound
<1> QED
  BY <1>1, <1>3 DEF AliveTurn, DeadTurn

\* What a server learns is of the same type, and so is what it judges.
LEMMA EntryTypes ==
  ASSUME cluster \in Situations, NEW e \in Entry, NEW r \in Record
  PROVE  /\ Adopted(e, r) \in Entry /\ Judged(e) \in Entry /\ Cut(e) \in Record
         /\ Adopted(e, r).hb >= e.hb /\ Judged(e).hb = e.hb
BY ClusterFacts DEF Adopted, IsNews, Judged, Cut, Entry, Record, AgeLimit

\* Types hold at the start.
LEMMA InitType == Init => TypeOK
<1> SUFFICES ASSUME Init PROVE TypeOK
  OBVIOUS
<1>1. cluster \in Situations
  BY DEF Init
<1>2. hb = 0 /\ gone = 0 /\ hb \in 0..cluster.beats /\ gone \in 0..DeadBound + 1
  BY <1>1, ClusterFacts, TurnFacts DEF Init
<1>3. entry \in [Node -> [hb : 0..cluster.beats, status : {ALIVE, SUSPECT, DEAD}, age : 0..AgeLimit]]
  BY <1>1, ClusterFacts DEF Init, AgeLimit
<1>4. call \in [Node -> Call]
  BY <1>1, ClusterFacts, DetectionAssumption DEF Init, Call, NoCall, Record
<1> QED
  BY <1>1, <1>2, <1>3, <1>4 DEF Init, TypeOK

\* Every step keeps the types; time does not run past the end of a sleep or an exchange.
LEMMA TypeStep == TypeOK /\ [Next]_vars => TypeOK'
<1> SUFFICES ASSUME TypeOK, [Next]_vars PROVE TypeOK'
  OBVIOUS
<1>0. cluster \in Situations /\ entry \in [Node -> Entry]
  BY DEF TypeOK, Entry
<1>c. cluster' = cluster
  BY DEF Next, Step, Beat, Send, Skip, Serve, Reply, GiveUp, Tick, Drop, Crash, vars
<1>d. UNCHANGED <<Members, Watchers, AgeLimit, DeadBound, Record, Entry, Call>>
  BY <1>c DEF Members, Watchers, AgeLimit, DeadBound, DeadTurn, Overlap, Record, Entry, Call
<1> DEFINE Typed ==
      /\ up' \in BOOLEAN
      /\ hb' \in 0..cluster.beats
      /\ entry' \in [Node -> Entry]
      /\ loop' \in [Node -> {"sleep", "pick", "round", "off"}]
      /\ since' \in [Node -> 0..cluster.interval]
      /\ call' \in [Node -> Call]
      /\ gone' \in 0..DeadBound + 1
<1>e. SUFFICES Typed
  BY <1>0, <1>c, <1>d DEF TypeOK, Entry
<1>f. /\ up \in BOOLEAN /\ hb \in 0..cluster.beats
      /\ loop \in [Node -> {"sleep", "pick", "round", "off"}]
      /\ since \in [Node -> 0..cluster.interval]
      /\ call \in [Node -> Call] /\ gone \in 0..DeadBound + 1
      /\ Own \in Record /\ NoCall \in Call /\ 0 \in 0..cluster.interval
  BY <1>0, ClusterFacts, DetectionAssumption DEF TypeOK, Own, NoCall, Call, Record
<1>g. \A n \in Node : RecordOf(n) \in Record
  BY <1>0, <1>f, EntryTypes DEF RecordOf
<1>l. ASSUME NEW n \in Node, NEW r \in Record, Learn(n, r) PROVE entry' \in [Node -> Entry]
  BY <1>0, <1>l, EntryTypes DEF Learn
<1>m. \A n \in Node : /\ call[n].record \in Record /\ call[n].peer \in Node
  BY <1>f DEF Call
<1> HIDE DEF Record, Entry, Call, NoCall, Own
<1>1. ASSUME NEW n \in Node, Beat(n) PROVE Typed
  <2>1. hb' \in 0..cluster.beats
    BY <1>1, <1>f, <1>0, ClusterFacts DEF Beat
  <2>2. entry' \in [Node -> Entry]
    BY <1>1, <1>0, EntryTypes, <1>g DEF Beat
  <2> QED
    BY <1>1, <1>f, <2>1, <2>2 DEF Beat
<1>2. ASSUME NEW n \in Node, NEW p \in Node, Send(n, p) PROVE Typed
  <2>1. [state |-> "sent", peer |-> p, record |-> RecordOf(n)] \in Call
    BY <1>2, <1>g DEF Call
  <2>2. call' \in [Node -> Call]
    BY <1>2, <1>f, <2>1 DEF Send
  <2> QED
    BY <1>2, <1>f, <1>0, <2>2 DEF Send, GoesTo
<1>3. ASSUME NEW n \in Node, Skip(n) PROVE Typed
  BY <1>3, <1>f, <1>0 DEF Skip, GoesTo
<1>4. ASSUME NEW n \in Node, Serve(n) PROVE Typed
  <2>1. entry' \in [Node -> Entry]
    BY <1>4, <1>l, <1>m DEF Serve
  <2>2. \A m \in Node : Cut(entry'[m]) \in Record
    BY <2>1, <1>0, <1>f, EntryTypes DEF Own
  <2>3. PICK r \in Record : call' = [call EXCEPT ![n].state = "answered", ![n].record = r]
    BY <1>4, <1>f, <1>m, <2>2 DEF Serve
  <2>4. call' \in [Node -> Call]
    BY <1>f, <2>3 DEF Call
  <2> QED
    BY <1>4, <1>f, <2>1, <2>4 DEF Serve
<1>5. ASSUME NEW n \in Node, Reply(n) PROVE Typed
  <2>1. entry' \in [Node -> Entry]
    BY <1>5, <1>l, <1>m DEF Reply
  <2> QED
    BY <1>5, <1>f, <2>1 DEF Reply, GoesTo
<1>6. ASSUME NEW n \in Node, GiveUp(n) PROVE Typed
  BY <1>6, <1>f, <1>0 DEF GiveUp, GoesTo
<1>7. ASSUME Drop PROVE Typed
  BY <1>7, <1>f, <1>0 DEF Drop, GoesTo
<1>8. ASSUME Crash PROVE Typed
  <2>1. call' \in [Node -> Call]
    BY <1>8, <1>f DEF Crash
  <2> QED
    BY <1>8, <1>f, <1>0, <2>1 DEF Crash, GoesTo
<1>9. ASSUME Tick PROVE Typed
  <2>1. entry' \in [Node -> Entry]
    <3>1. ASSUME NEW n \in Node, entry[n].age < AgeLimit
          PROVE  [entry[n] EXCEPT !.age = @ + 1] \in Entry
      BY <1>0, <3>1, ClusterFacts DEF Entry, AgeLimit
    <3> QED
      BY <1>9, <1>0, <3>1 DEF Tick
  <2>2. since' \in [Node -> 0..cluster.interval]
    <3>1. \A n \in Node : n \in Members /\ loop[n] # "off" => since[n] + 1 \in 0..cluster.interval
      BY <1>9, <1>f, <1>0, ClusterFacts DEF Tick
    <3> QED
      BY <1>9, <1>f, <3>1 DEF Tick
  <2>3. gone' \in 0..DeadBound + 1
    BY <1>9, <1>f, <1>0, TurnFacts DEF Tick
  <2> QED
    BY <1>9, <1>f, <2>1, <2>2, <2>3 DEF Tick
<1>10. CASE UNCHANGED vars
  BY <1>10, <1>f, <1>0 DEF vars
<1> QED
  BY <1>1, <1>2, <1>3, <1>4, <1>5, <1>6, <1>7, <1>8, <1>9, <1>10 DEF Next, Step

\* Every variable of GossipDetection keeps its type, for every number of servers and all
\* times.
THEOREM TypeCorrect == Spec => []TypeOK
<1> QED
  BY InitType, TypeStep, PTL DEF Spec

-----------------------------------------------------------------------------
(* Turns *)

\* The only facts on multiplication that the proofs use; the products are opaque
\* otherwise.
LEMMA Multiples ==
  /\ \A a, b \in Nat : a * b \in Nat
  /\ \A a, b, t \in Nat : a <= b => a * t <= b * t
  /\ \A a, t \in Nat : (a + 1) * t = a * t + t
<1>1. \A a, b \in Nat : a * b \in Nat
  OBVIOUS
<1>2. ASSUME NEW a \in Nat, NEW b \in Nat, NEW t \in Nat, a <= b PROVE a * t <= b * t
  <2>1. PICK d \in Nat : b = a + d
    <3>1. b - a \in Nat /\ b = a + (b - a)
      BY <1>2
    <3> QED
      BY <3>1
  <2>2. b * t = a * t + d * t /\ d * t \in Nat /\ a * t \in Nat
    BY <2>1
  <2> QED
    BY <2>2
<1>3. \A a, t \in Nat : (a + 1) * t = a * t + t
  OBVIOUS
<1> QED
  BY <1>1, <1>2, <1>3

\* The turn of a suspicion is longer than that of a heartbeat by the difference of the
\* thresholds, at each watcher.
LEMMA TwoTurns ==
  ASSUME NEW k \in Nat, NEW alive \in Nat, NEW d \in Nat
  PROVE  /\ k >= 1 => k * (alive + d) >= k * alive + d
         /\ k >= 2 => k * (alive + d) >= k * alive + 2 * d
<1>1. k * (alive + d) = k * alive + k * d /\ k * alive \in Nat /\ k * d \in Nat
  OBVIOUS
<1>2. (k >= 1 => 1 * d <= k * d) /\ (k >= 2 => 2 * d <= k * d)
  BY Multiples
<1>3. 1 * d = d
  OBVIOUS
<1> QED
  BY <1>1, <1>2, <1>3

\* Those who have heard of a heartbeat are no more than the watchers.
LEMMA HeardFacts ==
  ASSUME TypeOK, NEW h \in 0..cluster.beats
  PROVE  /\ Heard(h) \subseteq Watchers /\ IsFiniteSet(Heard(h))
         /\ Cardinality(Heard(h)) \in Nat
         /\ Cardinality(Heard(h)) <= Cardinality(Watchers)
         /\ AliveTime(h) \in Nat /\ DeadTime(h) \in Nat
         /\ AliveTime(h) <= AliveBound /\ DeadTime(h) <= DeadBound
<1>1. /\ cluster \in Situations /\ IsFiniteSet(Watchers) /\ Cardinality(Watchers) \in Nat
      /\ AliveTurn \in Nat /\ DeadTurn \in Nat /\ Overlap \in Nat
  BY ClusterFacts, TurnFacts DEF TypeOK
<1>2. Heard(h) \subseteq Watchers
  BY DEF Heard
<1>3. /\ IsFiniteSet(Heard(h)) /\ Cardinality(Heard(h)) \in Nat
      /\ Cardinality(Heard(h)) <= Cardinality(Watchers)
  BY <1>1, <1>2, FS_Subset, FS_CardinalityType
<1>4. /\ Cardinality(Heard(h)) * AliveTurn \in Nat
      /\ Cardinality(Heard(h)) * DeadTurn \in Nat
      /\ Cardinality(Watchers) * DeadTurn \in Nat
      /\ Cardinality(Heard(h)) * AliveTurn <= Cardinality(Watchers) * AliveTurn
      /\ Cardinality(Heard(h)) * DeadTurn <= Cardinality(Watchers) * DeadTurn
  BY <1>1, <1>3, Multiples
<1> QED
  BY <1>1, <1>2, <1>3, <1>4 DEF AliveTime, DeadTime, AliveBound, DeadBound

\* Who holds h has its turn; and when another has heard of it too, a suspicion that
\* interrupts the turn is not late.
LEMMA HeldFacts ==
  ASSUME TypeOK, NEW n \in Watchers, NEW h \in 0..cluster.beats, entry[n].hb = h
  PROVE  /\ AliveTime(h) >= AliveTurn
         /\ DeadTime(h) + cluster.suspect >= AliveTime(h) + cluster.dead
         /\ (\E v \in Watchers \ {n} : entry[v].hb >= h) =>
              DeadTime(h) >= AliveTime(h) + cluster.dead + 2 * cluster.interval
<1> DEFINE k == Cardinality(Heard(h))
           d == cluster.dead - cluster.suspect
<1>1. /\ cluster \in Situations /\ Subject \in Members
      /\ cluster.interval \in Nat /\ cluster.suspect \in Nat /\ cluster.dead \in Nat
      /\ cluster.suspect <= cluster.dead
      /\ AliveTurn \in Nat /\ DeadTurn = AliveTurn + d /\ d \in Nat /\ Overlap \in Nat
      /\ Overlap + cluster.dead >= 2 * (cluster.suspect + cluster.interval)
  BY ClusterFacts, TurnFacts DEF TypeOK
<1>2. n \in Heard(h) /\ k \in Nat /\ IsFiniteSet(Heard(h))
  <2>1. entry[n].hb \in Nat
    BY ClusterFacts DEF TypeOK
  <2> QED
    BY <2>1, HeardFacts DEF Heard
<1>3. k >= 1
  BY <1>2, FS_EmptySet
<1>4. AliveTime(h) = k * AliveTurn /\ DeadTime(h) = k * (AliveTurn + d) + Overlap
  BY <1>1 DEF AliveTime, DeadTime
<1>5. /\ k * AliveTurn >= AliveTurn /\ k * AliveTurn \in Nat /\ k * (AliveTurn + d) \in Nat
      /\ k * (AliveTurn + d) >= k * AliveTurn + d
  <2> HIDE DEF k, d
  <2>1. 1 * AliveTurn <= k * AliveTurn /\ 1 * AliveTurn = AliveTurn
    BY <1>1, <1>2, <1>3, Multiples
  <2> QED
    BY <1>1, <1>2, <1>3, <2>1, TwoTurns, Multiples
<1>6. ASSUME NEW v \in Watchers \ {n}, entry[v].hb >= h
      PROVE  k * (AliveTurn + d) >= k * AliveTurn + 2 * d
  <2>1. v \in Heard(h)
    BY <1>6 DEF Heard
  <2>2. Cardinality({n, v}) = 2
    BY TwoElements
  <2>3. Cardinality({n, v}) <= k
    BY <1>2, <2>1, FS_Subset
  <2> HIDE DEF k, d
  <2> QED
    BY <1>1, <1>2, <2>2, <2>3, TwoTurns
<1> QED
  BY <1>1, <1>4, <1>5, <1>6

\* Heartbeats are not forgotten, and one more watcher that hears of h adds a turn.
LEMMA HeardGrows ==
  ASSUME TypeOK, TypeOK', cluster' = cluster,
         \A v \in Watchers : entry'[v].hb >= entry[v].hb,
         NEW h \in 0..cluster.beats
  PROVE  /\ AliveTime(h)' \in Nat /\ DeadTime(h)' \in Nat
         /\ AliveTime(h)' >= AliveTime(h) /\ DeadTime(h)' >= DeadTime(h)
         /\ \A p \in Watchers : entry[p].hb < h /\ entry'[p].hb >= h =>
              /\ AliveTime(h)' >= AliveTime(h) + AliveTurn
              /\ DeadTime(h)' >= DeadTime(h) + DeadTurn
<1> DEFINE k == Cardinality(Heard(h))
           H == {v \in Watchers : entry'[v].hb >= h}
           m == Cardinality(H)
<1>1. /\ cluster \in Situations /\ Watchers \subseteq Node /\ IsFiniteSet(Watchers)
      /\ AliveTurn \in Nat /\ DeadTurn \in Nat /\ Overlap \in Nat
  BY ClusterFacts, TurnFacts DEF TypeOK
<1>2. AliveTime(h)' = m * AliveTurn /\ DeadTime(h)' = m * DeadTurn + Overlap
  <2>1. Watchers' = Watchers /\ AliveTurn' = AliveTurn /\ DeadTurn' = DeadTurn /\ Overlap' = Overlap
    BY DEF Watchers, Members, AliveTurn, DeadTurn, Overlap
  <2> QED
    BY <2>1 DEF AliveTime, DeadTime, Heard
<1>3. AliveTime(h) = k * AliveTurn /\ DeadTime(h) = k * DeadTurn + Overlap
  BY DEF AliveTime, DeadTime
<1>4. \A v \in Watchers : entry[v].hb \in Nat /\ entry'[v].hb \in Nat
  <2>1. cluster.beats \in Nat
    BY <1>1, ClusterFacts
  <2> QED
    BY <1>1, <2>1 DEF TypeOK
<1>5. Heard(h) \subseteq H /\ IsFiniteSet(H) /\ m \in Nat /\ k \in Nat /\ IsFiniteSet(Heard(h))
  <2>1. Heard(h) \subseteq H
    BY <1>1, <1>4, ClusterFacts DEF Heard
  <2>2. IsFiniteSet(H)
    BY <1>1, FS_Subset
  <2> QED
    BY <2>1, <2>2, HeardFacts, FS_CardinalityType
<1>6. k <= m
  BY <1>5, FS_Subset
<1>7. ASSUME NEW p \in Watchers, entry[p].hb < h, entry'[p].hb >= h PROVE k + 1 <= m
  <2>1. p \notin Heard(h) /\ Heard(h) \cup {p} \subseteq H
    BY <1>4, <1>5, <1>7, <1>1, ClusterFacts DEF Heard
  <2>2. Cardinality(Heard(h) \cup {p}) = k + 1
    BY <1>5, <2>1, FS_AddElement
  <2> QED
    BY <1>5, <2>1, <2>2, FS_Subset
<1> HIDE DEF k, m, H
<1>8. \A t \in Nat : /\ k * t \in Nat /\ m * t \in Nat /\ k * t <= m * t
                     /\ k + 1 <= m => k * t + t <= m * t
  <2>1. k + 1 \in Nat
    BY <1>5
  <2> QED
    BY <1>5, <1>6, <2>1, Multiples
<1> QED
  BY <1>1, <1>2, <1>3, <1>7, <1>8

-----------------------------------------------------------------------------
(* What a step changes *)

\* The situation is chosen once.
LEMMA ClusterStays == [Next]_vars => cluster' = cluster
BY DEF Next, Step, Beat, Send, Skip, Serve, Reply, GiveUp, Tick, Drop, Crash, vars

\* The type invariant, one variable at a time.
LEMMA TypeFacts ==
  ASSUME TypeOK
  PROVE  /\ cluster \in Situations /\ entry \in [Node -> Entry] /\ up \in BOOLEAN
         /\ hb \in 0..cluster.beats /\ gone \in Nat
         /\ loop \in [Node -> {"sleep", "pick", "round", "off"}]
         /\ since \in [Node -> 0..cluster.interval] /\ call \in [Node -> Call]
         /\ \A n \in Node : /\ call[n].record \in Record /\ call[n].peer \in Node
                            /\ call[n].state \in {"none", "sent", "answered"}
                            /\ Waiting(n) \in Nat /\ Waiting(n) <= 2 * cluster.interval
                            /\ since[n] \in Nat
BY ClusterFacts, TurnFacts DEF TypeOK, Entry, Call, Waiting

\* A thread passes through detectFailures() every other interval at least.
LEMMA WaitingNext ==
  ASSUME TypeOK, TypeOK', [Next]_vars, NEW n \in Node
  PROVE  Waiting(n)' \in Nat /\ Waiting(n)' <= 2 * cluster.interval
<1>1. cluster' = cluster /\ cluster.interval \in Nat
  BY ClusterStays, ClusterFacts, TypeFacts
<1>2. /\ loop' \in [Node -> {"sleep", "pick", "round", "off"}]
      /\ since' \in [Node -> 0..cluster.interval]
  BY <1>1 DEF TypeOK
<1> QED
  BY <1>1, <1>2 DEF Waiting

\* A watcher never forgets a heartbeat.
LEMMA EntriesGrow ==
  ASSUME TypeOK, [Next]_vars, NEW v \in Watchers
  PROVE  entry'[v].hb >= entry[v].hb
<1>0. /\ entry \in [Node -> Entry] /\ v \in Node /\ entry[v].hb \in Nat
      /\ \A n \in Node : call[n].record \in Record /\ call[n].peer \in Node
      /\ \A r \in Record : Adopted(entry[v], r).hb >= entry[v].hb
      /\ Judged(entry[v]).hb = entry[v].hb
  BY TypeFacts, ClusterFacts, EntryTypes DEF Entry
<1>l. ASSUME NEW p \in Node, NEW r \in Record, Learn(p, r)
      PROVE  entry'[v].hb >= entry[v].hb
  BY <1>l, <1>0 DEF Learn
<1>1. ASSUME NEW n \in Node, Beat(n) PROVE entry'[v].hb >= entry[v].hb
  BY <1>1, <1>0 DEF Beat
<1>2. ASSUME NEW n \in Node, Serve(n) \/ Reply(n) PROVE entry'[v].hb >= entry[v].hb
  BY <1>2, <1>0, <1>l DEF Serve, Reply
<1>3. ASSUME Tick PROVE entry'[v].hb >= entry[v].hb
  BY <1>3, <1>0 DEF Tick, Entry
<1>4. CASE UNCHANGED entry
  BY <1>4, <1>0
<1> QED
  BY <1>1, <1>2, <1>3, <1>4 DEF Next, Step, Send, Skip, GiveUp, Drop, Crash, vars

\* CallInv is inductive.
LEMMA CallStep == TypeOK /\ CallInv /\ [Next]_vars => CallInv'
<1> SUFFICES ASSUME TypeOK, CallInv, [Next]_vars PROVE CallInv'
  OBVIOUS
<1>0. /\ Members' = Members /\ Watchers' = Watchers
      /\ Members \subseteq Node /\ Watchers \subseteq Members
      /\ Subject \in Members /\ Subject \notin Watchers
      /\ \A n \in Members : n \in Watchers \/ n = Subject
  BY ClusterStays, ClusterFacts, TypeFacts DEF Members, Watchers
<1>1. ASSUME NEW n \in Node, Beat(n) PROVE CallInv'
  BY <1>0, <1>1, TypeFacts DEF CallInv, Beat, Runs
<1>2. ASSUME NEW n \in Node, NEW p \in Node, Send(n, p) PROVE CallInv'
  <2>1. n \in Members /\ p \in Members \ {n} /\ (n = Subject => up)
    BY <1>2 DEF Send, Runs
  <2>2. /\ call'[n].state # "none" /\ call'[n].peer = p /\ loop'[n] = "round"
        /\ \A m \in Node \ {n} : call'[m] = call[m] /\ loop'[m] = loop[m]
        /\ up' = up /\ gone' = gone
    BY <1>2, TypeFacts DEF Send, GoesTo
  <2> QED
    BY <1>0, <2>1, <2>2 DEF CallInv
<1>3. ASSUME NEW n \in Node, Skip(n) PROVE CallInv'
  BY <1>0, <1>3, TypeFacts DEF CallInv, Skip, GoesTo, Runs
<1>4. ASSUME NEW n \in Node, Serve(n) PROVE CallInv'
  <2>1. /\ \A m \in Node : call'[m].peer = call[m].peer /\ (call'[m].state = "none" <=> call[m].state = "none")
        /\ UNCHANGED <<up, loop, gone>>
    BY <1>4, TypeFacts DEF Serve, Call
  <2> QED
    BY <1>0, <2>1, DetectionAssumption DEF CallInv
<1>5. ASSUME NEW n \in Node, Reply(n) \/ GiveUp(n) PROVE CallInv'
  <2>1. n \in Members /\ (n = Subject => up)
    BY <1>5 DEF Reply, GiveUp, Runs
  <2>2. /\ call'[n].state = "none" /\ loop'[n] = "sleep"
        /\ \A m \in Node \ {n} : call'[m] = call[m] /\ loop'[m] = loop[m]
        /\ up' = up /\ gone' = gone
    BY <1>5, TypeFacts DEF Reply, GiveUp, GoesTo, NoCall
  <2> QED
    BY <1>0, <2>1, <2>2 DEF CallInv
<1>6. ASSUME Drop PROVE CallInv'
  <2>1. /\ call'[Subject].state = "none" /\ loop'[Subject] = "off"
        /\ \A m \in Node \ {Subject} : call'[m] = call[m] /\ loop'[m] = loop[m]
        /\ up' = up /\ gone' = gone
    BY <1>6, TypeFacts, DetectionAssumption DEF Drop, GoesTo, NoCall
  <2> QED
    BY <1>0, <2>1 DEF CallInv
<1>7. ASSUME Crash PROVE CallInv'
  <2>1. /\ \/ /\ call'[Subject].state = "none" /\ loop'[Subject] = "off"
              /\ \A m \in Node \ {Subject} : call'[m] = call[m] /\ loop'[m] = loop[m]
           \/ call' = call /\ loop' = loop /\ call[Subject].state = "sent"
        /\ up' = FALSE /\ gone' = gone
    BY <1>7, TypeFacts, DetectionAssumption DEF Crash, GoesTo, NoCall
  <2> QED
    BY <1>0, <2>1 DEF CallInv
<1>8. ASSUME Tick PROVE CallInv'
  BY <1>0, <1>8 DEF CallInv, Tick
<1>9. CASE UNCHANGED vars
  BY <1>0, <1>9 DEF CallInv, vars
<1> QED
  BY <1>1, <1>2, <1>3, <1>4, <1>5, <1>6, <1>7, <1>8, <1>9 DEF Next, Step

\* Who has sent a record has heard what it says, and so has who answered with one.
LEMMA SourceStep == TypeOK /\ TypeOK' /\ CallInv /\ SourceInv /\ [Next]_vars => SourceInv'
<1> SUFFICES ASSUME TypeOK, TypeOK', CallInv, SourceInv, [Next]_vars PROVE SourceInv'
  OBVIOUS
<1>0. /\ Members' = Members /\ Members \subseteq Node /\ Subject \in Members
      /\ \A n \in Members : n \in Watchers \/ n = Subject
      /\ Watchers \subseteq Node /\ Subject \notin Watchers
  BY ClusterStays, ClusterFacts, TypeFacts DEF Members, Watchers
<1>1. \A v \in Watchers : /\ entry'[v].hb >= entry[v].hb
                          /\ entry[v].hb \in Nat /\ entry'[v].hb \in Nat
  <2>1. cluster.beats \in Nat /\ cluster' = cluster
    BY TypeFacts, ClusterFacts, ClusterStays
  <2> QED
    BY <1>0, <2>1, EntriesGrow DEF TypeOK
<1>2. \A v \in Members, r \in Record : SentBy(entry, v, r) => SentBy(entry', v, r)
  <2>1. \A r \in Record : r.hb \in Nat
    BY ClusterFacts, TypeFacts DEF Record
  <2> QED
    BY <1>0, <1>1, <2>1 DEF SentBy
<1>3. ASSUME NEW m \in Members, call'[m] = call[m] \/ call'[m].state = "none"
      PROVE  /\ call'[m].state = "sent" => SentBy(entry', m, call'[m].record)
             /\ call'[m].state = "answered" => SentBy(entry', call'[m].peer, call'[m].record)
  <2>1. CASE call'[m] = call[m]
    <3>1. call[m].record \in Record /\ (call[m].state = "answered" => call[m].peer \in Members)
      BY <1>0, TypeFacts DEF CallInv
    <3> QED
      BY <1>2, <2>1, <3>1 DEF SourceInv
  <2>2. CASE call'[m].state = "none"
    BY <2>2
  <2> QED
    BY <1>3, <2>1, <2>2
<1>4. ASSUME NEW n \in Node, NEW p \in Node, Send(n, p) PROVE SourceInv'
  <2>1. n \in Members /\ \A m \in Members \ {n} : call'[m] = call[m]
    BY <1>4, <1>0, TypeFacts DEF Send, Runs
  <2>2. /\ call'[n].state = "sent" /\ call'[n].record = RecordOf(n) /\ entry' = entry
    BY <1>4, TypeFacts DEF Send
  <2>3. SentBy(entry', n, call'[n].record)
    BY <2>1, <2>2, <1>0, <1>1 DEF SentBy, RecordOf, Own, Cut
  <2> QED
    BY <1>0, <1>3, <2>1, <2>2, <2>3 DEF SourceInv
<1>5. ASSUME NEW n \in Node, Serve(n) PROVE SourceInv'
  <2>1. n \in Members /\ call[n].peer \in Members \ {n}
    BY <1>5 DEF Serve, CallInv
  <2>2. \A m \in Members \ {n} : call'[m] = call[m]
    BY <1>5, <1>0, TypeFacts DEF Serve
  <2>3. /\ call'[n].state = "answered" /\ call'[n].peer = call[n].peer
        /\ call'[n].record = IF call[n].peer = Subject THEN Own ELSE Cut(entry'[call[n].peer])
    BY <1>0, <1>5, <2>1, TypeFacts DEF Serve, Call
  <2>4. SentBy(entry', call'[n].peer, call'[n].record)
    BY <2>1, <2>3, <1>0, <1>1 DEF SentBy, Own, Cut
  <2> QED
    BY <1>0, <1>3, <2>2, <2>3, <2>4 DEF SourceInv
<1>6. CASE \A m \in Members : call'[m] = call[m] \/ call'[m].state = "none"
  BY <1>0, <1>3, <1>6 DEF SourceInv
<1>7. ASSUME NEW n \in Node, Beat(n) \/ Skip(n) \/ Reply(n) \/ GiveUp(n)
      PROVE  \A m \in Members : call'[m] = call[m] \/ call'[m].state = "none"
  BY <1>0, <1>7, TypeFacts DEF Beat, Skip, Reply, GiveUp, NoCall
<1>8. ASSUME Drop \/ Crash \/ Tick \/ UNCHANGED vars
      PROVE  \A m \in Members : call'[m] = call[m] \/ call'[m].state = "none"
  BY <1>0, <1>8, TypeFacts DEF Drop, Crash, Tick, NoCall, vars
<1> QED
  BY <1>4, <1>5, <1>6, <1>7, <1>8 DEF Next, Step

-----------------------------------------------------------------------------
(* How long a heartbeat may be held *)

\* A step in which no time passes and nobody at n judges leaves the bounds of n.
LEMMA EntryStays ==
  ASSUME TypeOK, TypeOK', [Next]_vars, EntryInv, NEW n \in Watchers,
         entry'[n] = entry[n], gone' = gone, Waiting(n)' >= Waiting(n),
         NEW h \in 0..cluster.beats, entry[n].hb = h
  PROVE  EntryOK(n, h)'
<1>1. /\ AliveTime(h)' >= AliveTime(h) /\ DeadTime(h)' >= DeadTime(h)
      /\ AliveTime(h) \in Nat /\ DeadTime(h) \in Nat
      /\ AliveTime(h)' \in Nat /\ DeadTime(h)' \in Nat
      /\ cluster' = cluster /\ h \in 0..cluster'.beats
  BY ClusterStays, EntriesGrow, HeardGrows, HeardFacts
<1>2. n \in Node
  BY ClusterFacts, TypeFacts
<1>3. /\ Waiting(n) \in Nat /\ Waiting(n)' \in Nat
      /\ entry[n].age \in Nat /\ gone \in Nat
      /\ cluster.interval \in Nat /\ cluster.suspect \in Nat /\ cluster.dead \in Nat
  BY <1>2, ClusterFacts, TypeFacts, WaitingNext DEF Entry, AgeLimit
<1>4. EntryOK(n, h)
  BY DEF EntryInv
<1> QED
  BY <1>1, <1>2, <1>3, <1>4 DEF EntryOK

\* What has been on its way for an interval at most is a turn of one more watcher, or a
\* suspicion that meets a watcher in its turn.
LEMMA EntryLearns ==
  ASSUME TypeOK, TypeOK', [Next]_vars, EntryInv, NEW p \in Watchers, NEW r \in Record,
         entry' = [entry EXCEPT ![p] = Adopted(@, r)],
         gone' = gone, Waiting(p)' >= Waiting(p),
         r.status = ALIVE => gone <= cluster.interval + AliveTime(r.hb),
         r.status = SUSPECT =>
           /\ gone <= cluster.interval + DeadTime(r.hb)
           /\ \E v \in Watchers \ {p} : entry[v].hb >= r.hb,
         NEW h \in 0..cluster.beats, entry'[p].hb = h
  PROVE  EntryOK(p, h)'
<1>0. /\ cluster' = cluster /\ h \in 0..cluster'.beats
      /\ p \in Node /\ entry[p] \in Entry
      /\ entry[p].hb \in 0..cluster.beats /\ r.hb \in 0..cluster.beats
      /\ entry[p].status \in {ALIVE, SUSPECT, DEAD} /\ r.status \in {ALIVE, SUSPECT, DEAD}
      /\ entry[p].age \in Nat /\ entry'[p] = Adopted(entry[p], r)
  BY ClusterStays, ClusterFacts, TypeFacts DEF Entry, Record, AgeLimit
<1>1. CASE ~IsNews(entry[p], r)
  <2>1. entry'[p] = entry[p]
    BY <1>0, <1>1 DEF Adopted
  <2> QED
    BY <2>1, EntryStays
<1>2. CASE IsNews(entry[p], r)
  <2>1. /\ entry'[p].hb = r.hb /\ entry'[p].status = r.status /\ entry'[p].age = 0 /\ h = r.hb
    BY <1>0, <1>2 DEF Adopted
  <2>2. /\ AliveTime(h) \in Nat /\ DeadTime(h) \in Nat
        /\ AliveTime(h)' \in Nat /\ DeadTime(h)' \in Nat
        /\ AliveTime(h)' >= AliveTime(h) /\ DeadTime(h)' >= DeadTime(h)
        /\ entry[p].hb < h => /\ AliveTime(h)' >= AliveTime(h) + AliveTurn
                              /\ DeadTime(h)' >= DeadTime(h) + DeadTurn
    BY <1>0, <2>1, EntriesGrow, HeardGrows, HeardFacts
  <2>3. /\ AliveTurn = cluster.suspect + 3 * cluster.interval
        /\ DeadTurn = cluster.dead + 3 * cluster.interval
        /\ cluster.interval \in Nat /\ cluster.suspect \in Nat /\ cluster.dead \in Nat
        /\ gone \in Nat /\ Waiting(p)' \in Nat /\ Waiting(p) \in Nat
        /\ Waiting(p) <= 2 * cluster.interval
    BY <1>0, TurnFacts, ClusterFacts, TypeFacts, WaitingNext
  <2>4. CASE r.status = ALIVE
    <3>1. entry[p].hb < h
      BY <1>0, <1>2, <2>1, <2>4, ClusterFacts, TypeFacts DEF IsNews
    <3>2. gone <= cluster.interval + AliveTime(h)
      BY <2>1, <2>4
    <3> QED
      BY <1>0, <2>1, <2>2, <2>3, <2>4, <3>1, <3>2 DEF EntryOK
  <2>5. CASE r.status = SUSPECT
    <3>1. gone <= cluster.interval + DeadTime(h)
      BY <2>1, <2>5
    <3>2. CASE entry[p].hb < h
      BY <1>0, <2>1, <2>2, <2>3, <2>5, <3>1, <3>2 DEF EntryOK
    <3>3. CASE entry[p].hb = h /\ entry[p].status = ALIVE
      <4>1. gone <= AliveTime(h)
        <5>1. EntryOK(p, h)
          BY <3>3, <1>0 DEF EntryInv
        <5> QED
          BY <5>1, <2>2, <2>3, <3>3 DEF EntryOK
      <4>2. DeadTime(h) >= AliveTime(h) + cluster.dead + 2 * cluster.interval
        BY <2>1, <2>5, <3>3, HeldFacts
      <4> QED
        BY <1>0, <2>1, <2>2, <2>3, <2>5, <4>1, <4>2 DEF EntryOK
    <3> QED
      BY <1>0, <1>2, <2>1, <2>5, <3>2, <3>3, ClusterFacts, TypeFacts DEF IsNews
  <2>6. CASE r.status = DEAD
    BY <2>1, <2>6 DEF EntryOK
  <2> QED
    BY <1>0, <2>4, <2>5, <2>6
<1> QED
  BY <1>1, <1>2

\* A pass of detectFailures() leaves ALIVE what is within the threshold, and a suspicion
\* begins with the age that the entry has.
LEMMA EntryJudged ==
  ASSUME TypeOK, TypeOK', [Next]_vars, EntryInv, NEW n \in Watchers,
         entry' = [entry EXCEPT ![n] = Judged(@)], gone' = gone,
         NEW h \in 0..cluster.beats, entry'[n].hb = h
  PROVE  EntryOK(n, h)'
<1>0. /\ cluster' = cluster /\ h \in 0..cluster'.beats
      /\ n \in Node /\ entry[n] \in Entry /\ entry[n].hb = h
      /\ entry[n].status \in {ALIVE, SUSPECT, DEAD} /\ entry[n].age \in Nat
      /\ entry'[n] = Judged(entry[n])
  BY ClusterStays, ClusterFacts, TypeFacts, EntryTypes DEF Entry, AgeLimit
<1>1. /\ AliveTime(h) \in Nat /\ DeadTime(h) \in Nat
      /\ AliveTime(h)' \in Nat /\ DeadTime(h)' \in Nat
      /\ AliveTime(h)' >= AliveTime(h) /\ DeadTime(h)' >= DeadTime(h)
      /\ DeadTime(h) + cluster.suspect >= AliveTime(h) + cluster.dead
      /\ EntryOK(n, h)
  BY <1>0, EntriesGrow, HeardGrows, HeardFacts, HeldFacts DEF EntryInv
<1>2. /\ cluster.interval \in Nat /\ cluster.suspect \in Nat /\ cluster.dead \in Nat
      /\ cluster.suspect <= cluster.dead
      /\ gone \in Nat /\ Waiting(n)' \in Nat
  BY <1>0, TurnFacts, ClusterFacts, TypeFacts, WaitingNext
<1>3. /\ entry'[n].age = entry[n].age
      /\ \/ entry'[n].status = ALIVE /\ entry[n].status = ALIVE /\ entry[n].age <= cluster.suspect
         \/ /\ entry'[n].status = SUSPECT /\ entry[n].status \in {ALIVE, SUSPECT}
            /\ entry[n].age <= cluster.dead
         \/ entry'[n].status = DEAD
  BY <1>0, <1>2 DEF Judged, Entry
<1>4. CASE entry'[n].status = ALIVE
  BY <1>0, <1>1, <1>2, <1>3, <1>4 DEF EntryOK
<1>5. CASE entry'[n].status = SUSPECT
  BY <1>0, <1>1, <1>2, <1>3, <1>5 DEF EntryOK
<1>6. CASE entry'[n].status = DEAD
  BY <1>6 DEF EntryOK
<1> QED
  BY <1>3, <1>4, <1>5, <1>6

\* Time passes for the bounds as it does for the entries and for the threads.
LEMMA EntryAges ==
  ASSUME TypeOK, TypeOK', CallInv, EntryInv, Tick, NEW n \in Watchers,
         NEW h \in 0..cluster.beats, entry'[n].hb = h
  PROVE  EntryOK(n, h)'
<1>0. /\ cluster' = cluster /\ h \in 0..cluster'.beats /\ [Next]_vars
      /\ n \in Node /\ n \in Members /\ entry[n] \in Entry /\ entry[n].age \in Nat
      /\ loop[n] \in {"sleep", "round"} /\ loop' = loop
      /\ since[n] \in Nat /\ since'[n] = since[n] + 1
  <2>1. cluster' = cluster /\ n \in Members /\ n \in Node
    BY ClusterFacts, TypeFacts DEF Tick
  <2> QED
    BY <2>1, TypeFacts DEF Tick, CallInv, Next, Entry, AgeLimit
<1>1. /\ entry'[n].hb = entry[n].hb /\ entry'[n].status = entry[n].status
      /\ entry'[n].age <= cluster.dead =>
           entry[n].age <= cluster.dead /\ entry'[n].age = entry[n].age + 1
  BY <1>0, ClusterFacts, TypeFacts DEF Tick, Entry, AgeLimit
<1>2. /\ AliveTime(h) \in Nat /\ DeadTime(h) \in Nat
      /\ AliveTime(h)' \in Nat /\ DeadTime(h)' \in Nat
      /\ AliveTime(h)' >= AliveTime(h) /\ DeadTime(h)' >= DeadTime(h)
      /\ EntryOK(n, h)
  BY <1>0, <1>1, EntriesGrow, HeardGrows, HeardFacts DEF EntryInv
<1>3. /\ gone' <= gone + 1 /\ gone \in Nat /\ gone' \in Nat
      /\ cluster.interval \in Nat /\ cluster.suspect \in Nat /\ cluster.dead \in Nat
  BY ClusterFacts, TypeFacts DEF Tick
<1>4. Waiting(n)' = Waiting(n) + 1 /\ Waiting(n) \in Nat
  BY <1>0, <1>3 DEF Waiting
<1> QED
  BY <1>0, <1>1, <1>2, <1>3, <1>4 DEF EntryOK

\* Until a thread judges, its time since the last pass only grows.
LEMMA WaitingGrows ==
  ASSUME TypeOK, CallInv, NEW n \in Watchers, NEW m \in Node,
         \/ (Beat(m) \/ Serve(m)) /\ m # n
         \/ Skip(m) \/ Serve(m) \/ Reply(m) \/ GiveUp(m)
         \/ \E p \in Node : Send(m, p)
         \/ Drop \/ Crash \/ UNCHANGED vars
  PROVE  Waiting(n)' >= Waiting(n)
<1>0. /\ n \in Node /\ n # Subject /\ cluster.interval \in Nat /\ since[n] \in 0..cluster.interval
      /\ call[n].state # "none" => loop[n] = "round"
      /\ Waiting(n) \in Nat /\ cluster' = cluster
  BY ClusterFacts, TypeFacts
     DEF CallInv, Beat, Send, Skip, Serve, Reply, GiveUp, Drop, Crash, vars
<1>1. CASE loop'[n] = loop[n] /\ since'[n] = since[n]
  BY <1>0, <1>1 DEF Waiting
<1>2. CASE /\ loop[n] = "pick" /\ loop'[n] \in {"round", "sleep"} /\ since'[n] = 0
  BY <1>0, <1>2 DEF Waiting
<1>3. CASE /\ loop[n] = "round" /\ loop'[n] = "sleep" /\ since'[n] = 0
  BY <1>0, <1>3 DEF Waiting
<1>4. CASE \E p \in Node : Send(m, p)
  BY <1>0, <1>1, <1>2, <1>4, TypeFacts DEF Send, GoesTo
<1>5. CASE Skip(m)
  BY <1>0, <1>1, <1>2, <1>5, TypeFacts DEF Skip, GoesTo
<1>6. CASE Reply(m) \/ GiveUp(m)
  BY <1>0, <1>1, <1>3, <1>6, TypeFacts DEF Reply, GiveUp, GoesTo
<1>7. CASE Beat(m) /\ m # n
  BY <1>0, <1>1, <1>7, TypeFacts DEF Beat
<1>8. CASE Serve(m) \/ UNCHANGED vars
  BY <1>0, <1>1, <1>8 DEF Serve, vars
<1>9. CASE Drop \/ Crash
  BY <1>0, <1>1, <1>9, TypeFacts DEF Drop, Crash, GoesTo
<1> QED
  BY <1>4, <1>5, <1>6, <1>7, <1>8, <1>9

\* EntryInv is kept: an entry stays, is learnt, is judged or ages.
LEMMA EntryStep ==
  ASSUME TypeOK, TypeOK', CallInv, SourceInv, EntryInv, RecordInv, [Next]_vars
  PROVE  EntryInv'
<1> SUFFICES ASSUME NEW n \in Watchers, NEW h \in 0..cluster.beats, entry'[n].hb = h
             PROVE  EntryOK(n, h)'
  BY ClusterStays DEF EntryInv, Watchers, Members
<1>0. /\ n \in Node /\ n \in Members /\ n # Subject
      /\ cluster.interval \in Nat /\ entry \in [Node -> Entry]
  BY ClusterFacts, TypeFacts
<1>1. ASSUME entry'[n] = entry[n], gone' = gone, NEW m \in Node,
             \/ (Beat(m) \/ Serve(m)) /\ m # n
             \/ Skip(m) \/ Serve(m) \/ Reply(m) \/ GiveUp(m)
             \/ \E p \in Node : Send(m, p)
             \/ Drop \/ Crash \/ UNCHANGED vars
      PROVE  EntryOK(n, h)'
  BY <1>1, WaitingGrows, EntryStays
<1>2. ASSUME NEW m \in Node, Beat(m) PROVE EntryOK(n, h)'
  <2>1. CASE m = n
    BY <1>0, <1>2, <2>1, EntryJudged DEF Beat
  <2>2. CASE m # n
    <3>1. entry'[n] = entry[n] /\ gone' = gone
      BY <1>0, <1>2, <2>2 DEF Beat
    <3> QED
      BY <1>1, <1>2, <2>2, <3>1
  <2> QED
    BY <2>1, <2>2
<1>3. ASSUME NEW m \in Members, NEW v \in Members, v # n, call[m].state # "none",
             SentBy(entry, v, call[m].record), Learn(n, call[m].record),
             gone' = gone, Waiting(n)' >= Waiting(n)
      PROVE  EntryOK(n, h)'
  <2> DEFINE r == call[m].record
  <2>1. /\ m \in Node /\ r \in Record /\ r.hb \in 0..cluster.beats
        /\ since[m] \in Nat /\ since[m] <= cluster.interval
    BY ClusterFacts, TypeFacts DEF Record
  <2>2. RecordOK(m, r.hb)
    BY <1>3, <2>1 DEF RecordInv
  <2>3. /\ AliveTime(r.hb) \in Nat /\ DeadTime(r.hb) \in Nat /\ gone \in Nat
    BY <2>1, HeardFacts, TypeFacts
  <2>4. r.status = ALIVE => gone <= cluster.interval + AliveTime(r.hb)
    BY <1>0, <2>1, <2>2, <2>3 DEF RecordOK
  <2>5. r.status = SUSPECT => gone <= cluster.interval + DeadTime(r.hb)
    BY <1>0, <2>1, <2>2, <2>3 DEF RecordOK
  <2>6. r.status = SUSPECT => v \in Watchers \ {n} /\ entry[v].hb >= r.hb
    BY <1>3 DEF SentBy, Watchers
  <2>7. entry' = [entry EXCEPT ![n] = Adopted(@, r)]
    BY <1>0, <1>3 DEF Learn
  <2> HIDE DEF r
  <2> QED
    BY <1>3, <2>1, <2>4, <2>5, <2>6, <2>7, EntryLearns
<1>4. ASSUME NEW m \in Node, Serve(m) PROVE EntryOK(n, h)'
  <2>1. /\ m \in Members /\ call[m].peer \in Members \ {m} /\ call[m].state = "sent"
        /\ Learn(call[m].peer, call[m].record) /\ gone' = gone
    BY <1>4 DEF Serve, CallInv
  <2>2. CASE call[m].peer = n
    <3>1. SentBy(entry, m, call[m].record)
      BY <2>1 DEF SourceInv
    <3>2. Waiting(n)' >= Waiting(n)
      BY <1>4, WaitingGrows
    <3> QED
      BY <1>3, <2>1, <2>2, <3>1, <3>2
  <2>3. CASE call[m].peer # n
    <3>1. entry'[n] = entry[n]
      BY <1>0, <2>1, <2>3 DEF Learn
    <3> QED
      BY <1>1, <1>4, <2>1, <3>1
  <2> QED
    BY <2>2, <2>3
<1>5. ASSUME NEW m \in Node, Reply(m) PROVE EntryOK(n, h)'
  <2>1. /\ m \in Members /\ call[m].peer \in Members \ {m} /\ call[m].state = "answered"
        /\ Learn(m, call[m].record) /\ gone' = gone
    BY <1>5 DEF Reply, CallInv
  <2>2. CASE m = n
    <3>1. SentBy(entry, call[m].peer, call[m].record)
      BY <2>1 DEF SourceInv
    <3>2. Waiting(n)' >= Waiting(n)
      BY <1>5, WaitingGrows
    <3> QED
      BY <1>3, <2>1, <2>2, <3>1, <3>2
  <2>3. CASE m # n
    <3>1. entry'[n] = entry[n]
      BY <1>0, <2>1, <2>3 DEF Learn
    <3> QED
      BY <1>1, <1>5, <2>1, <3>1
  <2> QED
    BY <2>2, <2>3
<1>6. ASSUME NEW m \in Node, Skip(m) \/ GiveUp(m) \/ \E p \in Node : Send(m, p)
      PROVE  EntryOK(n, h)'
  <2>1. entry' = entry /\ gone' = gone
    BY <1>6 DEF Skip, GiveUp, Send
  <2> QED
    BY <1>1, <1>6, <2>1
<1>7. ASSUME Drop \/ Crash \/ UNCHANGED vars PROVE EntryOK(n, h)'
  <2>1. entry' = entry /\ gone' = gone
    BY <1>7 DEF Drop, Crash, vars
  <2> QED
    BY <1>0, <1>1, <1>7, <2>1
<1>8. ASSUME Tick PROVE EntryOK(n, h)'
  BY <1>8, EntryAges
<1> QED
  BY <1>2, <1>4, <1>5, <1>6, <1>7, <1>8 DEF Next, Step

\* A record starts with what its sender holds, or with what the subject says of itself.
LEMMA RecordStep ==
  ASSUME TypeOK, TypeOK', CallInv, EntryInv, EntryInv', RecordInv, [Next]_vars
  PROVE  RecordInv'
<1> SUFFICES ASSUME NEW n \in Members, NEW h \in 0..cluster.beats,
                    call'[n].state # "none", call'[n].record.hb = h
             PROVE  RecordOK(n, h)'
  BY ClusterStays DEF RecordInv, Members
<1>0. /\ n \in Node /\ Members' = Members /\ Watchers' = Watchers /\ cluster' = cluster
      /\ Watchers \subseteq Node /\ (n \in Watchers \/ n = Subject)
      /\ cluster.interval \in Nat /\ gone \in Nat /\ gone' \in Nat
      /\ since[n] \in Nat /\ since'[n] \in Nat
  <2>1. n \in Node /\ cluster' = cluster /\ cluster.interval \in Nat
    BY ClusterStays, ClusterFacts, TypeFacts
  <2>2. since'[n] \in Nat /\ gone' \in Nat
    <3>1. since'[n] \in 0..cluster.interval /\ DeadBound' = DeadBound /\ gone' \in 0..DeadBound' + 1
      BY <2>1 DEF TypeOK, DeadBound, DeadTurn, Overlap, Watchers, Members
    <3>2. DeadBound \in Nat
      BY TurnFacts, TypeFacts
    <3> QED
      BY <2>1, <3>1, <3>2
  <2> QED
    BY <2>1, <2>2, ClusterFacts, TypeFacts DEF Members, Watchers
<1>1. /\ AliveTime(h) \in Nat /\ DeadTime(h) \in Nat
      /\ AliveTime(h)' \in Nat /\ DeadTime(h)' \in Nat
      /\ AliveTime(h)' >= AliveTime(h) /\ DeadTime(h)' >= DeadTime(h)
  BY <1>0, EntriesGrow, HeardGrows, HeardFacts
<1>2. ASSUME call'[n] = call[n], gone' + since[n] <= gone + since'[n]
      PROVE  RecordOK(n, h)'
  <2>1. RecordOK(n, h)
    BY <1>2 DEF RecordInv
  <2> QED
    BY <1>0, <1>1, <1>2, <2>1 DEF RecordOK
<1>3. ASSUME gone' = 0 PROVE RecordOK(n, h)'
  BY <1>0, <1>1, <1>3 DEF RecordOK
<1>4. ASSUME NEW m \in Node, Beat(m) \/ Skip(m) \/ Reply(m) \/ GiveUp(m)
      PROVE  RecordOK(n, h)'
  <2>1. CASE m = n /\ ~Beat(m)
    <3>1. call'[n].state = "none"
      BY <1>0, <1>4, <2>1, TypeFacts DEF Skip, Reply, GiveUp, NoCall, CallInv
    <3> QED
      BY <3>1
  <2>2. CASE m # n \/ Beat(m)
    <3>1. call'[n] = call[n] /\ gone' = gone /\ since'[n] = since[n]
      BY <1>0, <1>4, <2>2, TypeFacts DEF Beat, Skip, Reply, GiveUp, GoesTo
    <3> QED
      BY <1>0, <1>2, <3>1
  <2> QED
    BY <2>1, <2>2
<1>5. ASSUME NEW m \in Node, NEW p \in Node, Send(m, p) PROVE RecordOK(n, h)'
  <2>1. CASE m # n
    <3>1. call'[n] = call[n] /\ gone' = gone /\ since'[n] = since[n]
      BY <1>0, <1>5, <2>1, TypeFacts DEF Send, GoesTo
    <3> QED
      BY <1>0, <1>2, <3>1
  <2>2. CASE m = n
    <3>1. /\ call'[n].record = RecordOf(n) /\ gone' = gone /\ loop[n] = "pick"
          /\ n = Subject => up
      BY <1>0, <1>5, <2>2, TypeFacts DEF Send, Runs
    <3>2. CASE n = Subject
      BY <1>3, <3>1, <3>2 DEF CallInv
    <3>3. CASE n \in Watchers
      <4>1. call'[n].record = Cut(entry[n])
        BY <1>0, <3>1, <3>3, TypeFacts, ClusterFacts DEF RecordOf
      <4>2. entry[n].hb = h /\ Waiting(n) = 0
        BY <3>1, <4>1 DEF Cut, Waiting
      <4>3. EntryOK(n, h)
        BY <3>3, <4>2 DEF EntryInv
      <4> QED
        BY <1>0, <1>1, <3>1, <4>1, <4>2, <4>3 DEF EntryOK, RecordOK, Cut
    <3> QED
      BY <1>0, <3>2, <3>3
  <2> QED
    BY <2>1, <2>2
<1>6. ASSUME NEW m \in Node, Serve(m) PROVE RecordOK(n, h)'
  <2>1. CASE m # n
    <3>1. call'[n] = call[n] /\ gone' = gone /\ since'[n] = since[n]
      BY <1>0, <1>6, <2>1, TypeFacts DEF Serve
    <3> QED
      BY <1>0, <1>2, <3>1
  <2>2. CASE m = n
    <3>1. PICK p \in Members : p = call[n].peer
      BY <1>6, <2>2 DEF Serve, CallInv
    <3>2. /\ call'[n].record = IF p = Subject THEN Own ELSE Cut(entry'[p])
          /\ gone' = gone /\ since'[n] = since[n] /\ (p = Subject => up)
      BY <1>0, <1>6, <2>2, <3>1, TypeFacts DEF Serve, Runs, Call
    <3>3. CASE p = Subject
      BY <1>3, <3>2, <3>3 DEF CallInv
    <3>4. CASE p # Subject
      <4>1. entry'[p].hb = h /\ call'[n].record.status = entry'[p].status
        BY <3>2, <3>4 DEF Cut
      <4>2. p \in Watchers /\ p \in Node
        BY <1>0, <3>1, <3>4, ClusterFacts, TypeFacts DEF Watchers
      <4>3. EntryOK(p, h)'
        BY <1>0, <4>1, <4>2 DEF EntryInv
      <4>4. Waiting(p)' \in Nat /\ Waiting(p)' <= 2 * cluster.interval
        BY <4>2, WaitingNext
      <4> QED
        BY <1>0, <1>1, <3>2, <4>1, <4>3, <4>4 DEF EntryOK, RecordOK
    <3> QED
      BY <3>3, <3>4
  <2> QED
    BY <2>1, <2>2
<1>7. ASSUME Drop \/ Crash \/ UNCHANGED vars PROVE RecordOK(n, h)'
  <2>1. call'[n].state = "none" \/ (call'[n] = call[n] /\ gone' = gone /\ since'[n] = since[n])
    BY <1>0, <1>7, TypeFacts DEF Drop, Crash, GoesTo, NoCall, vars
  <2> QED
    BY <1>0, <1>2, <2>1
<1>8. ASSUME Tick PROVE RecordOK(n, h)'
  <2>1. call' = call /\ gone' <= gone + 1
    BY <1>0, <1>8 DEF Tick
  <2>2. since'[n] = since[n] + 1
    BY <1>0, <1>8, <2>1 DEF Tick, CallInv
  <2> QED
    BY <1>0, <1>2, <2>1, <2>2
<1> QED
  BY <1>4, <1>5, <1>6, <1>7, <1>8 DEF Next, Step

-----------------------------------------------------------------------------
(* Two servers that reach each other in time *)

Reachable ==
  /\ up /\ cluster.heard /\ ~cluster.lossy
  /\ Cardinality(Members) = 2 /\ cluster.suspect >= 3 * cluster.interval

\* Nobody doubts the subject.  The watcher has its last heartbeat when the subject
\* sleeps, since an interval before it fell asleep at most, and when the exchange has
\* been served; otherwise it may be one behind.
PairInv ==
  Reachable =>
    /\ \A n \in Members : call[n].state # "none" =>
         call[n].record.status = ALIVE /\ call[n].record.hb <= hb
    /\ call[Subject].state = "sent" => call[Subject].record.hb = hb
    /\ \A n \in Watchers :
         LET e == entry[n] IN
         /\ e.status = ALIVE /\ e.hb <= hb
         /\ loop[Subject] = "sleep" => e.hb = hb /\ e.age <= cluster.interval + since[Subject]
         /\ loop[Subject] = "pick" =>
              \/ e.hb = hb /\ e.age = 0
              \/ e.hb + 1 = hb /\ e.age <= 2 * cluster.interval
         /\ loop[Subject] = "round" =>
              \/ e.hb = hb /\ e.age <= since[Subject]
              \/ /\ call[Subject].state = "sent"
                 /\ e.hb + 1 = hb /\ e.age <= 2 * cluster.interval + since[Subject]
         /\ loop[Subject] # "off"

\* Of two servers one is the subject and the other the watcher.
LEMMA TwoMembers ==
  ASSUME TypeOK, Cardinality(Members) = 2, NEW n \in Watchers, NEW m \in Members
  PROVE  m = Subject \/ m = n
<1> SUFFICES ASSUME m # Subject, m # n PROVE FALSE
  OBVIOUS
<1>1. Subject \in Members /\ n \in Members /\ n # Subject /\ IsFiniteSet(Members)
  BY ClusterFacts, TypeFacts
<1>2. IsFiniteSet({Subject}) /\ Cardinality({Subject}) = 1 /\ n \notin {Subject}
  BY <1>1, FS_Singleton
<1>3. /\ IsFiniteSet({Subject} \cup {n}) /\ Cardinality({Subject} \cup {n}) = 2
      /\ m \notin {Subject} \cup {n}
  BY <1>2, FS_AddElement
<1>4. Cardinality({Subject} \cup {n} \cup {m}) = 3
  BY <1>3, FS_AddElement
<1>5. Cardinality({Subject} \cup {n} \cup {m}) <= 2
  BY <1>1, FS_Subset
<1> QED
  BY <1>4, <1>5

\* PairInv is kept, action by action.
LEMMA PairStep ==
  ASSUME TypeOK, TypeOK', CallInv, PairInv, [Next]_vars
  PROVE  PairInv'
<1> SUFFICES ASSUME Reachable'
             PROVE  PairInv'
  BY DEF PairInv
<1>c. cluster' = cluster /\ Members' = Members /\ Watchers' = Watchers
  BY ClusterStays DEF Members, Watchers
<1>r. /\ Reachable /\ up /\ cluster.heard /\ ~cluster.lossy
      /\ Cardinality(Members) = 2 /\ cluster.suspect >= 3 * cluster.interval
  <2>1. up' => up
    BY DEF Next, Step, Beat, Send, Skip, Serve, Reply, GiveUp, Tick, Drop, Crash, vars
  <2> QED
    BY <1>c, <2>1 DEF Reachable
<1>i. cluster.interval \in Nat \ {0} /\ cluster.suspect \in Nat /\ cluster.dead \in Nat
  BY ClusterFacts, TypeFacts
<1>n. /\ Members \subseteq Node /\ Watchers \subseteq Members
      /\ Subject \in Members /\ Subject \notin Watchers
      /\ \A m \in Members : m = Subject \/ m \in Watchers
  BY ClusterFacts, TypeFacts DEF Watchers
<1>h. hb \in Nat /\ hb' \in Nat
  <2>1. hb \in 0..cluster.beats /\ hb' \in 0..cluster'.beats /\ cluster.beats \in Nat
    BY ClusterFacts, TypeFacts DEF TypeOK
  <2> QED
    BY <1>c, <2>1
<1>1. \A m \in Members : call[m].state # "none" =>
        call[m].record.status = ALIVE /\ call[m].record.hb <= hb
  BY <1>r DEF PairInv
<1>2. call[Subject].state = "sent" => call[Subject].record.hb = hb
  BY <1>r DEF PairInv
<1> DEFINE Current(e, h, l, s, c) ==
      /\ e.status = ALIVE /\ e.hb <= h
      /\ l = "sleep" => e.hb = h /\ e.age <= cluster.interval + s
      /\ l = "pick" =>
           \/ e.hb = h /\ e.age = 0
           \/ e.hb + 1 = h /\ e.age <= 2 * cluster.interval
      /\ l = "round" =>
           \/ e.hb = h /\ e.age <= s
           \/ c = "sent" /\ e.hb + 1 = h /\ e.age <= 2 * cluster.interval + s
      /\ l # "off"
<1>3. \A n \in Watchers :
        Current(entry[n], hb, loop[Subject], since[Subject], call[Subject].state)
  BY <1>r DEF PairInv
<1> SUFFICES ASSUME NEW n \in Watchers
             PROVE  /\ \A m \in Members : call'[m].state # "none" =>
                         call'[m].record.status = ALIVE /\ call'[m].record.hb <= hb'
                    /\ call'[Subject].state = "sent" => call'[Subject].record.hb = hb'
                    /\ Current(entry'[n], hb', loop'[Subject], since'[Subject],
                               call'[Subject].state)
  <2>1. \E n \in Watchers : TRUE
    <3>1. Members # {Subject}
      <4>1. Cardinality({Subject}) = 1
        BY FS_Singleton
      <4> QED
        BY <1>r, <4>1
    <3> QED
      BY <1>n, <3>1
  <2> QED
    BY <1>c, <2>1 DEF PairInv
<1> DEFINE Goal == /\ \A m \in Members : call'[m].state # "none" =>
                        call'[m].record.status = ALIVE /\ call'[m].record.hb <= hb'
                   /\ call'[Subject].state = "sent" => call'[Subject].record.hb = hb'
                   /\ Current(entry'[n], hb', loop'[Subject], since'[Subject],
                              call'[Subject].state)
<1>g. SUFFICES Goal
  OBVIOUS
<1>t. /\ n \in Node /\ Subject \in Node /\ n # Subject /\ n \in Members
      /\ \A m \in Members : m = Subject \/ m = n
      /\ entry \in [Node -> Entry] /\ entry[n].age \in Nat /\ entry[n].hb \in Nat
      /\ entry[n].status \in {ALIVE, SUSPECT, DEAD}
      /\ since[Subject] \in Nat /\ since[Subject] <= cluster.interval
  <2>1. \A m \in Members : m = Subject \/ m = n
    BY <1>r, TwoMembers
  <2>2. since[Subject] \in 0..cluster.interval /\ entry[n] \in Entry /\ n \in Node
    BY <1>n, TypeFacts
  <2>3. entry[n].age \in Nat /\ entry[n].hb \in Nat /\ entry[n].status \in {ALIVE, SUSPECT, DEAD}
    BY <2>2, ClusterFacts, TypeFacts DEF Entry, AgeLimit
  <2> QED
    BY <1>i, <1>n, <2>1, <2>2, <2>3, TypeFacts
<1>4. /\ Current(entry[n], hb, loop[Subject], since[Subject], call[Subject].state)
      /\ loop[Subject] \in {"sleep", "pick", "round"}
      /\ entry[n].age <= 3 * cluster.interval
  <2>1. loop[Subject] \in {"sleep", "pick", "round"}
    BY <1>3, <1>t, TypeFacts
  <2> QED
    BY <1>3, <1>t, <1>i, <2>1
<1> HIDE DEF Goal
<1>5. ASSUME NEW m \in Node, Beat(m) PROVE Goal
  <2>1. m \in Members /\ call' = call /\ since' = since
    BY <1>5 DEF Beat, Runs
  <2>2. CASE m = Subject
    <3>1. /\ loop[Subject] = "sleep" /\ loop'[Subject] = "pick" /\ hb' = hb + 1 /\ entry' = entry
          /\ since[Subject] = cluster.interval
      BY <1>5, <1>t, <2>2, TypeFacts DEF Beat
    <3>2. call[Subject].state = "none"
      BY <1>t, <3>1 DEF CallInv
    <3>3. \A k \in Members : call[k].state # "none" =>
            call[k].record.status = ALIVE /\ call[k].record.hb <= hb'
      <4>1. \A k \in Members : call[k].record.hb \in Nat
        BY <1>n, TypeFacts, ClusterFacts DEF Record
      <4> QED
        BY <1>1, <1>h, <3>1, <4>1
    <3>4. Current(entry'[n], hb', loop'[Subject], since'[Subject], call'[Subject].state)
      BY <1>4, <1>h, <1>i, <1>t, <3>1
    <3> QED
      BY <2>1, <3>2, <3>3, <3>4 DEF Goal
  <2>3. CASE m = n
    <3>1. Judged(entry[n]) = entry[n]
      BY <1>4, <1>i, <1>r, <1>t DEF Judged
    <3>2. entry'[n] = entry[n] /\ hb' = hb /\ loop'[Subject] = loop[Subject]
      BY <1>5, <1>t, <2>3, <3>1, TypeFacts DEF Beat
    <3> QED
      BY <1>1, <1>2, <1>4, <2>1, <3>2 DEF Goal
  <2> QED
    BY <1>t, <2>1, <2>2, <2>3
<1>6. ASSUME NEW m \in Node, NEW p \in Node, Send(m, p) PROVE Goal
  <2>1. /\ m \in Members /\ loop[m] = "pick" /\ entry' = entry /\ hb' = hb
        /\ call'[m].state = "sent" /\ call'[m].record = RecordOf(m)
        /\ loop'[m] = "round" /\ since'[m] = 0
        /\ \A k \in Members \ {m} : call'[k] = call[k] /\ loop'[k] = loop[k] /\ since'[k] = since[k]
    BY <1>6, <1>n, TypeFacts DEF Send, Runs, GoesTo
  <2>2. CASE m = Subject
    <3>1. call'[Subject].record = Own
      BY <2>1, <2>2 DEF RecordOf
    <3>2. Current(entry'[n], hb', loop'[Subject], since'[Subject], call'[Subject].state)
      BY <1>4, <1>i, <1>t, <2>1, <2>2
    <3> QED
      BY <1>1, <1>h, <2>1, <2>2, <3>1, <3>2 DEF Goal, Own
  <2>3. CASE m = n
    <3>1. call'[n].record.status = ALIVE /\ call'[n].record.hb <= hb'
      BY <1>4, <1>t, <2>1, <2>3 DEF RecordOf, Cut
    <3> QED
      BY <1>1, <1>2, <1>4, <1>n, <1>t, <2>1, <2>3, <3>1 DEF Goal
  <2> QED
    BY <1>t, <2>1, <2>2, <2>3
<1>7. ASSUME NEW m \in Node, Skip(m) PROVE FALSE
  BY <1>4, <1>7, <1>r, <1>t DEF Skip, Runs
<1>8. ASSUME NEW m \in Node, Serve(m) PROVE Goal
  <2>1. /\ m \in Members /\ call[m].state = "sent" /\ call[m].peer \in Members \ {m}
        /\ hb' = hb /\ loop' = loop /\ since' = since
        /\ Learn(call[m].peer, call[m].record)
        /\ \A k \in Members \ {m} : call'[k] = call[k]
        /\ call'[m].state = "answered"
        /\ call'[m].record = IF call[m].peer = Subject THEN Own ELSE Cut(entry'[call[m].peer])
    BY <1>8, <1>n, TypeFacts DEF Serve, CallInv, Call
  <2>2. CASE m = Subject
    <3> DEFINE r == call[Subject].record
    <3>1. /\ entry'[n] = Adopted(entry[n], r) /\ call'[Subject].record = Cut(entry'[n])
          /\ r.hb = hb /\ r.status = ALIVE
      BY <1>1, <1>2, <1>t, <2>1, <2>2 DEF Learn
    <3>2. loop[Subject] = "round"
      BY <1>t, <2>1, <2>2 DEF CallInv
    <3>3. /\ entry'[n].status = ALIVE /\ entry'[n].hb = hb
          /\ entry'[n].age <= since[Subject]
      BY <1>4, <1>h, <1>t, <3>1, <3>2 DEF Adopted, IsNews
    <3>4. Current(entry'[n], hb', loop'[Subject], since'[Subject], call'[Subject].state)
      BY <1>h, <2>1, <3>2, <3>3
    <3> QED
      BY <1>1, <1>h, <2>1, <2>2, <3>1, <3>3, <3>4 DEF Goal, Cut
  <2>3. CASE m = n
    <3>1. entry' = entry /\ call'[n].record = Own
      BY <1>t, <2>1, <2>3 DEF Learn
    <3> QED
      BY <1>1, <1>2, <1>4, <1>h, <1>n, <1>t, <2>1, <2>3, <3>1 DEF Goal, Own
  <2> QED
    BY <1>t, <2>1, <2>2, <2>3
<1>9. ASSUME NEW m \in Node, Reply(m) PROVE Goal
  <2>1. /\ m \in Members /\ call[m].state = "answered"
        /\ hb' = hb /\ Learn(m, call[m].record)
        /\ call'[m].state = "none" /\ loop'[m] = "sleep" /\ since'[m] = 0
        /\ \A k \in Members \ {m} : call'[k] = call[k] /\ loop'[k] = loop[k] /\ since'[k] = since[k]
    BY <1>9, <1>n, TypeFacts DEF Reply, Runs, GoesTo, NoCall
  <2>2. CASE m = Subject
    <3>1. loop[Subject] = "round" /\ entry' = entry
      BY <1>t, <2>1, <2>2 DEF CallInv, Learn
    <3>2. Current(entry'[n], hb', loop'[Subject], since'[Subject], call'[Subject].state)
      BY <1>4, <1>i, <1>t, <2>1, <2>2, <3>1
    <3> QED
      BY <1>1, <2>1, <2>2, <3>2 DEF Goal
  <2>3. CASE m = n
    <3> DEFINE r == call[n].record
    <3>1. entry'[n] = Adopted(entry[n], r) /\ r.status = ALIVE /\ r.hb <= hb /\ r.hb \in Nat
      BY <1>1, <1>t, <2>1, <2>3, TypeFacts, ClusterFacts DEF Learn, Record
    <3>2. \/ entry'[n] = entry[n]
          \/ /\ entry'[n].status = ALIVE /\ entry'[n].age = 0 /\ entry'[n].hb = hb
             /\ entry[n].hb + 1 = hb
      <4> HIDE DEF r
      <4> QED
        BY <1>4, <1>h, <1>t, <3>1 DEF Adopted, IsNews
    <3>3. Current(entry'[n], hb', loop'[Subject], since'[Subject], call'[Subject].state)
      BY <1>4, <1>h, <1>i, <1>n, <1>t, <2>1, <2>3, <3>2
    <3> QED
      BY <1>1, <1>2, <1>n, <1>t, <2>1, <2>3, <3>3 DEF Goal
  <2> QED
    BY <1>t, <2>1, <2>2, <2>3
<1>10. ASSUME NEW m \in Node, GiveUp(m) PROVE FALSE
  <2>1. call[m].peer \in Members /\ ~Runs(call[m].peer)
    BY <1>10, <1>r DEF GiveUp, CallInv
  <2> QED
    BY <1>r, <2>1 DEF Runs
<1>11. ASSUME Drop \/ Crash PROVE FALSE
  BY <1>11, <1>r DEF Drop, Crash, Reachable
<1>12. ASSUME Tick PROVE Goal
  <2>1. call' = call /\ hb' = hb /\ loop' = loop /\ loop[Subject] # "pick"
    BY <1>12, <1>n DEF Tick
  <2>2. since'[Subject] = since[Subject] + 1
    BY <1>4, <1>12, <1>n, <1>t DEF Tick
  <2>3. /\ entry'[n].hb = entry[n].hb /\ entry'[n].status = entry[n].status
        /\ entry'[n].age <= entry[n].age + 1 /\ entry'[n].age \in Nat
    BY <1>12, <1>t DEF Tick, Entry
  <2>4. Current(entry'[n], hb', loop'[Subject], since'[Subject], call'[Subject].state)
    BY <1>4, <1>h, <1>i, <1>t, <2>1, <2>2, <2>3
  <2> QED
    BY <1>1, <1>2, <2>1, <2>4 DEF Goal
<1>13. CASE UNCHANGED vars
  BY <1>1, <1>2, <1>4, <1>13 DEF Goal, vars
<1> QED
  BY <1>5, <1>6, <1>7, <1>8, <1>9, <1>10, <1>11, <1>12, <1>13 DEF Next, Step, Goal

-----------------------------------------------------------------------------
(* The theorems *)

\* The invariant holds at the start.
LEMMA InitDetection == Init => DetectionInv
<1> SUFFICES ASSUME Init PROVE DetectionInv
  OBVIOUS
<1>1. TypeOK
  BY InitType
<1>2. CallInv /\ SourceInv /\ RecordInv
  BY <1>1, ClusterFacts, TypeFacts, DetectionAssumption
     DEF Init, CallInv, SourceInv, RecordInv, NoCall
<1>3. ASSUME NEW n \in Watchers, NEW h \in 0..cluster.beats, entry[n].hb = h
      PROVE  EntryOK(n, h)
  <2>1. /\ n \in Node /\ entry[n] = [hb |-> 0, status |-> ALIVE, age |-> 0] /\ gone = 0
        /\ Waiting(n) \in Nat
    BY <1>1, ClusterFacts, TypeFacts DEF Init
  <2>2. /\ AliveTime(h) \in Nat /\ AliveTime(h) >= cluster.suspect + 3 * cluster.interval
        /\ cluster.suspect \in Nat /\ cluster.interval \in Nat
    BY <1>1, <1>3, HeldFacts, HeardFacts, TurnFacts, TypeFacts, ClusterFacts
  <2> QED
    BY <2>1, <2>2 DEF EntryOK
<1> QED
  BY <1>1, <1>2, <1>3 DEF DetectionInv, EntryInv

\* The invariant is kept by every step.
LEMMA NextDetection == DetectionInv /\ [Next]_vars => DetectionInv'
BY TypeStep, CallStep, SourceStep, EntryStep, RecordStep DEF DetectionInv

\* What is held of the subject, and what is on its way, is not older than the number of
\* those who have heard of it allows.
THEOREM DetectionInvariance == Spec => []DetectionInv
<1> QED
  BY InitDetection, NextDetection, PTL DEF Spec

\* However many servers there are, whatever the times and whatever is lost: one that
\* died is not held ALIVE, nor short of DEAD, after the bounds (detectFailures,
\* mergeView, doGossipRound).
THEOREM Detected == Spec => []DetectedInTime
<1>1. DetectionInv => DetectedInTime
  <2> SUFFICES ASSUME DetectionInv, NEW n \in Watchers
               PROVE  /\ gone > AliveBound => entry[n].status # ALIVE
                      /\ gone > DeadBound => entry[n].status = DEAD
    BY DEF DetectedInTime
  <2>1. TypeOK /\ cluster \in Situations /\ n \in Node /\ entry[n] \in Entry
        /\ gone \in Nat /\ cluster.interval \in Nat
        /\ Waiting(n) \in Nat /\ Waiting(n) <= 2 * cluster.interval
    BY ClusterFacts, TypeFacts DEF DetectionInv
  <2>2. PICK h \in 0..cluster.beats : entry[n].hb = h
    BY <2>1 DEF Entry
  <2>3. EntryOK(n, h)
    BY <2>2 DEF DetectionInv, EntryInv
  <2>4. /\ AliveTime(h) \in Nat /\ DeadTime(h) \in Nat
        /\ AliveTime(h) <= AliveBound /\ DeadTime(h) <= DeadBound
        /\ AliveBound \in Nat /\ DeadBound \in Nat
    BY <2>1, HeardFacts, TurnFacts
  <2>5. entry[n].status = ALIVE => gone <= AliveTime(h)
    BY <2>1, <2>3, <2>4 DEF EntryOK
  <2>6. entry[n].status = SUSPECT => gone <= DeadTime(h)
    BY <2>1, <2>3, <2>4 DEF EntryOK
  <2>7. AliveBound <= DeadBound
    <3>1. Cardinality(Watchers) \in Nat /\ AliveTurn \in Nat /\ DeadTurn \in Nat
          /\ AliveTurn <= DeadTurn /\ Overlap \in Nat
      BY <2>1, ClusterFacts, TurnFacts
    <3>2. /\ AliveTurn * Cardinality(Watchers) <= DeadTurn * Cardinality(Watchers)
          /\ Cardinality(Watchers) * AliveTurn \in Nat
          /\ Cardinality(Watchers) * DeadTurn \in Nat
      BY <3>1, Multiples
    <3>3. \A a, b \in Nat : a * b = b * a
      OBVIOUS
    <3> QED
      BY <3>1, <3>2, <3>3 DEF AliveBound, DeadBound
  <2> QED
    BY <2>1, <2>4, <2>5, <2>6, <2>7 DEF Entry
<1> QED
  BY <1>1, DetectionInvariance, PTL

\* PairInv holds at the start.
LEMMA InitPair == Init => PairInv
<1> SUFFICES ASSUME Init PROVE PairInv
  OBVIOUS
<1>1. TypeOK
  BY InitType
<1>2. since[Subject] \in Nat /\ cluster.interval \in Nat /\ Watchers \subseteq Node
  BY <1>1, ClusterFacts, TypeFacts, DetectionAssumption
<1> QED
  BY <1>1, <1>2, ClusterFacts, TypeFacts, DetectionAssumption DEF Init, PairInv, NoCall

\* Two servers that reach each other in time do not suspect each other, whatever the
\* times, if the threshold is at least three intervals (detectFailures, gossipLoop).
THEOREM NoAlarm == Spec => []NoFalseAlarm
<1>1. DetectionInv /\ DetectionInv' /\ PairInv /\ [Next]_vars => PairInv'
  BY PairStep DEF DetectionInv
<1>2. PairInv => NoFalseAlarm
  BY DEF PairInv, NoFalseAlarm, Reachable
<1> QED
  BY <1>1, <1>2, InitPair, DetectionInvariance, PTL DEF Spec

=============================================================================
