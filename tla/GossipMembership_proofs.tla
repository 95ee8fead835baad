----------------------- MODULE GossipMembership_proofs -----------------------
(***************************************************************************)
(* Proofs about GossipMembership for every set of nodes and every bound.   *)
(***************************************************************************)
EXTENDS GossipMembership, TLAPS

\* The three states of a record are the numbers 0, 1 and 2 (NodeStatus).
LEMMA StatusNat == Status = {0, 1, 2} /\ DEAD = 2 /\ ALIVE = 0 /\ SUSPECT = 1
BY DEF Status, DEAD, ALIVE, SUSPECT

\* The constants and constructors of records, views and calls have their types.
LEMMA ViewFacts ==
  /\ Absent \in MemberRecord
  /\ NoView \in View
  /\ \A n \in Node : Idle(n) \in Call
  /\ \A p \in Node, v \in View : Sent(p, v) \in Call /\ Answered(p, v) \in Call
  /\ \A g \in Nat : Self(g) \in MemberRecord
BY DEF Absent, MemberRecord, NoView, View, Idle, Sent, Answered, Call, Self,
       Status, ALIVE, SUSPECT, DEAD

\* Merging keeps a table a table.
LEMMA MergedType ==
  ASSUME NEW n \in Node, NEW v \in View, table \in [Node -> View]
  PROVE  Merged(n, v) \in View
BY DEF Merged, View

\* The failure detector keeps a record a record, changes neither its generation nor
\* its heartbeat, and brings nobody back from DEAD (detectFailures).
LEMMA DegradedType ==
  ASSUME NEW r \in MemberRecord, NEW a \in 0..2
  PROVE  /\ Degraded(r, a) \in MemberRecord
         /\ Degraded(r, a).gen = r.gen
         /\ Degraded(r, a).hb = r.hb
         /\ r.status = DEAD => Degraded(r, a).status = DEAD
BY DEF Degraded, MemberRecord, Status, ALIVE, SUSPECT, DEAD

\* The mark of stop() is a record of the same generation, one heartbeat later, DEAD.
LEMMA FarewellType ==
  ASSUME NEW r \in MemberRecord
  PROVE  /\ Farewell(r) \in MemberRecord
         /\ Farewell(r).gen = r.gen
         /\ Farewell(r).hb = r.hb + 1
         /\ Farewell(r).status = DEAD
BY StatusNat DEF Farewell, MemberRecord

\* At gives each thread its place.
LEMMA AtType ==
  /\ At("down", "off") \in [Thread -> MainPC \cup LoopPC]
  /\ At("up", "sleep") \in [Thread -> MainPC \cup LoopPC]
  /\ At("down", "off")["main"] = "down" /\ At("down", "off")["loop"] = "off"
  /\ At("up", "sleep")["main"] = "up" /\ At("up", "sleep")["loop"] = "sleep"
BY DEF At, Thread, MainPC, LoopPC

-----------------------------------------------------------------------------
(* Type correctness *)

\* Type correctness holds before any process has started.
LEMMA InitType == Init => TypeOK
BY NodesAssumption, ViewFacts, AtType
   DEF Init, TypeOK, Thread, MainPC, LoopPC

\* The merge and the callback that may follow keep their types (mergeView, notifyChange).
LEMMA AbsorbType ==
  ASSUME TypeOK, NEW n \in Node, NEW v \in View, Absorb(n, v)
  PROVE  /\ table' \in [Node -> View]
         /\ ring' \in [Node -> SUBSET Node]
BY MergedType DEF Absorb, TypeOK, AliveIn

\* A process that is gone leaves well-typed state.
LEMMA VanishType ==
  ASSUME TypeOK, NEW n \in Node, Vanish(n)
  PROVE  /\ table' \in [Node -> View]
         /\ ring' \in [Node -> SUBSET Node]
         /\ call' \in [Node -> [Thread -> Call]]
         /\ pc' \in [Node -> [Thread -> MainPC \cup LoopPC]]
         /\ \A k \in Node : pc'[k]["main"] \in MainPC /\ pc'[k]["loop"] \in LoopPC
         /\ disk' \in [Node -> Nat]
         /\ running' \in [Node -> BOOLEAN]
         /\ toContact' \in [Node -> SUBSET Node]
         /\ farewell' \in [Node -> Nat]
BY ViewFacts, AtType DEF Vanish, TypeOK, MainPC, LoopPC

\* Requests that are given up remain requests.
LEMMA AbandonType ==
  ASSUME TypeOK, NEW reqs \in SUBSET Request, Abandon(reqs)
  PROVE  late' \in SUBSET Request
BY DEF Abandon, TypeOK

\* Every step keeps the types.
LEMMA NextType == TypeOK /\ [Next]_vars => TypeOK'
<1> SUFFICES ASSUME TypeOK, [Next]_vars PROVE TypeOK'
  OBVIOUS
<1> USE NodesAssumption
<1>1. ASSUME NEW n \in Node, Start(n) PROVE TypeOK'
  <2>1. [NoView EXCEPT ![n] = Self(disk[n] + 1)] \in View
    BY ViewFacts DEF TypeOK, View
  <2>2. disk[n] + 1 \in Nat
    BY DEF TypeOK
  <2>3. QED
    BY <1>1, <2>1, <2>2 DEF Start, TypeOK, MainPC, Thread
<1>2. ASSUME NEW n \in Node, NEW s \in Seeds, ContactSeed(n, s) PROVE TypeOK'
  BY <1>2, ViewFacts DEF ContactSeed, SendTo, TypeOK, Thread
<1>3. ASSUME NEW n \in Node, SeedReply(n) PROVE TypeOK'
  <2>1. call[n]["main"].view \in View
    BY DEF TypeOK, Thread, Call
  <2>2. table' \in [Node -> View]
    BY <1>3, <2>1 DEF SeedReply, TypeOK, View
  <2>3. QED
    BY <1>3, <2>2, ViewFacts DEF SeedReply, TypeOK, Thread
<1>4. ASSUME NEW n \in Node, Started(n) PROVE TypeOK'
  BY <1>4, AtType DEF Started, TypeOK, MainPC, LoopPC
<1>5. ASSUME NEW n \in Node, Wake(n) PROVE TypeOK'
  BY <1>5 DEF Wake, TypeOK, LoopPC, Thread
<1>6. ASSUME NEW n \in Node, NEW age \in [Node \ {n} -> 0..2], Beat(n, age) PROVE TypeOK'
  <2> DEFINE seen == [m \in Node |-> IF m = n THEN table[n][n]
                                     ELSE Degraded(table[n][m], age[m])]
  <2>1. seen \in View
    <3>1. ASSUME NEW m \in Node PROVE seen[m] \in MemberRecord
      <4>1. table[n][m] \in MemberRecord
        BY DEF TypeOK, View
      <4>2. CASE m = n
        BY <4>1, <4>2
      <4>3. CASE m # n
        BY <4>1, <4>3, DegradedType
      <4>4. QED
        BY <4>2, <4>3
    <3>2. QED
      BY <3>1 DEF View
  <2>2. [seen EXCEPT ![n].hb = @ + 1] \in View
    BY <2>1 DEF View, MemberRecord
  <2>3. table' \in [Node -> View] /\ ring' \in [Node -> SUBSET Node]
    BY <1>6, <2>1, <2>2 DEF Beat, TypeOK, AliveIn
  <2>4. QED
    BY <1>6, <2>3 DEF Beat, TypeOK, LoopPC, Thread
<1>7. ASSUME NEW n \in Node, NEW t \in Thread, NoPeer(n, t) PROVE TypeOK'
  BY <1>7 DEF NoPeer, AfterRound, TypeOK, MainPC, LoopPC, Thread
<1>8. ASSUME NEW n \in Node, NEW t \in Thread, RoundSend(n, t) PROVE TypeOK'
  BY <1>8, ViewFacts DEF RoundSend, SendTo, Peers, AliveIn, TypeOK
<1>9. ASSUME NEW n \in Node, NEW t \in Thread, RoundReply(n, t) PROVE TypeOK'
  <2>1. call[n][t].view \in View
    BY DEF TypeOK, Call
  <2>2. table' \in [Node -> View] /\ ring' \in [Node -> SUBSET Node]
    BY <1>9, <2>1, AbsorbType DEF RoundReply
  <2>3. call' \in [Node -> [Thread -> Call]]
    BY <1>9, ViewFacts DEF RoundReply, TypeOK
  <2>4. /\ pc' \in [Node -> [Thread -> MainPC \cup LoopPC]]
        /\ \A k \in Node : pc'[k]["main"] \in MainPC /\ pc'[k]["loop"] \in LoopPC
    BY <1>9 DEF RoundReply, AfterRound, TypeOK, MainPC, LoopPC, Thread
  <2>5. QED
    BY <1>9, <2>2, <2>3, <2>4 DEF RoundReply, TypeOK
<1>10. ASSUME NEW n \in Node, NEW t \in Thread, Serve(n, t) PROVE TypeOK'
  <2>1. call[n][t].view \in View /\ call[n][t].peer \in Node
    BY DEF TypeOK, Call
  <2>2. table' \in [Node -> View] /\ ring' \in [Node -> SUBSET Node]
    BY <1>10, <2>1, AbsorbType DEF Serve
  <2>3. QED
    BY <1>10, <2>1, <2>2, ViewFacts DEF Serve, TypeOK
<1>11. ASSUME NEW r \in late, ServeLate(r) PROVE TypeOK'
  <2>1. r.view \in View /\ r.to \in Node
    BY DEF TypeOK, Request
  <2>2. table' \in [Node -> View] /\ ring' \in [Node -> SUBSET Node]
    BY <1>11, <2>1, AbsorbType DEF ServeLate
  <2>3. QED
    BY <1>11, <2>2 DEF ServeLate, TypeOK
<1>12. ASSUME NEW n \in Node, NEW t \in Thread, GiveUp(n, t) PROVE TypeOK'
  <2>1. late' \in SUBSET Request
    <3>1. [to |-> call[n][t].peer, view |-> call[n][t].view] \in Request
      BY DEF TypeOK, Call, Request
    <3>2. QED
      BY <1>12, <3>1, AbandonType DEF GiveUp
  <2>2. QED
    BY <1>12, <2>1, ViewFacts DEF GiveUp, AfterRound, TypeOK, MainPC, LoopPC, Thread
<1>13. ASSUME NEW n \in Node, Stop(n) PROVE TypeOK'
  <2>1. table' \in [Node -> View]
    <3>1. table[n] \in View /\ table[n][n] \in MemberRecord
      BY DEF TypeOK, View
    <3>2. Farewell(table[n][n]) \in MemberRecord
      BY <3>1, FarewellType
    <3>3. [table[n] EXCEPT ![n] = Farewell(table[n][n])] \in View
      BY <3>1, <3>2 DEF View
    <3>4. QED
      BY <1>13, <3>3 DEF Stop, TypeOK
  <2>2. table[n][n].hb + 1 \in Nat
    BY DEF TypeOK, View, MemberRecord
  <2>3. QED
    BY <1>13, <2>1, <2>2 DEF Stop, TypeOK, MainPC, Thread
<1>14. ASSUME NEW n \in Node, Leave(n) PROVE TypeOK'
  BY <1>14, VanishType DEF Leave, TypeOK
<1>15. ASSUME NEW n \in Node, Crash(n) PROVE TypeOK'
  <2>1. late' \in SUBSET Request
    <3> DEFINE reqs == {[to |-> call[n][t].peer, view |-> call[n][t].view] :
                          t \in {u \in Thread : call[n][u].state = "sent"}}
    <3>1. \A t \in Thread : [to |-> call[n][t].peer, view |-> call[n][t].view] \in Request
      BY DEF TypeOK, Call, Request
    <3>2. reqs \in SUBSET Request
      BY <3>1
    <3>3. Abandon(reqs)
      BY <1>15 DEF Crash
    <3>4. QED
      BY <3>2, <3>3, AbandonType
  <2>2. QED
    BY <1>15, <2>1, VanishType DEF Crash, TypeOK
<1>16. CASE UNCHANGED vars
  BY <1>16 DEF vars, TypeOK
<1>17. QED
  BY <1>1, <1>2, <1>3, <1>4, <1>5, <1>6, <1>7, <1>8, <1>9, <1>10, <1>11, <1>12,
     <1>13, <1>14, <1>15, <1>16
     DEF Next, MainStep, LoopStep, GossipRound, Thread

\* Every variable keeps its type in every reachable state.
THEOREM TypeCorrect == Spec => []TypeOK
BY InitType, NextType, PTL DEF Spec

-----------------------------------------------------------------------------
(* Safety.  Told(r, m): the record r about m obeys both safety conditions. *)

Told(r, m) == Issued(r, m) /\ Final(r, m)

\* The two safety properties, spread over the places views are kept in.
LEMMA ViewsTold ==
  NeverAheadOfOwner /\ FarewellIsFinal <=>
     /\ \A k, m \in Node : Told(table[k][m], m)
     /\ \A k, m \in Node, t \in Thread : Told(call[k][t].view[m], m)
     /\ \A r \in late, m \in Node : Told(r.view[m], m)
BY DEF NeverAheadOfOwner, FarewellIsFinal, Views, Told

\* The ways the owner of a record may move in a step: on, or down, in the same
\* incarnation; to a new incarnation; to its farewell.
Moves(m) ==
  \/ /\ disk'[m] = disk[m] /\ farewell'[m] = farewell[m]
     /\ Up(m)' => Up(m) /\ table[m][m].hb <= table'[m][m].hb
  \/ disk'[m] = disk[m] + 1
  \/ /\ disk'[m] = disk[m] /\ farewell'[m] = table[m][m].hb + 1
     /\ Up(m) /\ table[m][m].hb <= table'[m][m].hb

\* What was rightly said of m before such a step may still be said after it.
LEMMA ToldStable ==
  ASSUME TypeOK, TypeOK', NEW m \in Node, Moves(m)
  PROVE  \A r \in MemberRecord : Told(r, m) => Told(r, m)'
<1>1. /\ disk[m] \in Nat /\ disk'[m] \in Nat
      /\ farewell[m] \in Nat /\ farewell'[m] \in Nat
      /\ table[m][m].hb \in Nat /\ table'[m][m].hb \in Nat
  BY DEF TypeOK, View, MemberRecord
<1>2. QED
  BY <1>1 DEF Moves, Told, Issued, Final, Up, MemberRecord

\* Where the records of a state come from: apart from a process's own entry, every
\* one could rightly be said before the step.
Provenance ==
  /\ \A k, m \in Node : m # k => Told(table'[k][m], m)
  /\ \A k, m \in Node, t \in Thread : Told(call'[k][t].view[m], m)
  /\ \A r \in late', m \in Node : Told(r.view[m], m)

\* The owner's part and the provenance of the other records make the invariant.
LEMMA Combine ==
  ASSUME TypeOK, TypeOK', OwnState', OwnRecordIsOwn', \A m \in Node : Moves(m), Provenance
  PROVE  (NeverAheadOfOwner /\ FarewellIsFinal)'
<1>1. \A k, m \in Node : table'[k][m] \in MemberRecord
  BY DEF TypeOK, View
<1>2. \A k, m \in Node, t \in Thread : call'[k][t].view[m] \in MemberRecord
  BY DEF TypeOK, View, Call
<1>3. \A r \in late', m \in Node : r.view[m] \in MemberRecord
  BY DEF TypeOK, View, Request
<1>4. ASSUME NEW k \in Node, NEW m \in Node, m # k PROVE Told(table[k][m], m)'
  BY <1>1, <1>4, ToldStable DEF Provenance, Told, Issued, Final, Up
<1>5. ASSUME NEW m \in Node PROVE Told(table[m][m], m)'
  <2>1. CASE Up(m)'
    <3>1. /\ disk'[m] \in Nat /\ farewell'[m] \in Nat
          /\ table'[m][m].hb \in Nat /\ table'[m][m].gen = disk'[m]
      BY <1>1, <2>1 DEF TypeOK, OwnRecordIsOwn, MemberRecord
    <3>2. farewell'[m] # 0 => table'[m][m].status = DEAD
      BY <2>1 DEF OwnRecordIsOwn, OwnState
    <3>3. QED
      BY <3>1, <3>2 DEF Told, Issued, Final
  <2>2. CASE ~Up(m)'
    <3>1. table'[m][m] = Absent /\ disk'[m] \in Nat
      BY <2>2 DEF OwnState, NoView, TypeOK
    <3>2. QED
      BY <2>2, <3>1 DEF Told, Issued, Final, Absent
  <2>3. QED
    BY <2>1, <2>2
<1>6. ASSUME NEW k \in Node, NEW m \in Node, NEW t \in Thread
      PROVE  Told(call[k][t].view[m], m)'
  BY <1>2, ToldStable DEF Provenance, Told, Issued, Final, Up
<1>7. ASSUME NEW r \in late', NEW m \in Node PROVE Told(r.view[m], m)'
  BY <1>3, ToldStable DEF Provenance, Told, Issued, Final, Up
<1>8. QED
  BY <1>4, <1>5, <1>6, <1>7
     DEF NeverAheadOfOwner, FarewellIsFinal, Views, Told, Issued, Final, Up

\* A step that writes no own entry, no file and no farewell, and in which a main
\* thread at most goes from start() to running or from its last round to the join.
Ordinary ==
  /\ disk' = disk /\ farewell' = farewell
  /\ \A k \in Node :
       /\ table'[k] = table[k] \/ (Up(k) /\ table'[k][k] = table[k][k])
       /\ \/ pc'[k]["main"] = pc[k]["main"]
          \/ pc[k]["main"] = "boot" /\ pc'[k]["main"] = "up"
          \/ pc[k]["main"] = "round" /\ pc'[k]["main"] = "join"

\* A step that leaves the owners of records alone keeps what they know of themselves.
LEMMA OrdinaryOwner ==
  ASSUME Inv, Ordinary
  PROVE  OwnState' /\ OwnRecordIsOwn' /\ \A m \in Node : Moves(m)
<1>1. OwnState'
  BY DEF Inv, Ordinary, OwnState, Up
<1>2. OwnRecordIsOwn'
  BY DEF Inv, Ordinary, OwnRecordIsOwn, Up
<1>3. ASSUME NEW m \in Node PROVE Moves(m)
  <2>1. table[m][m].hb \in Nat
    BY DEF Inv, TypeOK, View, MemberRecord
  <2>2. table'[m][m] = table[m][m]
    BY DEF Ordinary
  <2>3. QED
    BY <2>1, <2>2 DEF Ordinary, Moves, Up
<1>4. QED
  BY <1>1, <1>2, <1>3

\* The merge adopts records from the two views only, and not about the process itself.
LEMMA AbsorbTold ==
  ASSUME TypeOK, NEW n \in Node, NEW v \in View, Absorb(n, v),
         \A k, m \in Node : Told(table[k][m], m),
         \A m \in Node : Told(v[m], m)
  PROVE  /\ \A k, m \in Node : Told(table'[k][m], m)
         /\ \A k \in Node : k # n => table'[k] = table[k]
         /\ table'[n][n] = table[n][n]
<1>1. table' = [table EXCEPT ![n] = Merged(n, v)]
  BY DEF Absorb
<1>2. \A m \in Node : Merged(n, v)[m] \in {v[m], table[n][m]}
  BY DEF Merged
<1>3. Merged(n, v)[n] = table[n][n]
  BY DEF Merged
<1>4. table \in [Node -> View]
  BY DEF TypeOK
<1>5. \A k \in Node : table'[k] = IF k = n THEN Merged(n, v) ELSE table[k]
  BY <1>1, <1>4
<1>6. \A m \in Node : Told(Merged(n, v)[m], m)
  BY <1>2
<1>7. QED
  BY <1>3, <1>5, <1>6

\* A message or an entry without a record says nothing.
LEMMA AbsentTold == TypeOK => \A m \in Node : Told(NoView[m], m)
BY DEF TypeOK, Told, Issued, Final, NoView, Absent, View, MemberRecord

\* What the failure detector makes of a record may still be said (detectFailures).
LEMMA DegradedTold ==
  ASSUME NEW r \in MemberRecord, NEW a \in 0..2, NEW m \in Node, Told(r, m)
  PROVE  Told(Degraded(r, a), m)
BY DegradedType DEF Told, Issued, Final

\* Requests that are given up were calls before.
LEMMA AbandonTold ==
  ASSUME NEW reqs, Abandon(reqs),
         \A r \in late, m \in Node : Told(r.view[m], m),
         \A r \in reqs, m \in Node : Told(r.view[m], m)
  PROVE  \A r \in late', m \in Node : Told(r.view[m], m)
BY DEF Abandon

\* A process that vanishes takes its own records along and adds none.
LEMMA VanishTold ==
  ASSUME Inv, NEW n \in Node, Up(n), Vanish(n)
  PROVE  /\ OwnState' /\ OwnRecordIsOwn' /\ \A m \in Node : Moves(m)
         /\ \A k, m \in Node : Told(table'[k][m], m)
         /\ \A k, m \in Node, t \in Thread : Told(call'[k][t].view[m], m)
<1>1. TypeOK
  BY DEF Inv
<1>2. \A k \in Node : /\ table'[k] = IF k = n THEN NoView ELSE table[k]
                      /\ pc'[k] = IF k = n THEN At("down", "off") ELSE pc[k]
  BY <1>1 DEF Vanish, TypeOK
<1>3. OwnState' /\ OwnRecordIsOwn'
  BY <1>2, AtType DEF Inv, OwnState, OwnRecordIsOwn, Up, Vanish
<1>4. ASSUME NEW m \in Node PROVE Moves(m)
  <2>1. table[m][m].hb \in Nat
    BY <1>1 DEF TypeOK, View, MemberRecord
  <2>2. QED
    BY <1>2, <2>1, AtType DEF Moves, Vanish, Up
<1>5. \A k, m \in Node : Told(table'[k][m], m)
  BY <1>1, <1>2, AbsentTold, ViewsTold DEF Inv
<1>6. \A k \in Node, t \in Thread :
        call'[k][t] = IF k = n THEN Idle(n) ELSE call[k][t]
  BY <1>1 DEF Vanish, TypeOK
<1>7. \A k, m \in Node, t \in Thread : Told(call'[k][t].view[m], m)
  BY <1>1, <1>6, AbsentTold, ViewsTold DEF Inv, Idle
<1>8. QED
  BY <1>3, <1>4, <1>5, <1>7

\* The end of a gossip round moves main to the join and loop to its sleep.
LEMMA RoundEnds ==
  ASSUME TypeOK, NEW n \in Node, NEW t \in Thread, pc[n][t] = "round",
         pc' = [pc EXCEPT ![n][t] = AfterRound(t)]
  PROVE  \A k \in Node : \/ pc'[k]["main"] = pc[k]["main"]
                         \/ pc[k]["main"] = "round" /\ pc'[k]["main"] = "join"
<1>1. CASE t = "main"
  BY <1>1 DEF AfterRound, TypeOK
<1>2. CASE t = "loop"
  BY <1>2 DEF AfterRound, TypeOK
<1>3. QED
  BY <1>1, <1>2 DEF Thread

\* A thread that is blocked in an exchange belongs to a process that is up.
LEMMA BusyIsUp ==
  ASSUME DownIsIdle, NEW n \in Node, NEW t \in Thread, call[n][t].state # "idle"
  PROVE  Up(n)
<1>1. Idle(n).state = "idle"
  BY DEF Idle
<1>2. QED
  BY <1>1 DEF DownIsIdle

\* Nor does the end of a round take a process down.
LEMMA RoundLeavesUp ==
  ASSUME TypeOK, DownIsIdle, NEW n \in Node, NEW t \in Thread, pc[n][t] = "round",
         pc' = [pc EXCEPT ![n][t] = AfterRound(t)]
  PROVE  /\ Up(n) /\ Up(n)'
         /\ \A k \in Node : k # n => pc'[k] = pc[k]
<1>1. \A k \in Node : k # n => pc'[k] = pc[k]
  BY DEF TypeOK
<1>2. Up(n)
  <2>1. CASE t = "main"
    BY <2>1 DEF Up
  <2>2. CASE t = "loop"
    BY <2>2 DEF DownIsIdle
  <2>3. QED
    BY <2>1, <2>2 DEF Thread
<1>3. Up(n)'
  BY <1>2, RoundEnds DEF Up
<1>4. QED
  BY <1>1, <1>2, <1>3

\* Threads and calls exist only in processes that are up.
LEMMA NextIdle == TypeOK /\ DownIsIdle /\ [Next]_vars => DownIsIdle'
<1> SUFFICES ASSUME TypeOK, DownIsIdle, [Next]_vars PROVE DownIsIdle'
  OBVIOUS
<1> USE DEF DownIsIdle, TypeOK, Up
<1>1. ASSUME NEW n \in Node, Start(n) PROVE DownIsIdle'
  BY <1>1 DEF Start, Thread
<1>2. ASSUME NEW n \in Node, NEW s \in Seeds, ContactSeed(n, s) PROVE DownIsIdle'
  BY <1>2 DEF ContactSeed, SendTo
<1>3. ASSUME NEW n \in Node, SeedReply(n) PROVE DownIsIdle'
  BY <1>3 DEF SeedReply
<1>4. ASSUME NEW n \in Node, Started(n) PROVE DownIsIdle'
  BY <1>4, AtType DEF Started
<1>5. ASSUME NEW n \in Node, Wake(n) PROVE DownIsIdle'
  BY <1>5 DEF Wake, Thread
<1>6. ASSUME NEW n \in Node, NEW age \in [Node \ {n} -> 0..2], Beat(n, age)
      PROVE  DownIsIdle'
  BY <1>6 DEF Beat, Thread
<1>7. ASSUME NEW n \in Node, NEW t \in Thread, NoPeer(n, t) PROVE DownIsIdle'
  <2>1. Up(n) /\ Up(n)' /\ call' = call
    BY <1>7, RoundLeavesUp DEF NoPeer
  <2>2. \A k \in Node : k # n => pc'[k] = pc[k]
    BY <1>7, RoundLeavesUp DEF NoPeer
  <2>3. QED
    BY <2>1, <2>2
<1>8. ASSUME NEW n \in Node, NEW t \in Thread, RoundSend(n, t) PROVE DownIsIdle'
  BY <1>8 DEF RoundSend, SendTo, Thread
<1>9. ASSUME NEW n \in Node, NEW t \in Thread, RoundReply(n, t) PROVE DownIsIdle'
  <2>1. Up(n) /\ Up(n)'
    BY <1>9, RoundLeavesUp DEF RoundReply
  <2>2. \A k \in Node : k # n => pc'[k] = pc[k] /\ call'[k] = call[k]
    BY <1>9 DEF RoundReply
  <2>3. QED
    BY <2>1, <2>2
<1>10. ASSUME NEW n \in Node, NEW t \in Thread, Serve(n, t) PROVE DownIsIdle'
  BY <1>10 DEF Serve, Idle
<1>11. ASSUME NEW r \in late, ServeLate(r) PROVE DownIsIdle'
  BY <1>11 DEF ServeLate
<1>12. ASSUME NEW n \in Node, NEW t \in Thread, GiveUp(n, t) PROVE DownIsIdle'
  <2>1. Up(n)
    BY <1>12, BusyIsUp DEF GiveUp
  <2>2. \A k \in Node : k # n => pc'[k] = pc[k] /\ call'[k] = call[k]
    BY <1>12 DEF GiveUp
  <2>3. pc'[n]["main"] # "down"
    BY <1>12, <2>1 DEF GiveUp, AfterRound, Thread
  <2>4. QED
    BY <2>2, <2>3
<1>13. ASSUME NEW n \in Node, Stop(n) PROVE DownIsIdle'
  BY <1>13 DEF Stop, Thread
<1>14. ASSUME NEW n \in Node, Vanish(n) PROVE DownIsIdle'
  BY <1>14, AtType DEF Vanish
<1>15. CASE UNCHANGED vars
  BY <1>15 DEF vars
<1>16. QED
  BY <1>1, <1>2, <1>3, <1>4, <1>5, <1>6, <1>7, <1>8, <1>9, <1>10, <1>11, <1>12,
     <1>13, <1>14, <1>15
     DEF Next, MainStep, LoopStep, GossipRound, Thread, Leave, Crash

\* The invariant holds before any process has started.
LEMMA InitInv == Init => Inv
<1> SUFFICES ASSUME Init PROVE Inv
  OBVIOUS
<1>1. TypeOK
  BY InitType
<1>2. OwnState /\ OwnRecordIsOwn
  BY AtType DEF Init, OwnState, OwnRecordIsOwn, Up
<1>d. DownIsIdle
  BY AtType DEF Init, DownIsIdle
<1>3. NeverAheadOfOwner /\ FarewellIsFinal
  <2>1. \A k, m \in Node : Told(table[k][m], m)
    BY <1>1, AbsentTold DEF Init
  <2>2. \A k, m \in Node, t \in Thread : Told(call[k][t].view[m], m)
    BY <1>1, AbsentTold DEF Init, Idle
  <2>3. \A r \in late, m \in Node : Told(r.view[m], m)
    BY DEF Init
  <2>4. QED
    BY <2>1, <2>2, <2>3, ViewsTold
<1>4. QED
  BY <1>1, <1>2, <1>d, <1>3 DEF Inv

\* Every step keeps the invariant: the actions one by one.
LEMMA NextInv == Inv /\ [Next]_vars => Inv'
<1> SUFFICES ASSUME Inv, [Next]_vars PROVE Inv'
  OBVIOUS
<1> DEFINE Owner == OwnState' /\ OwnRecordIsOwn' /\ \A m \in Node : Moves(m)
<1>a. TypeOK /\ TypeOK'
  BY NextType DEF Inv
<1>b. /\ \A k, m \in Node : Told(table[k][m], m)
      /\ \A k, m \in Node, t \in Thread : Told(call[k][t].view[m], m)
      /\ \A r \in late, m \in Node : Told(r.view[m], m)
  BY ViewsTold DEF Inv
<1>c. SUFFICES Owner /\ Provenance
  BY <1>a, NextIdle, Combine DEF Inv
<1>1. ASSUME NEW n \in Node, Start(n) PROVE Owner /\ Provenance
  <2> DEFINE fresh == [NoView EXCEPT ![n] = Self(disk[n] + 1)]
  <2>1. /\ disk[n] \in Nat
        /\ \A k \in Node : /\ table'[k] = IF k = n THEN fresh ELSE table[k]
                           /\ farewell'[k] = IF k = n THEN 0 ELSE farewell[k]
                           /\ disk'[k] = IF k = n THEN disk[n] + 1 ELSE disk[k]
                           /\ pc'[k]["main"] = IF k = n THEN "boot" ELSE pc[k]["main"]
    <3>1. disk[n] \in Nat
      BY <1>a DEF TypeOK
    <3>2. \A k \in Node : /\ table'[k] = IF k = n THEN fresh ELSE table[k]
                          /\ disk'[k] = IF k = n THEN disk[n] + 1 ELSE disk[k]
      BY <1>1, <1>a DEF Start, TypeOK
    <3>3. \A k \in Node : farewell'[k] = IF k = n THEN 0 ELSE farewell[k]
      BY <1>1, <1>a DEF Start, TypeOK
    <3>4. \A k \in Node : pc'[k]["main"] = IF k = n THEN "boot" ELSE pc[k]["main"]
      BY <1>1, <1>a DEF Start, TypeOK, Thread
    <3>5. QED
      BY <3>1, <3>2, <3>3, <3>4
  <2>2. /\ fresh[n].gen = disk[n] + 1 /\ fresh[n].status = ALIVE
        /\ \A m \in Node : m # n => fresh[m] = NoView[m]
    BY DEF NoView, Self
  <2>3. OwnState' /\ OwnRecordIsOwn'
    <3>1. OwnState'
      BY <2>1 DEF Inv, OwnState, Up
    <3>2. OwnRecordIsOwn'
      BY <2>1, <2>2 DEF Inv, OwnRecordIsOwn, Up
    <3>3. QED
      BY <3>1, <3>2
  <2>4. ASSUME NEW m \in Node PROVE Moves(m)
    <3>1. table[m][m].hb \in Nat
      BY <1>a DEF TypeOK, View, MemberRecord
    <3>2. QED
      BY <2>1, <3>1 DEF Moves, Up
  <2>5. \A k, m \in Node : m # k => Told(table'[k][m], m)
    BY <1>a, <1>b, <2>1, <2>2, AbsentTold
  <2>6. QED
    BY <1>1, <1>b, <2>3, <2>4, <2>5 DEF Start, Provenance
<1>2. ASSUME NEW n \in Node, NEW s \in Seeds, ContactSeed(n, s) PROVE Owner /\ Provenance
  <2>1. Owner
    BY <1>2, OrdinaryOwner DEF Ordinary, ContactSeed
  <2>2. \A k \in Node, t \in Thread :
          call'[k][t].view = IF k = n /\ t = "main" THEN table[n] ELSE call[k][t].view
    BY <1>2, <1>a DEF ContactSeed, SendTo, Sent, TypeOK
  <2>3. QED
    BY <1>2, <1>b, <2>1, <2>2 DEF ContactSeed, Provenance
<1>3. ASSUME NEW n \in Node, SeedReply(n) PROVE Owner /\ Provenance
  <2>1. \A k \in Node : k # n => table'[k] = table[k]
    BY <1>3, <1>a DEF SeedReply, TypeOK
  <2>2. \A m \in Node : /\ table'[n][m] \in {table[n][m], call[n]["main"].view[m]}
                        /\ m = n => table'[n][m] = table[n][m]
    BY <1>3, <1>a DEF SeedReply, TypeOK
  <2>3. Owner
    BY <1>3, <2>1, <2>2, OrdinaryOwner DEF Ordinary, SeedReply, Up
  <2>4. \A k, m \in Node : Told(table'[k][m], m)
    <3>1. \A m \in Node : Told(call[n]["main"].view[m], m)
      BY <1>b DEF Thread
    <3>2. \A m \in Node : Told(table'[n][m], m)
      BY <1>b, <2>2, <3>1
    <3>3. QED
      BY <1>b, <2>1, <3>2
  <2>5. \A k \in Node, t \in Thread : call'[k][t].view \in {NoView, call[k][t].view}
    BY <1>3, <1>a DEF SeedReply, TypeOK, Idle
  <2>6. \A k, m \in Node, t \in Thread : Told(call'[k][t].view[m], m)
    BY <1>a, <1>b, <2>5, AbsentTold
  <2>7. QED
    BY <1>3, <1>b, <2>3, <2>4, <2>6 DEF SeedReply, Provenance
<1>4. ASSUME NEW n \in Node, Started(n) PROVE Owner /\ Provenance
  <2>1. \A k \in Node : \/ pc'[k]["main"] = pc[k]["main"]
                        \/ pc[k]["main"] = "boot" /\ pc'[k]["main"] = "up"
    <3>1. pc'[n] = At("up", "sleep") /\ \A k \in Node : k # n => pc'[k] = pc[k]
      BY <1>4, <1>a DEF Started, TypeOK
    <3>2. QED
      BY <1>4, <3>1, AtType DEF Started
  <2>2. QED
    BY <1>4, <1>b, <2>1, OrdinaryOwner DEF Ordinary, Started, Provenance
<1>5. ASSUME NEW n \in Node, Wake(n) PROVE Owner /\ Provenance
  <2>1. \A k \in Node : pc'[k]["main"] = pc[k]["main"]
    BY <1>5, <1>a DEF Wake, TypeOK, Thread
  <2>2. QED
    BY <1>5, <1>b, <2>1, OrdinaryOwner DEF Ordinary, Wake, Provenance
<1>6. ASSUME NEW n \in Node, NEW age \in [Node \ {n} -> 0..2], Beat(n, age)
      PROVE  Owner /\ Provenance
  <2> DEFINE seen == [m \in Node |-> IF m = n THEN table[n][n]
                                     ELSE Degraded(table[n][m], age[m])]
  <2>1. table' = [table EXCEPT ![n] = [seen EXCEPT ![n].hb = @ + 1]]
    BY <1>6 DEF Beat
  <2>2. \A k, m \in Node : table[k][m] \in MemberRecord
    BY <1>a DEF TypeOK, View
  <2>3. /\ \A k \in Node : k # n => table'[k] = table[k]
        /\ \A m \in Node : m # n => table'[n][m] = Degraded(table[n][m], age[m])
        /\ table'[n][n] = [table[n][n] EXCEPT !.hb = @ + 1]
    BY <1>a, <2>1 DEF TypeOK
  <2>4. /\ table'[n][n].hb = table[n][n].hb + 1 /\ table[n][n].hb \in Nat
        /\ table'[n][n].gen = table[n][n].gen /\ table'[n][n].status = table[n][n].status
    BY <2>2, <2>3 DEF MemberRecord
  <2>5. \A k \in Node : pc'[k]["main"] = pc[k]["main"]
    BY <1>6, <1>a DEF Beat, TypeOK, Thread
  <2>6. Up(n)
    BY <1>6, <1>a DEF Beat, Inv, DownIsIdle
  <2>7. OwnState' /\ OwnRecordIsOwn'
    BY <1>6, <2>3, <2>4, <2>5, <2>6 DEF Inv, OwnState, OwnRecordIsOwn, Up, Beat
  <2>8. ASSUME NEW m \in Node PROVE Moves(m)
    <3>1. table[m][m].hb \in Nat
      BY <2>2 DEF MemberRecord
    <3>2. QED
      BY <1>6, <2>3, <2>4, <2>5, <3>1 DEF Moves, Up, Beat
  <2>9. \A k, m \in Node : m # k => Told(table'[k][m], m)
    BY <1>b, <2>2, <2>3, DegradedTold
  <2>10. QED
    BY <1>6, <1>b, <2>7, <2>8, <2>9 DEF Beat, Provenance
<1>7. ASSUME NEW n \in Node, NEW t \in Thread, NoPeer(n, t) PROVE Owner /\ Provenance
  <2>1. \A k \in Node : \/ pc'[k]["main"] = pc[k]["main"]
                        \/ pc[k]["main"] = "round" /\ pc'[k]["main"] = "join"
    BY <1>7, <1>a, RoundEnds DEF NoPeer
  <2>2. QED
    BY <1>7, <1>b, <2>1, OrdinaryOwner DEF Ordinary, NoPeer, Provenance
<1>8. ASSUME NEW n \in Node, NEW t \in Thread, RoundSend(n, t) PROVE Owner /\ Provenance
  <2>1. Owner
    BY <1>8, OrdinaryOwner DEF Ordinary, RoundSend
  <2>2. \A k \in Node, u \in Thread : call'[k][u].view \in {table[n], call[k][u].view}
    BY <1>8, <1>a DEF RoundSend, SendTo, Sent, TypeOK
  <2>3. \A k, m \in Node, u \in Thread : Told(call'[k][u].view[m], m)
    BY <1>b, <2>2
  <2>4. QED
    BY <1>8, <1>b, <2>1, <2>3 DEF RoundSend, Provenance
<1>9. ASSUME NEW n \in Node, NEW t \in Thread, RoundReply(n, t) PROVE Owner /\ Provenance
  <2>1. call[n][t].view \in View
    BY <1>a DEF TypeOK, Call
  <2>2. /\ \A k, m \in Node : Told(table'[k][m], m)
        /\ \A k \in Node : k # n => table'[k] = table[k]
        /\ table'[n][n] = table[n][n]
    BY <1>9, <1>a, <1>b, <2>1, AbsorbTold DEF RoundReply
  <2>3. \A k \in Node : \/ pc'[k]["main"] = pc[k]["main"]
                        \/ pc[k]["main"] = "round" /\ pc'[k]["main"] = "join"
    BY <1>9, <1>a, RoundEnds DEF RoundReply
  <2>4. Up(n)
    BY <1>9, BusyIsUp DEF RoundReply, Inv
  <2>5. Owner
    BY <1>9, <2>2, <2>3, <2>4, OrdinaryOwner DEF Ordinary, RoundReply
  <2>6. \A k \in Node, u \in Thread : call'[k][u].view \in {NoView, call[k][u].view}
    BY <1>9, <1>a DEF RoundReply, TypeOK, Idle
  <2>7. \A k, m \in Node, u \in Thread : Told(call'[k][u].view[m], m)
    BY <1>a, <1>b, <2>6, AbsentTold
  <2>8. QED
    BY <1>9, <1>b, <2>2, <2>5, <2>7 DEF RoundReply, Provenance
<1>10. ASSUME NEW n \in Node, NEW t \in Thread, Serve(n, t) PROVE Owner /\ Provenance
  <2> DEFINE p == call[n][t].peer
  <2>1. call[n][t].view \in View /\ p \in Node
    BY <1>a DEF TypeOK, Call
  <2>2. Absorb(p, call[n][t].view) /\ Up(p)
    BY <1>10 DEF Serve, Serving
  <2>3. /\ \A k, m \in Node : Told(table'[k][m], m)
        /\ \A k \in Node : k # p => table'[k] = table[k]
        /\ table'[p][p] = table[p][p]
    BY <1>a, <1>b, <2>1, <2>2, AbsorbTold
  <2>4. Owner
    BY <1>10, <2>1, <2>2, <2>3, OrdinaryOwner DEF Ordinary, Serve
  <2>5. \A k \in Node, u \in Thread : call'[k][u].view \in {table'[p], call[k][u].view}
    BY <1>10, <1>a DEF Serve, TypeOK, Answered
  <2>6. \A k, m \in Node, u \in Thread : Told(call'[k][u].view[m], m)
    BY <1>b, <2>1, <2>3, <2>5
  <2>7. late' = late
    BY <1>10 DEF Serve
  <2>8. QED
    BY <1>b, <2>3, <2>4, <2>6, <2>7 DEF Provenance
<1>11. ASSUME NEW r \in late, ServeLate(r) PROVE Owner /\ Provenance
  <2>1. r.view \in View /\ r.to \in Node
    BY <1>a DEF TypeOK, Request
  <2>2. Absorb(r.to, r.view) /\ Up(r.to)
    BY <1>11 DEF ServeLate, Serving
  <2>3. /\ \A k, m \in Node : Told(table'[k][m], m)
        /\ \A k \in Node : k # r.to => table'[k] = table[k]
        /\ table'[r.to][r.to] = table[r.to][r.to]
    BY <1>a, <1>b, <2>1, <2>2, AbsorbTold
  <2>4. Owner
    BY <1>11, <2>1, <2>2, <2>3, OrdinaryOwner DEF Ordinary, ServeLate
  <2>5. QED
    BY <1>11, <1>b, <2>3, <2>4 DEF ServeLate, Provenance
<1>12. ASSUME NEW n \in Node, NEW t \in Thread, GiveUp(n, t) PROVE Owner /\ Provenance
  <2>1. \A k \in Node : \/ pc'[k]["main"] = pc[k]["main"]
                        \/ pc[k]["main"] = "round" /\ pc'[k]["main"] = "join"
    <3>1. CASE pc[n][t] = "round"
      BY <1>12, <1>a, <3>1, RoundEnds DEF GiveUp, TypeOK
    <3>2. CASE pc[n][t] # "round"
      BY <1>12, <1>a, <3>2 DEF GiveUp, TypeOK
    <3>3. QED
      BY <3>1, <3>2
  <2>2. Owner
    BY <1>12, <2>1, OrdinaryOwner DEF Ordinary, GiveUp
  <2>3. \A k \in Node, u \in Thread : call'[k][u].view \in {NoView, call[k][u].view}
    BY <1>12, <1>a DEF GiveUp, TypeOK, Idle
  <2>4. \A k, m \in Node, u \in Thread : Told(call'[k][u].view[m], m)
    BY <1>a, <1>b, <2>3, AbsentTold
  <2>5. \A r \in late', m \in Node : Told(r.view[m], m)
    BY <1>12, <1>b, AbandonTold DEF GiveUp
  <2>6. QED
    BY <1>12, <1>b, <2>2, <2>4, <2>5 DEF GiveUp, Provenance
<1>13. ASSUME NEW n \in Node, Stop(n) PROVE Owner /\ Provenance
  <2>1. \A k, m \in Node : table[k][m] \in MemberRecord
    BY <1>a DEF TypeOK, View
  <2>2. /\ \A k \in Node : k # n => table'[k] = table[k]
        /\ \A m \in Node : m # n => table'[n][m] = table[n][m]
        /\ table'[n][n] = Farewell(table[n][n])
    BY <1>13, <1>a DEF Stop, TypeOK, View
  <2>3. /\ table'[n][n].gen = table[n][n].gen /\ table'[n][n].status = DEAD
        /\ table'[n][n].hb = table[n][n].hb + 1 /\ table[n][n].hb \in Nat
    BY <2>1, <2>2, FarewellType DEF MemberRecord
  <2>4. \A k \in Node : /\ pc'[k]["main"] = IF k = n THEN "round" ELSE pc[k]["main"]
                        /\ farewell'[k] = IF k = n THEN table[n][n].hb + 1 ELSE farewell[k]
    BY <1>13, <1>a DEF Stop, TypeOK, Thread
  <2>5. Up(n) /\ disk' = disk
    BY <1>13 DEF Stop, Up
  <2>6. OwnState' /\ OwnRecordIsOwn'
    BY <2>2, <2>3, <2>4, <2>5 DEF Inv, OwnState, OwnRecordIsOwn, Up
  <2>7. ASSUME NEW m \in Node PROVE Moves(m)
    <3>1. table[m][m].hb \in Nat
      BY <2>1 DEF MemberRecord
    <3>2. QED
      BY <2>2, <2>3, <2>4, <2>5, <3>1 DEF Moves, Up
  <2>8. \A k, m \in Node : m # k => Told(table'[k][m], m)
    BY <1>b, <2>2
  <2>9. QED
    BY <1>13, <1>b, <2>6, <2>7, <2>8 DEF Stop, Provenance
<1>14. ASSUME NEW n \in Node, Leave(n) PROVE Owner /\ Provenance
  <2>1. Up(n)
    BY <1>14 DEF Leave, At, Up, Thread
  <2>2. QED
    BY <1>14, <1>b, <2>1, VanishTold DEF Leave, Provenance
<1>15. ASSUME NEW n \in Node, Crash(n) PROVE Owner /\ Provenance
  <2>1. \A r \in late', m \in Node : Told(r.view[m], m)
    <3> DEFINE reqs == {[to |-> call[n][t].peer, view |-> call[n][t].view] :
                          t \in {u \in Thread : call[n][u].state = "sent"}}
    <3>1. Abandon(reqs)
      BY <1>15 DEF Crash
    <3>2. \A r \in reqs, m \in Node : Told(r.view[m], m)
      BY <1>b
    <3>3. QED
      BY <1>b, <3>1, <3>2, AbandonTold
  <2>2. QED
    BY <1>15, <2>1, VanishTold DEF Crash, Provenance
<1>16. CASE UNCHANGED vars
  <2>1. Owner
    BY <1>16, OrdinaryOwner DEF Ordinary, vars
  <2>2. QED
    BY <1>16, <1>b, <2>1 DEF vars, Provenance
<1>17. QED
  BY <1>1, <1>2, <1>3, <1>4, <1>5, <1>6, <1>7, <1>8, <1>9, <1>10, <1>11, <1>12,
     <1>13, <1>14, <1>15, <1>16
     DEF Next, MainStep, LoopStep, GossipRound, Thread

-----------------------------------------------------------------------------
(* The theorems on states *)

\* The strengthened invariant holds in every reachable state: types, what a process
\* knows of itself, and the provenance of every record held or in flight.
THEOREM Invariance == Spec => []Inv
BY InitInv, NextInv, PTL DEF Spec

\* A process never adopts a peer's verdict about itself (mergeView, doGossipRound,
\* start, detectFailures).
THEOREM OwnRecordCorrect == Spec => []OwnRecordIsOwn
BY Invariance, PTL DEF Inv

\* No record about a node is ahead of what that node has issued.
THEOREM NeverAheadCorrect == Spec => []NeverAheadOfOwner
BY Invariance, PTL DEF Inv

\* An announced departure is never contradicted within the same incarnation.
THEOREM FarewellCorrect == Spec => []FarewellIsFinal
BY Invariance, PTL DEF Inv

-----------------------------------------------------------------------------
(* What a step may never do *)

\* The failure detector leaves a record as it is or makes it more severe, and makes
\* nobody ALIVE (detectFailures).
LEMMA DegradedForward ==
  ASSUME NEW r \in MemberRecord, NEW a \in 0..2
  PROVE  /\ Degraded(r, a) = r \/ Supersedes(Degraded(r, a), r)
         /\ Degraded(r, a).status = ALIVE => r.status = ALIVE
BY DEF Degraded, Supersedes, MemberRecord, Status, ALIVE, SUSPECT, DEAD

\* A merge touches one table, moves its entries forward only, takes each of them from
\* one of the two views, and when it changes any of them the ring is that of the table
\* (mergeView, doGossipRound, notifyChange).
LEMMA AbsorbForward ==
  ASSUME TypeOK, NEW n \in Node, NEW v \in View, Absorb(n, v)
  PROVE  /\ \A k \in Node \ {n} : table'[k] = table[k] /\ ring'[k] = ring[k]
         /\ \A m \in Node : \/ table'[n][m] = table[n][m]
                            \/ /\ table'[n][m] = v[m]
                               /\ Supersedes(table'[n][m], table[n][m])
         /\ Learns(n) => ring'[n] = AliveIn(table'[n])
<1>1. /\ table' = [table EXCEPT ![n] = Merged(n, v)]
      /\ ring' = [ring EXCEPT ![n] = IF Merged(n, v) = table[n] THEN @
                                     ELSE AliveIn(Merged(n, v))]
  BY DEF Absorb
<1>2. /\ table'[n] = Merged(n, v)
      /\ ring'[n] = IF Merged(n, v) = table[n] THEN ring[n] ELSE AliveIn(Merged(n, v))
      /\ \A k \in Node \ {n} : table'[k] = table[k] /\ ring'[k] = ring[k]
  BY <1>1 DEF TypeOK
<1>3. \A m \in Node : Merged(n, v)[m] = IF m # n /\ Supersedes(v[m], table[n][m])
                                        THEN v[m] ELSE table[n][m]
  BY DEF Merged
<1> QED
  BY <1>2, <1>3 DEF Learns

\* The beat of the gossip thread likewise: its own entry gets a later heartbeat, the
\* others may be degraded (gossipLoop).
LEMMA BeatForward ==
  ASSUME TypeOK, NEW n \in Node, NEW age \in [Node \ {n} -> 0..2], Beat(n, age)
  PROVE  /\ \A k \in Node \ {n} : table'[k] = table[k] /\ ring'[k] = ring[k]
         /\ \A m \in Node : \/ table'[n][m] = table[n][m]
                            \/ Supersedes(table'[n][m], table[n][m])
         /\ AliveIn(table'[n]) \subseteq AliveIn(table[n])
         /\ Learns(n) => ring'[n] = AliveIn(table'[n])
<1> DEFINE seen == [m \in Node |-> IF m = n THEN table[n][n] ELSE Degraded(table[n][m], age[m])]
<1>1. /\ table' = [table EXCEPT ![n] = [seen EXCEPT ![n].hb = @ + 1]]
      /\ ring' = [ring EXCEPT ![n] = IF seen = table[n] THEN @ ELSE AliveIn(seen)]
  BY DEF Beat
<1>2. \A m \in Node : table[n][m] \in MemberRecord
  BY DEF TypeOK, View
<1>3. /\ table'[n] = [seen EXCEPT ![n].hb = @ + 1]
      /\ ring'[n] = IF seen = table[n] THEN ring[n] ELSE AliveIn(seen)
      /\ \A k \in Node \ {n} : table'[k] = table[k] /\ ring'[k] = ring[k]
  BY <1>1 DEF TypeOK
<1>4. /\ table'[n][n] = [table[n][n] EXCEPT !.hb = @ + 1]
      /\ \A m \in Node \ {n} : table'[n][m] = Degraded(table[n][m], age[m])
  BY <1>3
<1>5. /\ Supersedes(table'[n][n], table[n][n])
      /\ table'[n][n].status = table[n][n].status
  BY <1>2, <1>4 DEF Supersedes, MemberRecord
<1>6. \A m \in Node \ {n} : /\ table'[n][m] = table[n][m] \/ Supersedes(table'[n][m], table[n][m])
                            /\ table'[n][m].status = ALIVE => table[n][m].status = ALIVE
  BY <1>2, <1>4, DegradedForward
<1>7. AliveIn(table'[n]) = AliveIn(seen)
  BY <1>4, <1>5 DEF AliveIn
<1>8. AliveIn(table'[n]) \subseteq AliveIn(table[n])
  BY <1>5, <1>6 DEF AliveIn
<1>9. Learns(n) => seen # table[n]
  BY <1>4 DEF Learns
<1> QED
  BY <1>3, <1>5, <1>6, <1>7, <1>8, <1>9

-----------------------------------------------------------------------------
(* Tables move forward, and the ring follows *)

\* What MonotoneTables and RingFollowsView say of a step.
Forward ==
  \A n, m \in Node :
    (pc[n]["main"] \notin {"down", "boot"} /\ Up(n)')
       => (table'[n][m] = table[n][m] \/ Supersedes(table'[n][m], table[n][m]))

Followed ==
  \A n \in Node :
    pc[n]["main"] \notin {"down", "boot"} /\ Up(n)' /\ Learns(n)
       => ring'[n] = AliveIn(table'[n])

\* No step of a process past start() takes an entry back, and it notifies of a
\* change.
LEMMA ForwardStep == TypeOK /\ [Next]_vars => Forward /\ Followed
<1> SUFFICES ASSUME TypeOK, [Next]_vars PROVE Forward /\ Followed
  OBVIOUS
<1>1. CASE UNCHANGED table
  BY <1>1 DEF Forward, Followed, Learns
<1>2. ASSUME NEW n \in Node, Start(n) PROVE Forward /\ Followed
  <2>1. \A k \in Node \ {n} : table'[k] = table[k]
    BY <1>2 DEF Start, TypeOK
  <2>2. pc[n]["main"] = "down"
    BY <1>2 DEF Start, Up
  <2> QED
    BY <2>1, <2>2 DEF Forward, Followed, Learns
<1>3. ASSUME NEW n \in Node, SeedReply(n) PROVE Forward /\ Followed
  <2>1. \A k \in Node \ {n} : table'[k] = table[k]
    BY <1>3 DEF SeedReply, TypeOK
  <2>2. pc[n]["main"] = "boot"
    BY <1>3 DEF SeedReply
  <2> QED
    BY <2>1, <2>2 DEF Forward, Followed, Learns
<1>4. ASSUME NEW n \in Node, NEW age \in [Node \ {n} -> 0..2], Beat(n, age)
      PROVE  Forward /\ Followed
  BY <1>4, BeatForward DEF Forward, Followed, Learns
<1>5. ASSUME NEW n \in Node, NEW v \in View, Absorb(n, v) PROVE Forward /\ Followed
  BY <1>5, AbsorbForward DEF Forward, Followed, Learns
<1>6. ASSUME NEW n \in Node, NEW t \in Thread, RoundReply(n, t) PROVE Forward /\ Followed
  BY <1>5, <1>6 DEF RoundReply, TypeOK, Call
<1>7. ASSUME NEW n \in Node, NEW t \in Thread, Serve(n, t) PROVE Forward /\ Followed
  BY <1>5, <1>7 DEF Serve, TypeOK, Call
<1>8. ASSUME NEW r \in late, ServeLate(r) PROVE Forward /\ Followed
  BY <1>5, <1>8 DEF ServeLate, TypeOK, Request
<1>9. ASSUME NEW n \in Node, Stop(n) PROVE Forward /\ Followed
  <2>1. /\ \A k \in Node \ {n} : table'[k] = table[k]
        /\ \A m \in Node \ {n} : table'[n][m] = table[n][m]
        /\ table'[n][n] = Farewell(table[n][n])
    BY <1>9 DEF Stop, TypeOK, View
  <2>2. Supersedes(table'[n][n], table[n][n])
    BY <2>1, FarewellType DEF Supersedes, TypeOK, View, MemberRecord
  <2> QED
    BY <2>1, <2>2 DEF Forward, Followed, Learns
<1>10. ASSUME NEW n \in Node, Vanish(n) PROVE Forward /\ Followed
  <2>1. \A k \in Node \ {n} : table'[k] = table[k]
    BY <1>10 DEF Vanish, TypeOK
  <2>2. ~Up(n)'
    BY <1>10, AtType DEF Vanish, Up, TypeOK
  <2> QED
    BY <2>1, <2>2 DEF Forward, Followed, Learns
<1> QED
  BY <1>1, <1>2, <1>3, <1>4, <1>6, <1>7, <1>8, <1>9, <1>10
     DEF Next, MainStep, LoopStep, GossipRound, Thread, vars, ContactSeed, Started, Wake,
         NoPeer, RoundSend, GiveUp, Leave, Crash

-----------------------------------------------------------------------------
(* A split is permanent *)

\* The nodes n has lost when S and the rest have lost each other.
Other(S, n) == IF n \in S THEN Node \ S ELSE S

\* Nothing in view calls a node ALIVE that n has lost.
Apart(S, n, view) == \A m \in Other(S, n) : m \in Node => view[m].status # ALIVE

\* Split(S), process by process, with the AliveIn of each view spelt as Apart.
LEMMA SplitParts ==
  ASSUME NEW S \in SUBSET Node
  PROVE  Split(S) <=>
           /\ \A n \in Node :
                /\ Apart(S, n, table[n])
                /\ toContact[n] \cap Other(S, n) = {}
                /\ \A t \in Thread : /\ call[n][t].peer \notin Other(S, n)
                                     /\ Apart(S, n, call[n][t].view)
           /\ \A r \in late : Apart(S, r.to, r.view)
BY DEF Split, Apart, Other, AliveIn

\* A node is never lost to itself, and two nodes that are not lost to each other have
\* lost the same ones.
LEMMA SameSide ==
  ASSUME NEW S \in SUBSET Node, NEW n \in Node, NEW p \in Node, p \notin Other(S, n)
  PROVE  Other(S, p) = Other(S, n) /\ n \notin Other(S, n)
BY DEF Other

\* An empty view is apart from everything.
LEMMA NoViewApart == ASSUME NEW S \in SUBSET Node, NEW n PROVE Apart(S, n, NoView)
BY DEF Apart, NoView, Absent, ALIVE, DEAD

\* A step of one process that takes its table from views of its own side keeps the
\* tables apart.
LEMMA AbsorbApart ==
  ASSUME TypeOK, NEW S \in SUBSET Node, NEW n \in Node, NEW v \in View, Absorb(n, v),
         Apart(S, n, v), \A k \in Node : Apart(S, k, table[k])
  PROVE  \A k \in Node : Apart(S, k, table'[k])
<1>1. \A m \in Node : table'[n][m] \in {table[n][m], v[m]}
  BY AbsorbForward
<1>2. Apart(S, n, table'[n])
  BY <1>1 DEF Apart
<1> QED
  BY <1>2, AbsorbForward

\* What becomes of requests that are given up: they stay on their side.
LEMMA AbandonApart ==
  ASSUME NEW S \in SUBSET Node, NEW reqs, Abandon(reqs),
         \A r \in late \cup reqs : Apart(S, r.to, r.view)
  PROVE  \A r \in late' : Apart(S, r.to, r.view)
BY DEF Abandon

\* Every step but the start of a process keeps the two sides apart.
LEMMA SplitStep ==
  ASSUME TypeOK, [Next]_vars, \A n \in Node : ~(~Up(n) /\ Up(n)'),
         NEW S \in SUBSET Node, Split(S)
  PROVE  Split(S)'
<1> DEFINE Tables == \A n \in Node : Apart(S, n, table[n])
           Contacts == \A n \in Node : toContact[n] \cap Other(S, n) = {}
           Calls == \A n \in Node, t \in Thread : /\ call[n][t].peer \notin Other(S, n)
                                                  /\ Apart(S, n, call[n][t].view)
           Late == \A r \in late : Apart(S, r.to, r.view)
<1>a. Tables /\ Contacts /\ Calls /\ Late
  BY SplitParts
<1>b. SUFFICES Tables' /\ Contacts' /\ Calls' /\ Late'
  BY DEF Split, Apart, Other, AliveIn
<1>c. \A n \in Node, t \in Thread : /\ call[n][t].peer \in Node
                                    /\ call[n][t].view \in View
                                    /\ Other(S, call[n][t].peer) = Other(S, n)
  BY <1>a, SameSide DEF TypeOK, Call
<1>d. \A n \in Node : n \notin Other(S, n) /\ Apart(S, n, NoView)
  BY NoViewApart DEF Other
<1> USE <1>a
<1>1. ASSUME NEW n \in Node, Start(n) PROVE FALSE
  BY <1>1 DEF Start, Up, TypeOK, Thread
<1>2. ASSUME NEW n \in Node, NEW s \in Seeds, ContactSeed(n, s)
      PROVE  Tables' /\ Contacts' /\ Calls' /\ Late'
  <2>1. Tables' /\ Late'
    BY <1>2 DEF ContactSeed
  <2>2. Contacts'
    BY <1>2 DEF ContactSeed, TypeOK
  <2>3. /\ \A k \in Node, t \in Thread :
             \/ call'[k][t] = call[k][t]
             \/ k = n /\ call'[k][t] = Sent(s, table[n])
        /\ s \in toContact[n]
    BY <1>2 DEF ContactSeed, SendTo, TypeOK
  <2>4. Calls'
    BY <2>3 DEF Sent
  <2> QED
    BY <2>1, <2>2, <2>4
<1>3. ASSUME NEW n \in Node, SeedReply(n) PROVE Tables' /\ Contacts' /\ Calls' /\ Late'
  <2>1. Contacts' /\ Late'
    BY <1>3 DEF SeedReply
  <2>2. /\ \A k \in Node \ {n} : table'[k] = table[k]
        /\ \A m \in Node : table'[n][m] \in {table[n][m], call[n]["main"].view[m]}
    BY <1>3 DEF SeedReply, TypeOK
  <2>3. Apart(S, n, call[n]["main"].view)
    BY DEF Thread
  <2>4. Tables'
    BY <2>2, <2>3 DEF Apart
  <2>5. \A k \in Node, t \in Thread : call'[k][t] = call[k][t] \/ (k = n /\ call'[k][t] = Idle(n))
    BY <1>3 DEF SeedReply, TypeOK
  <2>6. Calls'
    BY <2>5, <1>d DEF Idle
  <2> QED
    BY <2>1, <2>4, <2>6
<1>4. ASSUME NEW n \in Node, NEW age \in [Node \ {n} -> 0..2], Beat(n, age)
      PROVE  Tables' /\ Contacts' /\ Calls' /\ Late'
  <2>1. Tables'
    BY <1>4, BeatForward DEF Apart, AliveIn
  <2> QED
    BY <1>4, <2>1 DEF Beat
<1>5. ASSUME NEW n \in Node, NEW t \in Thread, RoundSend(n, t)
      PROVE  Tables' /\ Contacts' /\ Calls' /\ Late'
  <2>1. PICK p \in Peers(n) : SendTo(n, t, p)
    BY <1>5 DEF RoundSend
  <2>2. p \notin Other(S, n)
    BY DEF Peers, AliveIn, Apart
  <2>3. \A k \in Node, u \in Thread : \/ call'[k][u] = call[k][u]
                                      \/ k = n /\ call'[k][u] = Sent(p, table[n])
    BY <2>1 DEF SendTo, TypeOK
  <2>4. Calls'
    BY <2>2, <2>3 DEF Sent
  <2> QED
    BY <1>5, <2>4 DEF RoundSend
<1>6. ASSUME NEW n \in Node, NEW t \in Thread, RoundReply(n, t)
      PROVE  Tables' /\ Contacts' /\ Calls' /\ Late'
  <2>1. Tables'
    BY <1>6, <1>c, AbsorbApart DEF RoundReply
  <2>2. \A k \in Node, u \in Thread : call'[k][u] = call[k][u] \/ (k = n /\ call'[k][u] = Idle(n))
    BY <1>6 DEF RoundReply, TypeOK
  <2>3. Calls'
    BY <2>2, <1>d DEF Idle
  <2> QED
    BY <1>6, <2>1, <2>3 DEF RoundReply
<1>7. ASSUME NEW n \in Node, NEW t \in Thread, Serve(n, t)
      PROVE  Tables' /\ Contacts' /\ Calls' /\ Late'
  <2> DEFINE p == call[n][t].peer
  <2>1. p \in Node /\ call[n][t].view \in View /\ Apart(S, p, call[n][t].view)
    BY <1>c DEF Apart
  <2>2. Tables'
    BY <1>7, <2>1, AbsorbApart DEF Serve
  <2>3. Apart(S, n, table'[p])
    BY <1>c, <2>1, <2>2 DEF Apart
  <2>4. \A k \in Node, u \in Thread : \/ call'[k][u] = call[k][u]
                                      \/ k = n /\ call'[k][u] = Answered(p, table'[p])
    BY <1>7 DEF Serve, TypeOK
  <2>5. Calls'
    BY <2>3, <2>4 DEF Answered
  <2> QED
    BY <1>7, <2>2, <2>5 DEF Serve
<1>8. ASSUME NEW r \in late, ServeLate(r) PROVE Tables' /\ Contacts' /\ Calls' /\ Late'
  <2>1. Tables'
    BY <1>8, AbsorbApart DEF ServeLate, TypeOK, Request
  <2> QED
    BY <1>8, <2>1 DEF ServeLate
<1>9. ASSUME NEW n \in Node, NEW t \in Thread, GiveUp(n, t)
      PROVE  Tables' /\ Contacts' /\ Calls' /\ Late'
  <2> DEFINE reqs == IF call[n][t].state = "sent"
                     THEN {[to |-> call[n][t].peer, view |-> call[n][t].view]} ELSE {}
  <2>1. Abandon(reqs)
    BY <1>9 DEF GiveUp
  <2>2. \A r \in reqs : Apart(S, r.to, r.view)
    BY <1>c DEF Apart
  <2>3. Late'
    BY <2>1, <2>2, AbandonApart
  <2>4. \A k \in Node, u \in Thread : call'[k][u] = call[k][u] \/ (k = n /\ call'[k][u] = Idle(n))
    BY <1>9 DEF GiveUp, TypeOK
  <2>5. Calls'
    BY <2>4, <1>d DEF Idle
  <2> QED
    BY <1>9, <2>3, <2>5 DEF GiveUp
<1>10. ASSUME NEW n \in Node, Stop(n) PROVE Tables' /\ Contacts' /\ Calls' /\ Late'
  <2>1. /\ \A k \in Node \ {n} : table'[k] = table[k]
        /\ \A m \in Node \ {n} : table'[n][m] = table[n][m]
        /\ table'[n][n] = Farewell(table[n][n])
    BY <1>10 DEF Stop, TypeOK, View
  <2>2. Tables'
    BY <2>1 DEF Apart, Farewell, ALIVE, DEAD
  <2> QED
    BY <1>10, <2>2 DEF Stop
<1>11. ASSUME NEW n \in Node, Vanish(n) PROVE Tables' /\ Contacts' /\ Calls'
  <2>1. \A k \in Node : /\ table'[k] = IF k = n THEN NoView ELSE table[k]
                        /\ toContact'[k] = IF k = n THEN {} ELSE toContact[k]
                        /\ \A t \in Thread : call'[k][t] = IF k = n THEN Idle(n) ELSE call[k][t]
    BY <1>11 DEF Vanish, TypeOK
  <2> QED
    BY <2>1, <1>d DEF Idle
<1>12. ASSUME NEW n \in Node, Crash(n) PROVE Late'
  <2> DEFINE reqs == {[to |-> call[n][t].peer, view |-> call[n][t].view] :
                        t \in {u \in Thread : call[n][u].state = "sent"}}
  <2>1. Abandon(reqs)
    BY <1>12 DEF Crash
  <2>2. \A r \in reqs : Apart(S, r.to, r.view)
    BY <1>c DEF Apart
  <2> QED
    BY <2>1, <2>2, AbandonApart
<1>13. CASE UNCHANGED <<table, toContact, call, late>>
  BY <1>13
<1> QED
  BY <1>1, <1>2, <1>3, <1>4, <1>5, <1>6, <1>7, <1>8, <1>9, <1>10, <1>11, <1>12, <1>13
     DEF Next, MainStep, LoopStep, GossipRound, Thread, vars, Started, Wake, NoPeer, Leave,
         Crash

-----------------------------------------------------------------------------
(* The theorems on steps *)

\* Once start() is over an entry of a table only moves forward, whatever late and
\* reordered views are merged (mergeView, doGossipRound, detectFailures, stop).
THEOREM TablesMonotone == Spec => MonotoneTables
<1>1. TypeOK /\ [Next]_vars => [Forward]_vars
  BY ForwardStep
<1> QED
  BY <1>1, TypeCorrect, PTL DEF Spec, MonotoneTables, Forward

\* After any news of another node the ring of a server past start() is that of its whole
\* table (notifyChange).
THEOREM RingFollows == Spec => RingFollowsView
<1>1. TypeOK /\ [Next]_vars => [Followed]_vars
  BY ForwardStep
<1> QED
  BY <1>1, TypeCorrect, PTL DEF Spec, RingFollowsView, Followed

\* Two groups of servers that suspect each other never find each other again by gossip:
\* only a server that starts can join them (pickRandomPeer, start).
THEOREM SplitPermanent == Spec => SplitIsPermanent
<1> DEFINE Stays == (\A n \in Node : ~(~Up(n) /\ Up(n)'))
                       => \A S \in SUBSET Node : Split(S) => Split(S)'
<1>1. TypeOK /\ [Next]_vars => [Stays]_vars
  BY SplitStep
<1> QED
  BY <1>1, TypeCorrect, PTL DEF Spec, SplitIsPermanent

=============================================================================
