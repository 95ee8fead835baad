---------------------------- MODULE KVReads_proofs ----------------------------
(***************************************************************************)
(* Why a get() returns what it should: proofs about module KVDistributor   *)
(* when servers die and return, the ring changes and clients share keys,   *)
(* for every set of clients, nodes, keys and values.                       *)
(***************************************************************************)
EXTENDS KVReplicas_proofs

Alone == Cardinality(Users) = 1

-----------------------------------------------------------------------------
(* What happens in a step *)

\* A client that rests shows the result of its last command.
LEMMA RestingFacts ==
  ASSUME NEW result
  PROVE  Resting(result).op = "none" /\ Resting(result).val = result
BY DEF Resting

\* The request of d is executed by n while d waits for it.
Served(d, n) ==
  \/ Direct(d) /\ Reached(d) = n
  \/ Handle(d, n) /\ Awaited(d, n)

\* What is executed is what d asks for, and d is told what was there.
LEMMA ServedFacts ==
  ASSUME CommonInv, NEW d \in Client, NEW n \in Node, Served(d, n)
  PROVE  /\ ~Idle(d) /\ ~Idle(d)' /\ Reached(d) = n /\ Target(d) \in Node
         /\ cmd[d].rpc # "answered" /\ cmd'[d].rpc = "answered"
         /\ cmd'[d].at = cmd[d].at /\ cmd'[d].op = cmd[d].op /\ cmd'[d].key = cmd[d].key
         /\ cmd'[d].val = cmd[d].val
         /\ RequestOf(d) \in Request /\ RequestOf(d).key = cmd[d].key
         /\ cmd'[d].reply = IF RequestOf(d).kind = "fetch" THEN store[n][cmd[d].key] ELSE Missing
         /\ store' = [store EXCEPT ![n] = Do(store[n], RequestOf(d))]
         /\ \A e \in Client \ {d} : cmd'[e] = cmd[e] /\ wire'[e] = wire[e]
         /\ UNCHANGED <<env, up, view, place, news, expect, fresh>>
<1> USE DEF CommonInv
<1>1. CASE Direct(d) /\ Reached(d) = n
  <2>1. n = First /\ fresh' = fresh
    BY <1>1, DirectFacts DEF Reached, Direct
  <2> QED
    BY <1>1, <2>1, DirectFacts, ExecutedIsDo DEF RequestOf
<1>2. CASE Handle(d, n) /\ Awaited(d, n)
  <2> DEFINE w == wire[d][n]
  <2>1. /\ ~Idle(d) /\ cmd[d].rpc = "sent" /\ Target(d) = n /\ Len(w) = 1
        /\ w # <<>> /\ w \in Seq(Request)
    BY <1>2, HandleFacts DEF Awaited
  <2>2. Head(w) = RequestOf(d)
    <3>1. w[1] = RequestOf(d)
      BY <2>1 DEF AwaitedIsLast
    <3> HIDE DEF w
    <3> QED
      BY <2>1, <3>1, TailFacts
  <2>3. Reached(d) = n
    BY <2>1 DEF Reached, LocalIsCut, AtLocalNode
  <2>4. RequestOf(d) \in Request /\ RequestOf(d).key = cmd[d].key
    BY <2>1, CommandFacts DEF RequestOf
  <2>5. store' = [store EXCEPT ![n] = Do(store[n], RequestOf(d))]
    BY <1>2, <2>2, <2>4, HandleFacts, ExecutedIsDo
  <2>6. fresh' = fresh
    BY <1>2 DEF Handle
  <2> QED
    BY <1>2, <2>1, <2>2, <2>3, <2>4, <2>5, <2>6, HandleFacts
<1> QED
  BY <1>1, <1>2 DEF Served

\* The ways in which a step may be made, once more: a request is executed while its
\* client waits for it, or later.
LEMMA Deeds ==
  ASSUME CommonInv, [Next]_vars
  PROVE  \/ \E c \in Client, op \in Op, k \in Key, v \in Held :
              /\ Begin(c, op, k, v)
              /\ op \in {"insert", "update"} => v \in Value
              /\ op \in {"get", "delete"} => v = Missing
         \/ \E c \in Client : Send(c)
         \/ \E c \in Client, n \in Node : Served(c, n)
         \/ \E c \in Client, n \in Node : Handle(c, n) /\ ~Awaited(c, n)
         \/ \E c \in Client : GoesOn(c)
         \/ \E c \in Client : Refresh(c)
         \/ \E c \in Client, live \in SUBSET Node : Ask(c, live)
         \/ \E n \in Node : Crash(n)
         \/ \E n \in Node : Restart(n)
         \/ UNCHANGED vars
<1>1. ASSUME NEW c \in Client, Direct(c) PROVE \E n \in Node : Served(c, n)
  <2>1. Target(c) \in Node /\ First \in Node
    BY <1>1, DirectFacts, KVAssumption DEF CommonInv
  <2>2. Reached(c) \in Node
    BY <2>1 DEF Reached
  <2> QED
    BY <1>1, <2>2 DEF Served
<1>2. ASSUME NEW c \in Client, NEW n \in Node, Handle(c, n), Awaited(c, n) PROVE Served(c, n)
  BY <1>2 DEF Served
<1> QED
  BY <1>1, <1>2, StepCases

\* What the other actions do to the membership and to the stores.
LEMMA MembershipFacts ==
  ASSUME TypeOK
  PROVE  /\ \A c \in Client : Refresh(c) =>
              /\ view'[c] = news[c] /\ place'[c] = Placement[news[c]] /\ news'[c] = {}
              /\ fresh' = fresh
         /\ \A c \in Client, live \in SUBSET Node : Ask(c, live) =>
              news' = [news EXCEPT ![c] = live] /\ fresh' = fresh
         /\ \A n \in Node : Crash(n) => fresh' = fresh
         /\ \A n \in Node : Restart(n) =>
              env.mayRestart /\ store' = [store EXCEPT ![n] = Empty] /\ fresh' = fresh
BY DEF TypeOK, Refresh, Ask, Crash, Restart

\* How a client goes on with a get().
LEMMA ReadContinues ==
  ASSUME CommonInv, NEW c \in Client, GoesOn(c), cmd[c].op = "get"
  PROVE  \E reply \in Held \cup {Failed} :
           /\ \/ reply = Failed /\ TimeOut(c)
              \/ cmd[c].rpc = "answered" /\ reply = cmd[c].reply
           /\ UNCHANGED <<env, up, store, view, place, news, wire, expect>>
           /\ \A d \in Client \ {c} : cmd'[d] = cmd[d] /\ fresh'[d] = fresh[d]
           /\ \/ /\ Idle(c)' /\ cmd[c].at = "primary" /\ ~IsMissOrError(reply)
                 /\ cmd'[c].val = reply
              \/ /\ Idle(c)' /\ IsMissOrError(reply) /\ cmd'[c].val = Failed
                 /\ \/ cmd[c].at = "primary" /\ Buddy(c, cmd[c].key) = Primary(c, cmd[c].key)
                    \/ cmd[c].at = "buddy"
              \/ Idle(c)' /\ cmd[c].at = "migrate" /\ cmd'[c].val = cmd[c].val
              \/ /\ ~Idle(c)' /\ cmd[c].at = "primary" /\ IsMissOrError(reply)
                 /\ Buddy(c, cmd[c].key) # Primary(c, cmd[c].key)
                 /\ cmd'[c].at = "buddy" /\ cmd'[c].rpc = "none" /\ fresh' = fresh
                 /\ cmd'[c].op = "get" /\ cmd'[c].key = cmd[c].key
              \/ /\ ~Idle(c)' /\ cmd[c].at = "buddy" /\ ~IsMissOrError(reply)
                 /\ cmd'[c].at = "migrate" /\ cmd'[c].val = reply /\ cmd'[c].rpc = "none"
                 /\ cmd'[c].op = "get" /\ cmd'[c].key = cmd[c].key /\ fresh' = fresh
<1> USE DEF CommonInv
<1>1. ~Idle(c) /\ cmd[c].rpc # "none" /\ cmd[c] \in Cmd
  BY GoesOnFacts, CommandFacts
<1>2. PICK reply \in Held \cup {Failed} :
        /\ Continue(c, reply)
        /\ \/ reply = Failed /\ TimeOut(c)
           \/ cmd[c].rpc = "answered" /\ reply = cmd[c].reply
  <2>1. cmd[c].reply \in Held
    BY <1>1 DEF Cmd, Held
  <2> QED
    BY <2>1 DEF GoesOn, Answer, TimeOut
<1>3. UNCHANGED <<env, up, store, view, place, news, wire>> /\ GetContinues(c, reply)
  BY <1>2 DEF Continue
<1>4. ASSUME NEW result, Finish(c, result)
      PROVE  /\ Idle(c)' /\ cmd'[c].val = result /\ expect' = expect
             /\ \A d \in Client \ {c} : cmd'[d] = cmd[d] /\ fresh'[d] = fresh[d]
  <2>1. expect' = expect
    BY <1>4 DEF Finish, Map!After
  <2>2. \A d \in Client \ {c} : fresh'[d] = fresh[d]
    BY <1>4 DEF Finish, TypeOK
  <2> QED
    BY <1>4, <2>1, <2>2, FinishFacts, RestingFacts
<1>5. CASE /\ cmd[c].at = "primary" /\ ~IsMissOrError(reply) /\ Finish(c, reply)
  BY <1>2, <1>3, <1>4, <1>5
<1>6. CASE /\ cmd[c].at = "primary" /\ IsMissOrError(reply)
           /\ Buddy(c, cmd[c].key) # Primary(c, cmd[c].key)
           /\ Proceed(c, "buddy", Missing) /\ UNCHANGED <<expect, fresh>>
  BY <1>1, <1>2, <1>3, <1>6, ProceedFacts
<1>7. CASE /\ cmd[c].at = "buddy" /\ ~IsMissOrError(reply)
           /\ Proceed(c, "migrate", reply) /\ UNCHANGED <<expect, fresh>>
  BY <1>1, <1>2, <1>3, <1>7, ProceedFacts
<1>8. CASE /\ \/ cmd[c].at = "primary" /\ Buddy(c, cmd[c].key) = Primary(c, cmd[c].key)
              \/ cmd[c].at = "buddy"
           /\ IsMissOrError(reply) /\ Finish(c, Failed)
  BY <1>2, <1>3, <1>4, <1>8
<1>9. CASE cmd[c].at = "migrate" /\ Finish(c, cmd[c].val)
  BY <1>2, <1>3, <1>4, <1>9
<1> QED
  BY <1>3, <1>5, <1>6, <1>7, <1>8, <1>9 DEF GetContinues

\* How it goes on with a write.
LEMMA WriteEnds ==
  ASSUME CommonInv, NEW c \in Client, GoesOn(c), cmd[c].op # "get"
  PROVE  /\ UNCHANGED <<env, up, store, view, place, news, wire>>
         /\ \A d \in Client \ {c} : cmd'[d] = cmd[d] /\ fresh'[d] = fresh[d]
         /\ \/ /\ Idle(c)' /\ expect' = Map!After(expect, cmd[c].op, cmd[c].key, cmd[c].val)
               /\ cmd[c].at = "buddy" \/ Buddy(c, cmd[c].key) = Primary(c, cmd[c].key)
            \/ /\ ~Idle(c)' /\ expect' = expect /\ fresh' = fresh
               /\ cmd[c].at = "primary" /\ Buddy(c, cmd[c].key) # Primary(c, cmd[c].key)
               /\ cmd'[c].at = "buddy" /\ cmd'[c].rpc = "none" /\ cmd'[c].val = cmd[c].val
               /\ cmd'[c].op = cmd[c].op /\ cmd'[c].key = cmd[c].key
<1> USE DEF CommonInv
<1>1. ~Idle(c)
  BY GoesOnFacts
<1>2. PICK reply \in Held \cup {Failed} : Continue(c, reply)
  BY GoesOnFacts
<1>3. UNCHANGED <<env, up, store, view, place, news, wire>> /\ WriteContinues(c)
  BY <1>2 DEF Continue
<1>4. CASE /\ cmd[c].at = "buddy" \/ Buddy(c, cmd[c].key) = Primary(c, cmd[c].key)
           /\ Finish(c, Missing)
  <2>1. \A d \in Client \ {c} : fresh'[d] = fresh[d]
    BY <1>4 DEF Finish, TypeOK
  <2> QED
    BY <1>3, <1>4, <2>1, FinishFacts
<1>5. CASE /\ cmd[c].at = "primary" /\ Buddy(c, cmd[c].key) # Primary(c, cmd[c].key)
           /\ Proceed(c, "buddy", cmd[c].val) /\ UNCHANGED <<expect, fresh>>
  BY <1>1, <1>3, <1>5, ProceedFacts
<1> QED
  BY <1>3, <1>4, <1>5 DEF WriteContinues

\* A command returns because its client goes on.
LEMMA Returning ==
  ASSUME CommonInv, [Next]_vars, NEW c \in Client, ~Idle(c), Idle(c)'
  PROVE  GoesOn(c)
<1> USE DEF CommonInv
<1>1. cmd'[c] # cmd[c]
  BY DEF Idle
<1> SUFFICES ASSUME ~GoesOn(c) PROVE FALSE
  OBVIOUS
<1>2. ASSUME NEW d \in Client, NEW op \in Op, NEW k \in Key, NEW v \in Held, Begin(d, op, k, v) PROVE FALSE
  BY <1>1, <1>2, BeginFacts
<1>3. ASSUME NEW d \in Client, Send(d) PROVE FALSE
  BY <1>1, <1>3, SendFacts
<1>4. ASSUME NEW d \in Client, NEW n \in Node, Served(d, n) PROVE FALSE
  BY <1>1, <1>4, ServedFacts
<1>5. ASSUME NEW d \in Client, NEW n \in Node, Handle(d, n), ~Awaited(d, n) PROVE FALSE
  BY <1>1, <1>5, HandleFacts
<1>6. ASSUME NEW d \in Client, GoesOn(d) PROVE FALSE
  <2>1. cmd'[c] = cmd[c]
    BY <1>6, ReadContinues, WriteEnds
  <2> QED
    BY <1>1, <2>1
<1> QED
  BY <1>1, <1>2, <1>3, <1>4, <1>5, <1>6, Deeds, OtherFacts DEF vars

\* A client that is executing a get() is not idle.
LEMMA GetIsBusy ==
  ASSUME TypeOK, NEW c \in Client, cmd[c].op # "none"
  PROVE  ~Idle(c)
BY CommandFacts, RestingFacts

\* A command starts because its client begins it.
LEMMA Beginning ==
  ASSUME CommonInv, [Next]_vars, NEW c \in Client, Idle(c), ~Idle(c)'
  PROVE  \E op \in Op, k \in Key, v \in Held :
           /\ Begin(c, op, k, v)
           /\ op \in {"insert", "update"} => v \in Value
           /\ op \in {"get", "delete"} => v = Missing
<1> USE DEF CommonInv
<1>1. cmd'[c] # cmd[c]
  BY DEF Idle
<1>2. ASSUME NEW d \in Client, NEW op \in Op, NEW k \in Key, NEW v \in Held, Begin(d, op, k, v) PROVE d = c
  BY <1>1, <1>2, BeginFacts
<1>3. ASSUME NEW d \in Client, Send(d) PROVE FALSE
  BY <1>1, <1>3, SendFacts
<1>4. ASSUME NEW d \in Client, NEW n \in Node, Served(d, n) PROVE FALSE
  BY <1>1, <1>4, ServedFacts
<1>5. ASSUME NEW d \in Client, NEW n \in Node, Handle(d, n), ~Awaited(d, n) PROVE FALSE
  BY <1>1, <1>5, HandleFacts
<1>6. ASSUME NEW d \in Client, GoesOn(d) PROVE FALSE
  <2>1. cmd'[c] = cmd[c]
    BY <1>6, ReadContinues, WriteEnds, GoesOnFacts
  <2> QED
    BY <1>1, <2>1
<1> QED
  BY <1>1, <1>2, <1>3, <1>4, <1>5, <1>6, Deeds, OtherFacts DEF vars

\* The map that is expected changes only when a write returns.
LEMMA ExpectMoves ==
  ASSUME CommonInv, [Next]_vars
  PROVE  \/ expect' = expect
         \/ \E c \in Client :
              /\ GoesOn(c) /\ ~Idle(c) /\ Idle(c)' /\ cmd[c].op \in Writes
              /\ cmd[c].key \in Key /\ cmd[c].val \in Held
              /\ cmd[c].op \in {"insert", "update"} => cmd[c].val \in Value
              /\ expect' = Map!After(expect, cmd[c].op, cmd[c].key, cmd[c].val)
<1> USE DEF CommonInv
<1>1. ASSUME NEW c \in Client, GoesOn(c), cmd[c].op # "get", expect' # expect
      PROVE  /\ ~Idle(c) /\ Idle(c)' /\ cmd[c].op \in Writes
             /\ cmd[c].key \in Key /\ cmd[c].val \in Held
             /\ cmd[c].op \in {"insert", "update"} => cmd[c].val \in Value
             /\ expect' = Map!After(expect, cmd[c].op, cmd[c].key, cmd[c].val)
  <2>1. ~Idle(c) /\ cmd[c] \in Cmd
    BY <1>1, GoesOnFacts, CommandFacts
  <2>2. cmd[c].op \in Op /\ cmd[c].key \in Key /\ cmd[c].val \in Held
    BY <2>1 DEF Cmd, Held
  <2> QED
    BY <1>1, <2>1, <2>2, WriteEnds DEF Op, CommandsMakeSense
<1>2. ASSUME NEW c \in Client, GoesOn(c), cmd[c].op = "get" PROVE expect' = expect
  BY <1>2, ReadContinues
<1> QED
  BY <1>1, <1>2, Deeds, BeginFacts, SendFacts, ServedFacts, HandleFacts, OtherFacts DEF vars

\* What a get() may return grows only when another client begins to write.
LEMMA FreshGrows ==
  ASSUME CommonInv, [Next]_vars, NEW c \in Client, ~Idle(c), ~Idle(c)'
  PROVE  /\ cmd'[c].op = cmd[c].op /\ cmd'[c].key = cmd[c].key
         /\ \/ fresh'[c] = fresh[c]
            \/ \E d \in Client \ {c}, op \in Writes, v \in Held :
                 /\ Begin(d, op, cmd[c].key, v)
                 /\ op \in {"insert", "update"} => v \in Value
                 /\ fresh'[c] = fresh[c] \cup {With(op, cmd[c].key, v)}
<1> USE DEF CommonInv
<1> DEFINE Grown == \/ fresh'[c] = fresh[c]
                    \/ \E d \in Client \ {c}, op \in Writes, v \in Held :
                         /\ Begin(d, op, cmd[c].key, v)
                         /\ op \in {"insert", "update"} => v \in Value
                         /\ fresh'[c] = fresh[c] \cup {With(op, cmd[c].key, v)}
<1>1. cmd'[c].op = cmd[c].op /\ cmd'[c].key = cmd[c].key
  BY Moves DEF Starts, Advances, Ends, MovesOn
<1>2. ASSUME NEW d \in Client, NEW op \in Op, NEW k \in Key, NEW v \in Held, Begin(d, op, k, v),
             op \in {"insert", "update"} => v \in Value
      PROVE  Grown
  <2>1. d # c
    BY <1>2, BeginFacts
  <2>2. fresh'[c] = IF op # "get" /\ ~Idle(c) /\ cmd[c].op = "get" /\ cmd[c].key = k
                    THEN fresh[c] \cup {With(op, k, v)} ELSE fresh[c]
    BY <1>2, <2>1 DEF Begin, StartsFresh
  <2> QED
    BY <1>2, <2>1, <2>2 DEF Op
<1>3. ASSUME NEW d \in Client, Send(d) PROVE Grown
  BY <1>3 DEF Send
<1>4. ASSUME NEW d \in Client, NEW n \in Node, Served(d, n) PROVE Grown
  BY <1>4, ServedFacts
<1>5. ASSUME NEW d \in Client, NEW n \in Node, Handle(d, n) PROVE Grown
  BY <1>5 DEF Handle
<1>6. ASSUME NEW d \in Client, GoesOn(d) PROVE Grown
  BY <1>6, ReadContinues, WriteEnds
<1>7. ASSUME UNCHANGED vars PROVE Grown
  BY <1>7 DEF vars
<1> HIDE DEF Grown
<1>8. ASSUME fresh' = fresh PROVE Grown
  BY <1>8 DEF Grown
<1>9. Grown
  BY <1>2, <1>3, <1>4, <1>5, <1>6, <1>7, <1>8, Deeds, MembershipFacts
<1> QED
  BY <1>1, <1>9 DEF Grown

\* What it may return when it begins.
LEMMA FreshStarts ==
  ASSUME TypeOK, NEW c \in Client, NEW k \in Key, NEW v \in Held, Begin(c, "get", k, v)
  PROVE  fresh'[c] = {expect[k]} \cup {With(cmd[e].op, k, cmd[e].val) :
                                         e \in {x \in Client : ~Idle(x) /\ cmd[x].key = k}}
BY DEF Begin, StartsFresh

\* A get() is told, gives up or goes on, or nothing happens to it.
LEMMA ReadMoves ==
  ASSUME CommonInv, [Next]_vars, NEW r \in Client, ~Idle(r)
  PROVE  \/ cmd'[r] = cmd[r]
         \/ GoesOn(r)
         \/ Send(r)
         \/ \E n \in Node : Served(r, n)
<1> USE DEF CommonInv
<1>1. ASSUME NEW d \in Client, d # r, GoesOn(d) PROVE cmd'[r] = cmd[r]
  BY <1>1, ReadContinues, WriteEnds
<1>2. ASSUME NEW d \in Client, d # r, NEW n \in Node, Served(d, n) PROVE cmd'[r] = cmd[r]
  BY <1>2, ServedFacts
<1>3. ASSUME NEW d \in Client, NEW n \in Node, Handle(d, n), ~Awaited(d, n) PROVE cmd'[r] = cmd[r]
  BY <1>3, HandleFacts
<1>4. ASSUME NEW d \in Client, NEW op \in Op, NEW l \in Key, NEW v \in Held, Begin(d, op, l, v)
      PROVE  cmd'[r] = cmd[r]
  BY <1>4, BeginFacts
<1>5. ASSUME NEW d \in Client, d # r, Send(d) PROVE cmd'[r] = cmd[r]
  BY <1>5, SendFacts
<1> QED
  BY <1>1, <1>2, <1>3, <1>4, <1>5, Deeds, OtherFacts DEF vars

-----------------------------------------------------------------------------
(* The world *)

\* Only servers that may die are down, only users do something, and a client has the
\* ring it was configured with or one it was told of.
WorldInv ==
  /\ Node \ up \subseteq env.mayCrash
  /\ \A c \in Client \ Users : Idle(c) /\ \A n \in Node : wire[c][n] = <<>>
  /\ \A c \in Client : /\ view[c] \in {env.configured} \cup env.answers
                       /\ news[c] = {} \/ news[c] \in env.answers

\* WorldInv is inductive.
LEMMA WorldStep ==
  ASSUME CommonInv, WorldInv, [Next]_vars
  PROVE  WorldInv'
<1> USE DEF CommonInv
<1>0. env' = env /\ Users' = Users
  BY EnvironmentStays
<1> DEFINE UpInv == Node \ up \subseteq env.mayCrash
           IdleInv == \A d \in Client \ Users : Idle(d) /\ \A n \in Node : wire[d][n] = <<>>
           RingInv == \A d \in Client : /\ view[d] \in {env.configured} \cup env.answers
                                        /\ news[d] = {} \/ news[d] \in env.answers
<1>1. UpInv /\ IdleInv /\ RingInv
  BY DEF WorldInv
<1>2. ASSUME up' = up, view' = view, news' = news PROVE UpInv' /\ RingInv'
  BY <1>0, <1>1, <1>2
<1>3. ASSUME NEW c \in Users, \A d \in Client \ {c} : cmd'[d] = cmd[d] /\ wire'[d] = wire[d]
      PROVE  IdleInv'
  BY <1>0, <1>1, <1>3, UsersAreClients DEF Idle
<1>4. ASSUME NEW c \in Client, NEW op \in Op, NEW k \in Key, NEW v \in Held, Begin(c, op, k, v)
      PROVE  UpInv' /\ IdleInv' /\ RingInv'
  BY <1>2, <1>3, <1>4, BeginFacts
<1>5. ASSUME NEW c \in Client, Send(c) PROVE UpInv' /\ IdleInv' /\ RingInv'
  BY <1>1, <1>2, <1>3, <1>5, SendFacts
<1>6. ASSUME NEW c \in Client, NEW n \in Node, Served(c, n) PROVE UpInv' /\ IdleInv' /\ RingInv'
  BY <1>1, <1>2, <1>3, <1>6, ServedFacts
<1>7. ASSUME NEW c \in Client, NEW n \in Node, Handle(c, n) PROVE UpInv' /\ IdleInv' /\ RingInv'
  <2>1. c \in Users
    BY <1>1, <1>7, HandleFacts
  <2> QED
    BY <1>2, <1>3, <1>7, <2>1, HandleFacts
<1>8. ASSUME NEW c \in Client, GoesOn(c) PROVE UpInv' /\ IdleInv' /\ RingInv'
  <2>1. c \in Users
    BY <1>1, <1>8, GoesOnFacts
  <2>2. /\ UNCHANGED <<up, view, news, wire>>
        /\ \A d \in Client \ {c} : cmd'[d] = cmd[d]
    BY <1>8, ReadContinues, WriteEnds
  <2> QED
    BY <1>2, <1>3, <2>1, <2>2
<1>9. ASSUME cmd' = cmd, wire' = wire PROVE IdleInv'
  BY <1>0, <1>1, <1>9 DEF Idle
<1>10. ASSUME NEW c \in Client, Refresh(c) PROVE UpInv' /\ IdleInv' /\ RingInv'
  <2>1. RingInv'
    <3>1. news[c] \in env.answers /\ view'[c] = news[c] /\ news'[c] = {}
      BY <1>1, <1>10, OtherFacts, MembershipFacts
    <3>2. \A d \in Client \ {c} : view'[d] = view[d] /\ news'[d] = news[d]
      BY <1>10, OtherFacts
    <3> QED
      BY <1>0, <1>1, <3>1, <3>2
  <2> QED
    BY <1>0, <1>1, <1>9, <1>10, <2>1, OtherFacts
<1>11. ASSUME NEW c \in Client, NEW live \in SUBSET Node, Ask(c, live)
       PROVE  UpInv' /\ IdleInv' /\ RingInv'
  <2>1. RingInv'
    <3>1. live \in env.answers /\ view' = view /\ news' = [news EXCEPT ![c] = live]
      BY <1>11, OtherFacts, MembershipFacts
    <3>2. \A d \in Client : news'[d] = news[d] \/ news'[d] = live
      BY <3>1
    <3> QED
      BY <1>0, <1>1, <3>1, <3>2
  <2> QED
    BY <1>0, <1>1, <1>9, <1>11, <2>1, OtherFacts
<1>12. ASSUME NEW n \in Node, Crash(n) PROVE UpInv' /\ IdleInv' /\ RingInv'
  BY <1>0, <1>1, <1>12, OtherFacts DEF Idle
<1>13. ASSUME NEW n \in Node, Restart(n) PROVE UpInv' /\ IdleInv' /\ RingInv'
  BY <1>0, <1>1, <1>9, <1>13, OtherFacts
<1>14. ASSUME UNCHANGED vars PROVE UpInv' /\ IdleInv' /\ RingInv'
  BY <1>0, <1>1, <1>2, <1>9, <1>14 DEF vars
<1> HIDE DEF UpInv, IdleInv, RingInv
<1>15. UpInv' /\ IdleInv' /\ RingInv'
  BY <1>4, <1>5, <1>6, <1>7, <1>8, <1>10, <1>11, <1>12, <1>13, <1>14, Deeds
<1> QED
  BY <1>15 DEF UpInv, IdleInv, RingInv, WorldInv

\* WorldInv holds at the start.
LEMMA WorldInit == Init => WorldInv
<1> SUFFICES ASSUME Init PROVE WorldInv
  OBVIOUS
<1>1. TypeOK
  BY InitType
<1> QED
  BY <1>1 DEF Init, WorldInv, Resting, Idle

\* Who does something is a user.
LEMMA ActorsAreUsers ==
  ASSUME TypeOK, WorldInv, NEW c \in Client
  PROVE  /\ ~Idle(c) => c \in Users
         /\ \A n \in Node : wire[c][n] # <<>> => c \in Users
BY DEF WorldInv

\* A set of two.
LEMMA TwoElements ==
  ASSUME NEW a, NEW b, a # b
  PROVE  Cardinality({a, b}) = 2
<1>1. IsFiniteSet({a}) /\ Cardinality({a}) = 1
  BY FS_Singleton
<1>2. b \notin {a}
  OBVIOUS
<1>3. Cardinality({a} \cup {b}) = Cardinality({a}) + 1
  BY <1>1, <1>2, FS_AddElement
<1>4. {a, b} = {a} \cup {b}
  OBVIOUS
<1> QED
  BY <1>1, <1>3, <1>4

\* One answer is all there is, if no node returns.
LEMMA OneAnswer ==
  ASSUME TypeOK, ~NodesReturn
  PROVE  \A s, t \in env.answers : s = t
<1>1. IsFiniteSet(env.answers)
  <2>1. env.answers \subseteq SUBSET Node /\ env.answers \in SUBSET ((SUBSET Node) \ {{}})
    BY EnvironmentFacts DEF TypeOK
  <2>2. IsFiniteSet(SUBSET Node)
    BY KVAssumption, FS_SUBSET
  <2> QED
    BY <2>1, <2>2, FS_Subset
<1>2. Cardinality(env.answers) \in Nat /\ Cardinality(env.answers) <= 1
  BY <1>1, FS_CardinalityType DEF NodesReturn
<1> SUFFICES ASSUME NEW s \in env.answers, NEW t \in env.answers, s # t PROVE FALSE
  OBVIOUS
<1>3. Cardinality({s, t}) = 2
  BY TwoElements
<1>4. Cardinality({s, t}) <= Cardinality(env.answers)
  BY <1>1, FS_Subset
<1> QED
  BY <1>2, <1>3, <1>4

-----------------------------------------------------------------------------
(* Requests that are answered at once *)

\* Nothing is given up that n may still execute.
Prompt(n) == ~env.slow /\ (n \notin env.mayCrash \/ ~env.mayRestart)

\* To such a server at most one request is on its way, which its client waits for.
PromptInv ==
  \A n \in Node : Prompt(n) => \A c \in Client :
    wire[c][n] = IF n \in up /\ ~Idle(c) /\ cmd[c].rpc = "sent" /\ Target(c) = n
                 THEN <<RequestOf(c)>> ELSE <<>>

\* PromptInv holds at the start.
LEMMA PromptInit == Init => PromptInv
<1> SUFFICES ASSUME Init PROVE PromptInv
  OBVIOUS
<1>1. TypeOK
  BY InitType
<1> QED
  BY <1>1 DEF Init, PromptInv, Resting, Idle

\* PromptInv is kept: a client that has not timed out sends nothing else meanwhile.
LEMMA PromptStep ==
  ASSUME CommonInv, WorldInv, PromptInv, [Next]_vars
  PROVE  PromptInv'
<1> USE DEF CommonInv
<1>0. env' = env
  BY EnvironmentStays
<1> SUFFICES ASSUME NEW n \in Node, Prompt(n), NEW c \in Client
             PROVE  wire'[c][n] = IF n \in up' /\ ~Idle(c)' /\ cmd'[c].rpc = "sent" /\ Target(c)' = n
                                  THEN <<RequestOf(c)'>> ELSE <<>>
  BY <1>0 DEF PromptInv, Prompt
<1> DEFINE Waits == n \in up /\ ~Idle(c) /\ cmd[c].rpc = "sent" /\ Target(c) = n
           Goal == wire'[c][n] = IF n \in up' /\ ~Idle(c)' /\ cmd'[c].rpc = "sent" /\ Target(c)' = n
                                 THEN <<RequestOf(c)'>> ELSE <<>>
<1>1. wire[c][n] = IF Waits THEN <<RequestOf(c)>> ELSE <<>>
  BY DEF PromptInv
<1>2. ASSUME cmd'[c] = cmd[c], place'[c] = place[c] \/ Idle(c), wire'[c][n] = wire[c][n], up' = up
      PROVE  Goal
  <2>1. CASE Idle(c)
    BY <1>1, <1>2, <2>1 DEF Idle
  <2>2. CASE ~Idle(c)
    BY <1>0, <1>1, <1>2, <2>2, Frame
  <2> QED
    BY <2>1, <2>2
<1>3. ASSUME wire'[c][n] = <<>>, cmd'[c].rpc # "sent" \/ n \notin up' PROVE Goal
  BY <1>3
<1>4. ASSUME NEW d \in Client, NEW op \in Op, NEW k \in Key, NEW v \in Held, Begin(d, op, k, v)
      PROVE  Goal
  <2>1. CASE d # c
    BY <1>2, <1>4, <2>1, BeginFacts
  <2>2. CASE d = c
    BY <1>1, <1>3, <1>4, <2>2, BeginFacts
  <2> QED
    BY <2>1, <2>2
<1>5. ASSUME NEW d \in Client, Send(d) PROVE Goal
  <2>1. CASE d # c
    BY <1>2, <1>5, <2>1, SendFacts
  <2>2. CASE d = c
    <3>1. /\ ~Idle(c) /\ ~Idle(c)' /\ cmd'[c].rpc = "sent" /\ up' = up /\ cmd[c].rpc = "none"
          /\ RequestOf(c) \in Request
      BY <1>5, <2>2, SendFacts
    <3>2. Target(c)' = Target(c) /\ RequestOf(c)' = RequestOf(c)
      BY <1>5, <2>2, SendFacts, Underway
    <3>3. wire[c][n] = <<>>
      BY <1>1, <3>1
    <3>4. wire'[c][n] = IF n = Target(c) /\ n \in up THEN Append(wire[c][n], RequestOf(c))
                        ELSE wire[c][n]
      BY <1>5, <2>2, SendFacts
    <3>5. Append(<<>>, RequestOf(c)) = <<RequestOf(c)>>
      BY <3>1
    <3> QED
      BY <3>1, <3>2, <3>3, <3>4, <3>5
  <2> QED
    BY <2>1, <2>2
<1>6. ASSUME NEW d \in Client, Direct(d) PROVE Goal
  <2>1. CASE d # c
    BY <1>2, <1>6, <2>1, DirectFacts
  <2>2. CASE d = c
    BY <1>1, <1>3, <1>6, <2>2, DirectFacts
  <2> QED
    BY <2>1, <2>2
<1>7. ASSUME NEW d \in Client, NEW m \in Node, Handle(d, m) PROVE Goal
  <2>1. CASE d # c
    BY <1>2, <1>7, <2>1, HandleFacts
  <2>2. CASE d = c /\ m # n
    <3>1. wire'[c][n] = wire[c][n] /\ up' = up /\ place' = place
      BY <1>7, <2>2, HandleFacts
    <3>2. CASE ~Awaited(c, m)
      BY <1>2, <1>7, <2>2, <3>1, <3>2, HandleFacts
    <3>3. CASE Awaited(c, m)
      <4>1. cmd'[c].rpc = "answered" /\ Target(c) = m
        BY <1>7, <2>2, <3>3, HandleFacts DEF Awaited
      <4> QED
        BY <1>1, <1>3, <2>2, <3>1, <4>1
    <3> QED
      BY <3>2, <3>3
  <2>3. CASE d = c /\ m = n
    <3>1. wire[c][n] # <<>> /\ wire'[c][n] = Tail(wire[c][n])
      BY <1>7, <2>3, HandleFacts
    <3>2. Waits /\ wire[c][n] = <<RequestOf(c)>>
      BY <1>1, <3>1
    <3>3. Awaited(c, n)
      BY <3>2 DEF Awaited
    <3>4. cmd'[c].rpc = "answered" /\ wire'[c][n] = <<>>
      BY <1>7, <2>3, <3>1, <3>2, <3>3, HandleFacts
    <3> QED
      BY <1>3, <3>4
  <2> QED
    BY <2>1, <2>2, <2>3
<1>8. ASSUME NEW d \in Client, GoesOn(d) PROVE Goal
  <2>1. CASE d # c
    <3>1. cmd'[c] = cmd[c] /\ UNCHANGED <<place, wire, up>>
      BY <1>8, <2>1, ReadContinues, WriteEnds
    <3> QED
      BY <1>2, <3>1
  <2>2. CASE d = c
    <3>1. wire'[c][n] = wire[c][n] /\ up' = up
      BY <1>8, <2>2, ReadContinues, WriteEnds
    <3>2. cmd'[c].rpc = "none" \/ Idle(c)'
      BY <1>8, <2>2, ReadContinues, WriteEnds
    <3>3. wire[c][n] = <<>>
      <4> SUFFICES ASSUME Waits PROVE FALSE
        BY <1>1
      <4>1. TimeOut(c)
        BY <1>8, <2>2 DEF GoesOn, Answer
      <4>2. Lost(c) /\ wire[c][Target(c)] = <<RequestOf(c)>>
        BY <1>1, <4>1 DEF TimeOut, Prompt
      <4> QED
        BY <4>2 DEF Lost
    <3>4. CASE cmd'[c].rpc = "none"
      BY <1>3, <3>1, <3>3, <3>4
    <3>5. CASE Idle(c)'
      BY <3>1, <3>3, <3>5
    <3> QED
      BY <3>2, <3>4, <3>5
  <2> QED
    BY <2>1, <2>2
<1>9. ASSUME NEW d \in Client, Refresh(d) PROVE Goal
  <2>1. place'[c] = place[c] \/ Idle(c)
    BY <1>9, OtherFacts
  <2> QED
    BY <1>2, <1>9, <2>1, OtherFacts
<1>10. ASSUME NEW d \in Client, NEW live \in SUBSET Node, Ask(d, live) PROVE Goal
  BY <1>2, <1>10, OtherFacts
<1>11. ASSUME NEW m \in Node, Crash(m) PROVE Goal
  <2>1. /\ up' = up \ {m} /\ UNCHANGED <<cmd, place>>
        /\ wire'[c][n] = IF n = m THEN <<>> ELSE wire[c][n]
    BY <1>11, OtherFacts
  <2>2. CASE n = m
    BY <2>1, <2>2
  <2>3. CASE n # m
    <3>1. Target(c)' = Target(c) /\ RequestOf(c)' = RequestOf(c) /\ (Idle(c)' <=> Idle(c))
      BY <1>0, <2>1, Frame
    <3> QED
      BY <1>1, <2>1, <2>3, <3>1
  <2> QED
    BY <2>2, <2>3
<1>12. ASSUME NEW m \in Node, Restart(m) PROVE Goal
  <2>1. /\ up' = up \cup {m} /\ UNCHANGED <<cmd, place, wire>> /\ m \notin up /\ env.mayRestart
    BY <1>12, OtherFacts, MembershipFacts
  <2>2. m # n
    BY <2>1 DEF WorldInv, Prompt
  <2>3. Target(c)' = Target(c) /\ RequestOf(c)' = RequestOf(c) /\ (Idle(c)' <=> Idle(c))
    BY <1>0, <2>1, Frame
  <2> QED
    BY <1>1, <2>1, <2>2, <2>3
<1>13. ASSUME UNCHANGED vars PROVE Goal
  BY <1>2, <1>13 DEF vars
<1> HIDE DEF Goal
<1>14. Goal
  BY <1>4, <1>5, <1>6, <1>7, <1>8, <1>9, <1>10, <1>11, <1>12, <1>13, StepCases
<1> QED
  BY <1>14 DEF Goal

\* What always holds of the world and of prompt servers.
BaseInv == CommonInv /\ WorldInv /\ PromptInv

\* ... is an invariant.
LEMMA BaseInvariance == Spec => []BaseInv
<1>1. Init => WorldInv /\ PromptInv
  BY WorldInit, PromptInit
<1>2. CommonInv /\ WorldInv /\ PromptInv /\ [Next]_vars => (WorldInv /\ PromptInv)'
  BY WorldStep, PromptStep
<1> QED
  BY <1>1, <1>2, CommonInvariance, PTL DEF Spec, BaseInv

-----------------------------------------------------------------------------
(* A key that nobody has written *)

\* No insert of k has been completed or begun.
Unborn(k) == expect[k] = Missing /\ ~\E c \in Client : Writing(c, k) /\ cmd[c].op = "insert"

\* k is on no server and on its way to none, and nobody has seen it.
Nowhere(k) ==
  /\ \A n \in Node : store[n][k] = Missing /\ \A c \in Client : ~Inserts(wire[c][n], k)
  /\ \A c \in Client : Reading(c, k) =>
       cmd[c].at # "migrate" /\ (cmd[c].rpc = "answered" => cmd[c].reply = Missing)

\* Where nobody deletes, a get() that may only miss looks for a key that is nowhere.
UnbornInv == Undeleted =>
  /\ KeepsKeys
  /\ \A k \in Key :
       /\ Unborn(k) => Nowhere(k)
       /\ \A c \in Client : Reading(c, k) /\ fresh[c] \subseteq {Missing} => Unborn(k)

\* What a write that deletes nothing makes of a key.
LEMMA AfterKeeps ==
  ASSUME NEW m \in [Key -> Held], NEW op \in Writes \ {"delete"}, NEW k \in Key, NEW v \in Value,
         NEW l \in Key
  PROVE  /\ m[l] # Missing => Map!After(m, op, k, v)[l] # Missing
         /\ op = "insert" => Map!After(m, op, k, v)[k] # Missing
         /\ Map!After(m, op, k, v)[l] # Missing => m[l] # Missing \/ (op = "insert" /\ k = l)
BY KVAssumption DEF Writes, Map!After

\* A key that has been written stays so.
LEMMA UnbornBack ==
  ASSUME CommonInv, Undeleted, KeepsKeys, [Next]_vars, NEW k \in Key, Unborn(k)'
  PROVE  Unborn(k)
<1> USE DEF CommonInv
<1>1. expect \in [Key -> Held] /\ expect'[k] = Missing
  BY DEF TypeOK, Held, Unborn
<1>2. ASSUME NEW c \in Client, ~Idle(c), cmd[c].op \in Writes, cmd[c].key \in Key,
             cmd[c].op \in {"insert", "update"} => cmd[c].val \in Value,
             expect' = Map!After(expect, cmd[c].op, cmd[c].key, cmd[c].val)
      PROVE  expect[k] = Missing /\ ~(Writing(c, k) /\ cmd[c].op = "insert")
  <2>1. cmd[c].op \in Writes \ {"delete"} /\ cmd[c].val \in Value
    BY <1>2 DEF KeepsKeys, Writes
  <2> QED
    BY <1>1, <1>2, <2>1, AfterKeeps DEF Writing
<1>3. expect[k] = Missing
  BY <1>1, <1>2, ExpectMoves
<1>4. ASSUME NEW c \in Client, Writing(c, k), cmd[c].op = "insert" PROVE FALSE
  <2>1. CASE ~Idle(c)'
    <3>1. cmd'[c].op = "insert" /\ cmd'[c].key = k
      BY <1>4, <2>1, FreshGrows DEF Writing
    <3> QED
      BY <2>1, <3>1 DEF Unborn, Writing
  <2>2. CASE Idle(c)'
    <3>1. ~Idle(c) /\ GoesOn(c) /\ cmd[c] \in Cmd
      BY <1>4, <2>2, Returning, CommandFacts DEF Writing
    <3>2. expect' = Map!After(expect, cmd[c].op, cmd[c].key, cmd[c].val)
      BY <1>4, <2>2, <3>1, WriteEnds
    <3>3. cmd[c].key \in Key /\ cmd[c].val \in Value
      BY <1>4, <3>1 DEF CommandsMakeSense, Cmd
    <3> QED
      BY <1>2, <1>4, <3>1, <3>2, <3>3 DEF Writes
  <2> QED
    BY <2>1, <2>2
<1> QED
  BY <1>3, <1>4 DEF Unborn

\* Until then it is nowhere.
LEMMA NowhereStep ==
  ASSUME CommonInv, Undeleted, KeepsKeys, [Next]_vars, NEW k \in Key, Unborn(k), Nowhere(k)
  PROVE  Nowhere(k)'
<1> USE DEF CommonInv
<1>0. store \in [Node -> [Key -> Held]]
  BY DEF TypeOK, Held
<1>1. ASSUME NEW c \in Client, ~Idle(c)
      PROVE  ~(RequestOf(c).kind = "insert" /\ RequestOf(c).key = k)
  BY <1>1 DEF Nowhere, Unborn, Reading, Writing, RequestOf
<1>2. ASSUME NEW n \in Node, NEW r \in Request, r.kind # "delete",
             r.kind \in {"insert", "update"} => r.val \in Value,
             ~(r.kind = "insert" /\ r.key = k), store' = [store EXCEPT ![n] = Do(store[n], r)]
      PROVE  \A m \in Node : store'[m][k] = Missing
  <2>1. Do(store[n], r)[k] = Missing
    BY <1>0, <1>2, DoKeeps DEF Nowhere
  <2> QED
    BY <1>0, <1>2, <2>1 DEF Nowhere
<1>3. \A n \in Node : store'[n][k] = Missing
  <2>1. ASSUME NEW c \in Client, NEW n \in Node, Served(c, n) PROVE \A m \in Node : store'[m][k] = Missing
    <3>1. /\ ~Idle(c) /\ RequestOf(c) \in Request
          /\ store' = [store EXCEPT ![n] = Do(store[n], RequestOf(c))]
      BY <2>1, ServedFacts
    <3> QED
      BY <1>1, <1>2, <3>1, RequestFacts
  <2>2. ASSUME NEW c \in Client, NEW n \in Node, Handle(c, n) PROVE \A m \in Node : store'[m][k] = Missing
    <3> DEFINE w == wire[c][n]
    <3>1. w # <<>> /\ w \in Seq(Request) /\ store' = Executed(n, Head(w))
      BY <2>2, HandleFacts
    <3>2. Head(w) \in Request /\ Head(w) = w[1] /\ 1 \in 1..Len(w)
      BY <3>1, TailFacts
    <3>3. /\ Head(w).kind # "delete"
          /\ Head(w).kind \in {"insert", "update"} => Head(w).val \in Value
      BY <3>2 DEF KeepsKeys, WritesHaveValues
    <3>4. ~(Head(w).kind = "insert" /\ Head(w).key = k)
      BY <3>2 DEF Nowhere, Inserts
    <3>5. store' = [store EXCEPT ![n] = Do(store[n], Head(w))]
      BY <3>1, <3>2, ExecutedIsDo
    <3> HIDE DEF w
    <3> QED
      BY <1>2, <3>2, <3>3, <3>4, <3>5
  <2>3. ASSUME NEW n \in Node, Restart(n) PROVE \A m \in Node : store'[m][k] = Missing
    BY <1>0, <2>3, MembershipFacts DEF Nowhere, Empty
  <2>4. ASSUME store' = store PROVE \A m \in Node : store'[m][k] = Missing
    BY <2>4 DEF Nowhere
  <2>5. ASSUME NEW c \in Client, GoesOn(c) PROVE store' = store
    BY <2>5, ReadContinues, WriteEnds
  <2> QED
    BY <2>1, <2>2, <2>3, <2>4, <2>5, Deeds, BeginFacts, SendFacts, OtherFacts DEF vars
<1>4. ASSUME NEW c \in Client, NEW n \in Node PROVE ~Inserts(wire'[c][n], k)
  <2> SUFFICES ASSUME NEW i \in 1..Len(wire'[c][n]),
                      wire'[c][n][i].kind = "insert", wire'[c][n][i].key = k
               PROVE  FALSE
    BY DEF Inserts
  <2>1. CASE \E j \in 1..Len(wire[c][n]) : wire'[c][n][i] = wire[c][n][j]
    BY <2>1 DEF Nowhere, Inserts
  <2>2. CASE Send(c) /\ wire'[c][n][i] = RequestOf(c)
    BY <1>1, <2>2, SendFacts
  <2> QED
    BY <2>1, <2>2, RequestsStep
<1>5. ASSUME NEW c \in Client, Reading(c, k)'
      PROVE  cmd'[c].at # "migrate" /\ (cmd'[c].rpc = "answered" => cmd'[c].reply = Missing)
  <2>1. CASE cmd'[c] = cmd[c]
    BY <1>5, <2>1 DEF Nowhere, Reading, Idle
  <2>2. CASE Starts(c)
    BY <2>2 DEF Starts
  <2>3. CASE Advances(c)
    <3>1. Reading(c, k) /\ cmd[c].at # "migrate" /\ cmd'[c].at = cmd[c].at
      BY <1>5, <2>3 DEF Advances, Reading, Nowhere
    <3>2. RequestOf(c).kind = "fetch" /\ cmd[c].key = k
      BY <3>1 DEF RequestOf, Reading
    <3>3. Reached(c) \in Node
      <4>1. Target(c) \in Node /\ First \in Node
        BY <3>1, CommandFacts, KVAssumption DEF Reading
      <4> QED
        BY <4>1 DEF Reached
    <3> QED
      BY <2>3, <3>1, <3>2, <3>3 DEF Advances, Nowhere
  <2>4. CASE Ends(c)
    BY <1>5, <2>4 DEF Ends, Reading
  <2>5. CASE MovesOn(c)
    BY <1>5, <2>5 DEF MovesOn, Reading, Nowhere
  <2> QED
    BY <2>1, <2>2, <2>3, <2>4, <2>5, Moves
<1> QED
  BY <1>3, <1>4, <1>5 DEF Nowhere, Inserts

\* A get() that may only miss has begun while the key was unborn, and nobody has
\* begun to insert it since.
LEMMA UnbornReaders ==
  ASSUME CommonInv, Undeleted, KeepsKeys, [Next]_vars, NEW k \in Key, NEW c \in Client,
         Reading(c, k) /\ fresh[c] \subseteq {Missing} => Unborn(k),
         Reading(c, k)', fresh'[c] \subseteq {Missing}
  PROVE  Unborn(k)'
<1> USE DEF CommonInv
<1>0. expect \in [Key -> Held]
  BY DEF TypeOK, Held
<1>1. CASE Idle(c)
  <2>1. PICK op \in Op, l \in Key, v \in Held : Begin(c, op, l, v)
    BY <1>1, Beginning DEF Reading
  <2>2. Begin(c, "get", k, v) /\ "get" \in Op
    BY <2>1, BeginFacts DEF Reading
  <2>3. /\ expect[k] = Missing
        /\ \A e \in Client : ~Idle(e) /\ cmd[e].key = k => With(cmd[e].op, k, cmd[e].val) = Missing
    BY <2>2, FreshStarts
  <2>4. ASSUME NEW e \in Client, Writing(e, k)', cmd'[e].op = "insert" PROVE FALSE
    <3>1. cmd'[e] = cmd[e] /\ Writing(e, k) /\ cmd[e].op = "insert"
      <4>1. e # c
        BY <2>4 DEF Reading, Writing
      <4> QED
        BY <2>2, <2>4, <4>1, BeginFacts DEF Writing, Idle
    <3>2. cmd[e].val \in Value
      BY <3>1 DEF Writing, CommandsMakeSense
    <3>3. With("insert", k, cmd[e].val) # Missing
      BY <1>0, <3>2, AfterKeeps DEF With, Writes
    <3> QED
      BY <2>3, <3>1, <3>3 DEF Writing
  <2>5. expect' = expect
    BY <2>2, BeginFacts
  <2> QED
    BY <2>3, <2>4, <2>5 DEF Unborn
<1>2. CASE ~Idle(c)
  <2>0. ~Idle(c)'
    BY DEF Reading
  <2>1. Reading(c, k) /\ fresh[c] \subseteq {Missing}
    BY <1>2, <2>0, FreshGrows DEF Reading
  <2>2. Unborn(k)
    BY <2>1
  <2>3. expect'[k] = Missing
    <3>1. ASSUME NEW d \in Client, ~Idle(d), cmd[d].op \in Writes, cmd[d].key \in Key,
                 cmd[d].op \in {"insert", "update"} => cmd[d].val \in Value,
                 expect' = Map!After(expect, cmd[d].op, cmd[d].key, cmd[d].val)
          PROVE  expect'[k] = Missing
      <4>1. cmd[d].op \in Writes \ {"delete"} /\ cmd[d].val \in Value
        BY <3>1 DEF KeepsKeys, Writes
      <4>2. ~(cmd[d].op = "insert" /\ cmd[d].key = k)
        BY <2>2, <3>1 DEF Unborn, Writing
      <4> QED
        BY <1>0, <2>2, <3>1, <4>1, <4>2, AfterKeeps DEF Unborn
    <3> QED
      BY <2>2, <3>1, ExpectMoves DEF Unborn
  <2>4. ASSUME NEW e \in Client, Writing(e, k)', cmd'[e].op = "insert" PROVE FALSE
    <3>1. CASE Idle(e)
      <4>1. PICK op \in Op, l \in Key, v \in Held :
              Begin(e, op, l, v) /\ (op \in {"insert", "update"} => v \in Value)
        BY <2>4, <3>1, Beginning DEF Writing
      <4>2. Begin(e, "insert", k, v) /\ v \in Value /\ e # c
        BY <1>2, <2>4, <3>1, <4>1, BeginFacts DEF Writing
      <4>3. fresh'[c] = fresh[c] \cup {With("insert", k, v)}
        BY <2>1, <4>2 DEF Begin, StartsFresh, Reading
      <4>4. With("insert", k, v) # Missing
        BY <1>0, <4>2, AfterKeeps DEF With, Writes
      <4> QED
        BY <4>3, <4>4
    <3>2. CASE ~Idle(e)
      <4>1. cmd'[e].op = cmd[e].op /\ cmd'[e].key = cmd[e].key
        BY <2>4, <3>2, FreshGrows DEF Writing
      <4> QED
        BY <2>2, <2>4, <3>2, <4>1 DEF Writing, Unborn
    <3> QED
      BY <3>1, <3>2
  <2> QED
    BY <2>3, <2>4 DEF Unborn
<1> QED
  BY <1>1, <1>2

\* UnbornInv is an invariant.
LEMMA UnbornInvariance == Spec => []UnbornInv
<1>1. Init => UnbornInv
  <2> SUFFICES ASSUME Init PROVE UnbornInv
    OBVIOUS
  <2>1. TypeOK /\ \A c \in Client : Idle(c) /\ \A n \in Node : wire[c][n] = <<>>
    BY InitType DEF Init, Resting, Idle
  <2>2. \A n \in Node, k \in Key : store[n][k] = Missing
    BY DEF Init, Empty
  <2> QED
    BY <2>1, <2>2 DEF UnbornInv, KeepsKeys, Nowhere, Inserts, Reading
<1>2. CommonInv /\ UnbornInv /\ [Next]_vars => UnbornInv'
  <2> SUFFICES ASSUME CommonInv, UnbornInv, [Next]_vars, Undeleted
               PROVE  /\ KeepsKeys'
                      /\ \A k \in Key :
                           /\ Unborn(k)' => Nowhere(k)'
                           /\ \A c \in Client : Reading(c, k)' /\ fresh'[c] \subseteq {Missing} => Unborn(k)'
    BY EnvironmentStays DEF UnbornInv, Undeleted
  <2>1. KeepsKeys
    BY DEF UnbornInv
  <2>2. ASSUME NEW k \in Key, Unborn(k)' PROVE Nowhere(k)'
    <3>1. Unborn(k)
      BY <2>1, <2>2, UnbornBack
    <3>2. Nowhere(k)
      BY <3>1 DEF UnbornInv
    <3> QED
      BY <2>1, <3>1, <3>2, NowhereStep
  <2>3. ASSUME NEW k \in Key, NEW c \in Client, Reading(c, k)', fresh'[c] \subseteq {Missing}
        PROVE  Unborn(k)'
    <3>1. Reading(c, k) /\ fresh[c] \subseteq {Missing} => Unborn(k)
      BY DEF UnbornInv
    <3> QED
      BY <2>1, <2>3, <3>1, UnbornReaders
  <2> QED
    BY <2>1, <2>2, <2>3, KeepsStep
<1> QED
  BY <1>1, <1>2, CommonInvariance, PTL DEF Spec

-----------------------------------------------------------------------------
(* A client alone, and a deleted key *)

Loner == Alone /\ ~NodesReturn /\ ~Estranged

\* c can reach the store of n.
Reach(c, n) == n \in up \/ n = env.local[c]

\* A get() must not find k on n: n is a replica of the deleted key, or has never been one.
MustMiss(c, n, k) ==
  /\ Reach(c, n)
  /\ IF n \in {Primary(c, k), Buddy(c, k)} THEN Promised(c, n, k) = Missing
     ELSE view[c] = env.configured

\* Nor will it once n has executed what c has sent to it.
Missed(c, n, k) ==
  \E v \in Held : /\ Leads(store[n], wire[c][n], k, v)
                  /\ MustMiss(c, n, k) => v = Missing

\* A get() of a deleted key has not found it.
SeesMissing(c, k) == Reading(c, k) =>
  /\ expect[k] \in fresh[c]
  /\ expect[k] = Missing =>
       cmd[c].at # "migrate" /\ (cmd[c].rpc = "answered" => cmd[c].reply = Missing)

MissInv == Loner =>
  \A c \in Users, k \in Key : SeesMissing(c, k) /\ \A n \in Node : Missed(c, n, k)

\* There is one user, and nobody else does anything.
LEMMA LonerFacts ==
  ASSUME TypeOK, WorldInv, Loner, NEW c \in Users
  PROVE  /\ c \in Client /\ Users = {c} /\ env.mayRestart = FALSE
         /\ \A d \in Client : ~Idle(d) => d = c
         /\ \A d \in Client, n \in Node : wire[d][n] # <<>> => d = c
<1>1. Users \subseteq Client /\ IsFiniteSet(Users) /\ Cardinality(Users) = 1
  BY UsersAreClients DEF Loner, Alone
<1>2. Users = {c}
  <2>1. Cardinality(Users \ {c}) = 0 /\ IsFiniteSet(Users \ {c})
    BY <1>1, FS_RemoveElement
  <2>2. Users \ {c} = {}
    BY <2>1, FS_EmptySet
  <2> QED
    BY <2>2
<1>3. env.mayRestart = FALSE
  BY EnvironmentFacts DEF Loner, NodesReturn, TypeOK, Environment
<1> QED
  BY <1>1, <1>2, <1>3, ActorsAreUsers

\* Missed after a step, from what is then on n and on its way there.
LEMMA MissedNext ==
  ASSUME NEW c \in Client, NEW n \in Node, NEW k \in Key, NEW m, NEW w, NEW v \in Held,
         store'[n] = m, wire'[c][n] = w, Leads(m, w, k, v), MustMiss(c, n, k)' => v = Missing
  PROVE  Missed(c, n, k)'
BY DEF Missed, Leads

\* What n must miss when nothing is said to it.
LEMMA MustMissSame ==
  ASSUME NEW c \in Client, NEW n \in Node, NEW k \in Key, UNCHANGED <<env, up, view, place>>,
         n \in {Primary(c, k), Buddy(c, k)} => Promised(c, n, k)' = Promised(c, n, k)
  PROVE  MustMiss(c, n, k)' <=> MustMiss(c, n, k)
BY DEF MustMiss, Reach, Primary, Buddy

\* A command that begins.
LEMMA MissBegin ==
  ASSUME CommonInv, NEW c \in Client, NEW k \in Key, SeesMissing(c, k), \A n \in Node : Missed(c, n, k),
         NEW op \in Op, NEW l \in Key, NEW v \in Held, Begin(c, op, l, v)
  PROVE  SeesMissing(c, k)' /\ \A n \in Node : Missed(c, n, k)'
<1> USE DEF CommonInv
<1>1. /\ Idle(c) /\ cmd'[c].at = "primary" /\ cmd'[c].rpc = "none" /\ cmd'[c].op = op
      /\ cmd'[c].key = l
      /\ UNCHANGED <<env, up, store, view, place, wire, expect>>
  BY BeginFacts
<1>2. \A n : Promised(c, n, k)' = Promised(c, n, k)
  BY <1>1 DEF Promised, Writing, Sent
<1>3. ASSUME NEW n \in Node PROVE Missed(c, n, k)'
  <2>1. MustMiss(c, n, k)' <=> MustMiss(c, n, k)
    BY <1>1, <1>2, MustMissSame
  <2> QED
    BY <1>1, <2>1 DEF Missed, Leads
<1>4. SeesMissing(c, k)'
  <2>1. Reading(c, k)' => Begin(c, "get", k, v)
    BY <1>1 DEF Reading
  <2>2. Reading(c, k)' => expect[k] \in fresh'[c]
    BY <2>1, FreshStarts
  <2> QED
    BY <1>1, <2>2 DEF SeesMissing
<1> QED
  BY <1>3, <1>4

\* The value that a request c makes of t leads to.
LEMMA MissAsk ==
  ASSUME CommonInv, NEW c \in Client, NEW k \in Key, SeesMissing(c, k), ~Idle(c), cmd[c].rpc = "none",
         NEW t \in Node, t = Target(c), Reach(c, t), ~Idle(c)', cmd'[c].rpc # "none",
         cmd'[c].at = cmd[c].at, cmd'[c].op = cmd[c].op, cmd'[c].key = cmd[c].key,
         cmd'[c].val = cmd[c].val, UNCHANGED <<env, up, view, place, expect>>,
         NEW x \in [Key -> Held], MustMiss(c, t, k) => x[k] = Missing, MustMiss(c, t, k)'
  PROVE  Do(x, RequestOf(c))[k] = Missing
<1> USE DEF CommonInv
<1>1. /\ Promised(c, t, k) = expect[k]
      /\ Promised(c, t, k)' = IF Writing(c, k) THEN Do(expect, RequestOf(c))[k] ELSE expect[k]
  BY Requesting
<1>2. /\ RequestOf(c) \in Request /\ RequestOf(c).key = cmd[c].key /\ expect \in [Key -> Held]
      /\ cmd[c].op \in Op /\ cmd[c].key \in Key /\ RequestOf(c).val = cmd[c].val
  BY CommandFacts DEF TypeOK, Held, RequestOf, Cmd
<1>3. Reach(c, t)' /\ Primary(c, k)' = Primary(c, k) /\ Buddy(c, k)' = Buddy(c, k)
  BY DEF Reach, Primary, Buddy
<1>4. CASE cmd[c].key # k
  <2>1. Promised(c, t, k)' = Promised(c, t, k)
    BY <1>1, <1>4 DEF Writing
  <2>2. MustMiss(c, t, k)
    BY <2>1, MustMissSame
  <2> QED
    BY <1>2, <1>4, <2>2, DoFacts
<1>5. CASE cmd[c].key = k
  <2>1. t \in {Primary(c, k), Buddy(c, k)}
    BY <1>5 DEF Target
  <2>2. Promised(c, t, k)' = Missing
    BY <1>3, <2>1 DEF MustMiss
  <2>3. expect[k] = Missing => x[k] = Missing
    BY <1>1, <2>1 DEF MustMiss
  <2>4. CASE ~Writing(c, k)
    <3>1. Reading(c, k) /\ expect[k] = Missing
      BY <1>1, <1>5, <2>2, <2>4 DEF Reading, Writing
    <3>2. RequestOf(c).kind = "fetch"
      BY <3>1 DEF SeesMissing, RequestOf, Reading
    <3> QED
      BY <1>2, <2>3, <3>1, <3>2, DoFacts
  <2>5. CASE Writing(c, k)
    <3>1. Do(expect, RequestOf(c))[k] = Missing
      BY <1>1, <2>2, <2>5
    <3>2. RequestOf(c).kind = cmd[c].op /\ cmd[c].op \in Writes
      BY <1>2, <2>5 DEF RequestOf, Writing, Op
    <3>3. cmd[c].op \in {"insert", "update"} => cmd[c].val # Missing
      BY KVAssumption DEF CommandsMakeSense
    <3> QED
      BY <1>2, <1>5, <2>3, <3>1, <3>2, <3>3 DEF Do, Map!After, Writes
  <2> QED
    BY <2>4, <2>5
<1> QED
  BY <1>4, <1>5

\* A request that is sent.
LEMMA MissSend ==
  ASSUME CommonInv, NEW c \in Client, NEW k \in Key, SeesMissing(c, k), \A n \in Node : Missed(c, n, k),
         Send(c)
  PROVE  SeesMissing(c, k)' /\ \A n \in Node : Missed(c, n, k)'
<1> USE DEF CommonInv
<1>1. /\ ~Idle(c) /\ cmd[c].rpc = "none" /\ ~AtLocalNode(c) /\ Target(c) \in Node
      /\ RequestOf(c) \in Request /\ wire[c][Target(c)] \in Seq(Request)
      /\ ~Idle(c)' /\ cmd'[c].rpc = "sent"
      /\ cmd'[c].at = cmd[c].at /\ cmd'[c].op = cmd[c].op /\ cmd'[c].key = cmd[c].key
      /\ cmd'[c].val = cmd[c].val
      /\ \A n \in Node \ {Target(c)} : wire'[c][n] = wire[c][n]
      /\ wire'[c][Target(c)] = IF Target(c) \in up THEN Append(wire[c][Target(c)], RequestOf(c))
                               ELSE wire[c][Target(c)]
      /\ UNCHANGED <<env, up, store, view, place, expect>>
  BY SendFacts
<1>2. fresh' = fresh
  BY DEF Send
<1>3. PICK t \in Node : t = Target(c)
  BY <1>1
<1>4. \A n : n # t => Promised(c, n, k)' = Promised(c, n, k)
  BY <1>1, <1>3, Requesting
<1>5. ASSUME NEW n \in Node, n # t PROVE Missed(c, n, k)'
  <2>1. MustMiss(c, n, k)' <=> MustMiss(c, n, k)
    BY <1>1, <1>4, <1>5, MustMissSame
  <2>2. PICK v \in Held : Leads(store[n], wire[c][n], k, v) /\ (MustMiss(c, n, k) => v = Missing)
    BY DEF Missed
  <2> QED
    BY <1>1, <1>3, <1>5, <2>1, <2>2, MissedNext
<1>6. Missed(c, t, k)'
  <2>1. PICK v \in Held : Leads(store[t], wire[c][t], k, v) /\ (MustMiss(c, t, k) => v = Missing)
    BY DEF Missed
  <2>2. CASE t \notin up
    <3>1. ~MustMiss(c, t, k)'
      BY <1>1, <1>3, <2>2 DEF MustMiss, Reach, AtLocalNode
    <3>2. wire'[c][t] = wire[c][t]
      BY <1>1, <1>3, <2>2
    <3> QED
      BY <1>1, <2>1, <3>1, <3>2, MissedNext
  <2>3. CASE t \in up
    <3> DEFINE x == [l \in Key |-> v]
               u == Do(x, RequestOf(c))[k]
    <3>1. x \in [Key -> Held] /\ x[k] = v /\ store[t] \in [Key -> Held]
      BY DEF TypeOK, Held
    <3>2. u \in Held
      BY <1>1, <3>1, DoFacts
    <3> HIDE DEF x
    <3>3. Leads(store[t], Append(wire[c][t], RequestOf(c)), k, u)
      BY <1>1, <1>3, <2>1, <3>1, LeadsAppend
    <3>4. MustMiss(c, t, k)' => u = Missing
      BY <1>1, <1>3, <2>1, <2>3, <3>1, MissAsk DEF Reach
    <3>5. store'[t] = store[t] /\ wire'[c][t] = Append(wire[c][t], RequestOf(c))
      BY <1>1, <1>3, <2>3
    <3> HIDE DEF u
    <3> QED
      BY <3>2, <3>3, <3>4, <3>5, MissedNext
  <2> QED
    BY <2>2, <2>3
<1>7. Reading(c, k)' <=> Reading(c, k)
  BY <1>1, Underway
<1>8. SeesMissing(c, k)'
  BY <1>1, <1>2, <1>7 DEF SeesMissing
<1> QED
  BY <1>5, <1>6, <1>8

\* A request that is executed while c waits, on its own node or by a server.
LEMMA MissServed ==
  ASSUME CommonInv, Loner, NEW c \in Users, NEW k \in Key, SeesMissing(c, k),
         NEW n \in Node, NEW v \in Held, Reach(c, n), MustMiss(c, n, k) => v = Missing,
         store[n][k] = v, Target(c) = n, Reading(c, k), cmd[c].at # "migrate", expect[k] = Missing
  PROVE  store[n][k] = Missing
<1>1. Promised(c, n, k) = expect[k]
  BY DEF Promised, Writing, Reading
<1>2. n \in {Primary(c, k), Buddy(c, k)}
  BY DEF Target, Reading
<1> QED
  BY <1>1, <1>2 DEF MustMiss

\* A request that is executed at once, on the client's own node.
LEMMA MissDirect ==
  ASSUME CommonInv, Loner, NEW c \in Users, NEW k \in Key, SeesMissing(c, k),
         \A n \in Node : Missed(c, n, k), Direct(c)
  PROVE  SeesMissing(c, k)' /\ \A n \in Node : Missed(c, n, k)'
<1> USE DEF CommonInv
<1>0. c \in Client
  BY UsersAreClients
<1>1. /\ ~Idle(c) /\ cmd[c].rpc = "none" /\ AtLocalNode(c) /\ Target(c) \in Node
      /\ RequestOf(c) \in Request
      /\ store' = Executed(First, RequestOf(c))
      /\ ~Idle(c)' /\ cmd'[c].rpc = "answered"
      /\ cmd'[c].reply = IF RequestOf(c).kind = "fetch" THEN store[First][cmd[c].key] ELSE Missing
      /\ cmd'[c].at = cmd[c].at /\ cmd'[c].op = cmd[c].op /\ cmd'[c].key = cmd[c].key
      /\ cmd'[c].val = cmd[c].val
      /\ UNCHANGED <<env, up, view, place, wire, expect>>
  BY <1>0, DirectFacts
<1>2. fresh' = fresh
  BY DEF Direct
<1>3. First \in Node /\ First = Target(c) /\ wire[c][First] = <<>> /\ Reach(c, First)
  BY <1>1, LocalTarget DEF Loner, Reach, AtLocalNode
<1>4. \A n : n # First => Promised(c, n, k)' = Promised(c, n, k)
  BY <1>0, <1>1, <1>3, Requesting
<1>5. /\ store \in [Node -> [Key -> Held]]
      /\ store' = [store EXCEPT ![First] = Do(store[First], RequestOf(c))]
      /\ Do(store[First], RequestOf(c)) \in [Key -> Held]
  <2>1. store \in [Node -> [Key -> Held]]
    BY DEF TypeOK, Held
  <2> QED
    BY <1>1, <1>3, <2>1, ExecutedIsDo, DoFacts
<1>6. MustMiss(c, First, k) => store[First][k] = Missing
  <2>1. PICK v \in Held : Leads(store[First], wire[c][First], k, v) /\ (MustMiss(c, First, k) => v = Missing)
    BY <1>3 DEF Missed
  <2>2. Len(wire[c][First]) = 0
    BY <1>3
  <2> QED
    BY <1>3, <1>5, <2>1, <2>2, LeadsEmpty
<1>7. ASSUME NEW n \in Node, n # First PROVE Missed(c, n, k)'
  <2>1. MustMiss(c, n, k)' <=> MustMiss(c, n, k)
    BY <1>0, <1>1, <1>4, <1>7, MustMissSame
  <2>2. PICK v \in Held : Leads(store[n], wire[c][n], k, v) /\ (MustMiss(c, n, k) => v = Missing)
    BY DEF Missed
  <2>3. store'[n] = store[n] /\ wire'[c][n] = wire[c][n]
    BY <1>1, <1>5, <1>7
  <2> QED
    BY <1>0, <2>1, <2>2, <2>3, MissedNext
<1>8. Missed(c, First, k)'
  <2> DEFINE m == Do(store[First], RequestOf(c))
             u == m[k]
             w == wire'[c][First]
  <2>1. MustMiss(c, First, k)' => u = Missing
    BY <1>0, <1>1, <1>3, <1>5, <1>6, MissAsk
  <2>2. m \in [Key -> Held] /\ u \in Held /\ store'[First] = m /\ Len(w) = 0
    BY <1>1, <1>3, <1>5
  <2> HIDE DEF m, w
  <2>3. Leads(m, w, k, u)
    BY <2>2, LeadsEmpty
  <2> HIDE DEF u
  <2> QED
    BY <1>0, <1>3, <2>1, <2>2, <2>3, MissedNext DEF w
<1>9. Reading(c, k)' <=> Reading(c, k)
  BY <1>0, <1>1, Underway
<1>10. ASSUME Reading(c, k), expect[k] = Missing PROVE cmd'[c].reply = Missing
  <2>1. cmd[c].at # "migrate" /\ cmd[c].key = k
    BY <1>10 DEF SeesMissing, Reading
  <2>2. store[First][k] = Missing
    BY <1>3, <1>5, <1>6, <1>10, <2>1, MissServed
  <2> QED
    BY <1>1, <2>1, <2>2
<1>11. SeesMissing(c, k)'
  BY <1>1, <1>2, <1>9, <1>10 DEF SeesMissing
<1> QED
  BY <1>7, <1>8, <1>11

\* A request that a server executes.
LEMMA MissHandle ==
  ASSUME CommonInv, Loner, NEW c \in Users, NEW k \in Key, SeesMissing(c, k),
         \A n \in Node : Missed(c, n, k), NEW m \in Node, Handle(c, m)
  PROVE  SeesMissing(c, k)' /\ \A n \in Node : Missed(c, n, k)'
<1> USE DEF CommonInv
<1> DEFINE w == wire[c][m]
<1>0. c \in Client
  BY UsersAreClients
<1>1. /\ m \in up /\ w # <<>> /\ w \in Seq(Request)
      /\ store' = Executed(m, Head(w)) /\ wire'[c][m] = Tail(w)
      /\ \A n \in Node \ {m} : wire'[c][n] = wire[c][n]
      /\ ~Awaited(c, m) => cmd'[c] = cmd[c]
      /\ Awaited(c, m) =>
           /\ ~Idle(c) /\ ~Idle(c)' /\ cmd'[c].rpc = "answered"
           /\ cmd'[c].at = cmd[c].at /\ cmd'[c].op = cmd[c].op
           /\ cmd'[c].key = cmd[c].key /\ cmd'[c].val = cmd[c].val
      /\ UNCHANGED <<env, up, view, place, expect>>
  BY <1>0, HandleFacts
<1>2. fresh' = fresh
  BY DEF Handle
<1>3. Head(w) \in Request
  BY <1>1, TailFacts
<1> HIDE DEF w
<1>4. /\ store \in [Node -> [Key -> Held]]
      /\ store' = [store EXCEPT ![m] = Do(store[m], Head(w))]
  <2>1. store \in [Node -> [Key -> Held]]
    BY DEF TypeOK, Held
  <2> QED
    BY <1>1, <1>3, <2>1, ExecutedIsDo
<1>5. \A n : Promised(c, n, k)' = Promised(c, n, k)
  <2>1. CASE ~Awaited(c, m)
    <3>1. (\A n : Sent(c, n)' <=> Sent(c, n)) /\ (Writing(c, k)' <=> Writing(c, k))
      BY <1>0, <1>1, <2>1, Frame
    <3> QED
      BY <1>1, <2>1, <3>1 DEF Promised, With, Map!After
  <2>2. CASE Awaited(c, m)
    <3>1. cmd[c].rpc = "sent"
      BY <2>2 DEF Awaited
    <3>2. Writing(c, k)' <=> Writing(c, k)
      BY <1>0, <1>1, <2>2, Underway
    <3>3. \A n : Sent(c, n)' <=> Sent(c, n)
      BY <1>1, <2>2, <3>1 DEF Sent, Primary, Buddy
    <3> QED
      BY <1>1, <2>2, <3>2, <3>3 DEF Promised, With, Map!After
  <2> QED
    BY <2>1, <2>2
<1>6. ASSUME NEW n \in Node PROVE Missed(c, n, k)'
  <2>1. MustMiss(c, n, k)' <=> MustMiss(c, n, k)
    BY <1>0, <1>1, <1>5, MustMissSame
  <2>2. PICK v \in Held : Leads(store[n], wire[c][n], k, v) /\ (MustMiss(c, n, k) => v = Missing)
    BY DEF Missed
  <2>3. CASE n # m
    <3>1. store'[n] = store[n] /\ wire'[c][n] = wire[c][n]
      BY <1>1, <1>4, <2>3
    <3> QED
      BY <1>0, <2>1, <2>2, <3>1, MissedNext
  <2>4. CASE n = m
    <3>1. Leads(store[m], w, k, v)
      BY <2>2, <2>4 DEF w
    <3>2. Leads(Do(store[m], Head(w)), Tail(w), k, v)
      BY <1>1, <1>4, <3>1, LeadsTail
    <3>3. store'[m] = Do(store[m], Head(w))
      BY <1>4
    <3> QED
      BY <1>0, <1>1, <2>1, <2>2, <2>4, <3>2, <3>3, MissedNext
  <2> QED
    BY <2>3, <2>4
<1>7. Reading(c, k)' <=> Reading(c, k)
  BY <1>0, <1>1, Frame, Underway
<1>8. ASSUME Awaited(c, m), Reading(c, k), expect[k] = Missing PROVE cmd'[c].reply = Missing
  <2>1. Served(c, m) /\ cmd[c].at # "migrate" /\ cmd[c].key = k /\ Target(c) = m
    BY <1>8 DEF Served, SeesMissing, Reading, Awaited
  <2>2. cmd'[c].reply = store[m][k] /\ store' = [store EXCEPT ![m] = Do(store[m], RequestOf(c))]
        /\ RequestOf(c) \in Request /\ RequestOf(c).kind = "fetch"
    BY <1>0, <1>8, <2>1, ServedFacts DEF RequestOf, Reading
  <2>3. store'[m] = store[m] /\ store[m] \in [Key -> Held]
    BY <1>4, <2>2, DoFacts
  <2>4. PICK v \in Held : Leads(store'[m], wire'[c][m], k, v) /\ (MustMiss(c, m, k)' => v = Missing)
    BY <1>6 DEF Missed, Leads
  <2>5. Len(wire'[c][m]) = 0
    BY <1>1, <1>8, TailFacts DEF Awaited, w
  <2>6. store[m][k] = v
    BY <2>3, <2>4, <2>5, LeadsEmpty
  <2>7. MustMiss(c, m, k)' <=> MustMiss(c, m, k)
    BY <1>0, <1>1, <1>5, MustMissSame
  <2>8. store[m][k] = Missing
    BY <1>1, <1>8, <2>1, <2>4, <2>6, <2>7, MissServed DEF Reach
  <2> QED
    BY <2>2, <2>8
<1>9. SeesMissing(c, k)'
  BY <1>1, <1>2, <1>7, <1>8 DEF SeesMissing
<1> QED
  BY <1>6, <1>9

\* A command that goes on or ends: it has been asked of both replicas.
LEMMA MissGoesOn ==
  ASSUME CommonInv, NEW c \in Client, NEW k \in Key, SeesMissing(c, k),
         \A n \in Node : Missed(c, n, k), GoesOn(c)
  PROVE  SeesMissing(c, k)' /\ \A n \in Node : Missed(c, n, k)'
<1> USE DEF CommonInv
<1>1. ~Idle(c) /\ cmd[c].rpc # "none" /\ cmd[c] \in Cmd
  BY GoesOnFacts, CommandFacts
<1>2. UNCHANGED <<env, up, store, view, place, wire>>
  BY ReadContinues, WriteEnds
<1>3. ASSUME NEW n \in Node, n \in {Primary(c, k), Buddy(c, k)} PROVE Promised(c, n, k)' = Promised(c, n, k)
  <2>1. CASE cmd[c].op = "get"
    <3>1. ~Writing(c, k) /\ ~Writing(c, k)' /\ expect' = expect
      BY <2>1, ReadContinues DEF Writing
    <3> QED
      BY <3>1 DEF Promised
  <2>2. CASE cmd[c].op # "get" /\ Idle(c)'
    <3>1. /\ expect' = Map!After(expect, cmd[c].op, cmd[c].key, cmd[c].val)
          /\ cmd[c].at = "buddy" \/ Buddy(c, cmd[c].key) = Primary(c, cmd[c].key)
      BY <2>2, WriteEnds
    <3>2. Promised(c, n, k)' = expect'[k]
      BY <2>2 DEF Promised, Writing
    <3>3. CASE cmd[c].key = k
      <4>1. Writing(c, k) /\ Sent(c, n)
        BY <1>1, <1>3, <2>2, <3>1, <3>3 DEF Writing, Sent
      <4> QED
        BY <3>1, <3>2, <3>3, <4>1 DEF Promised, With
    <3>4. CASE cmd[c].key # k
      <4>1. expect'[k] = expect[k] /\ ~Writing(c, k)
        BY <1>1, <3>1, <3>4 DEF Map!After, TypeOK, Cmd, Writing
      <4> QED
        BY <3>2, <4>1 DEF Promised
    <3> QED
      BY <3>3, <3>4
  <2>3. CASE cmd[c].op # "get" /\ ~Idle(c)'
    <3>1. /\ expect' = expect /\ cmd[c].at = "primary"
          /\ Buddy(c, cmd[c].key) # Primary(c, cmd[c].key)
          /\ cmd'[c].at = "buddy" /\ cmd'[c].rpc = "none" /\ cmd'[c].val = cmd[c].val
          /\ cmd'[c].op = cmd[c].op /\ cmd'[c].key = cmd[c].key
      BY <2>3, WriteEnds
    <3>2. Writing(c, k)' <=> Writing(c, k)
      BY <1>1, <2>3, <3>1 DEF Writing
    <3>3. Writing(c, k) => (Sent(c, n)' <=> Sent(c, n))
      BY <1>1, <1>2, <1>3, <3>1 DEF Sent, Writing, Primary, Buddy
    <3> QED
      BY <3>1, <3>2, <3>3 DEF Promised, With, Map!After
  <2> QED
    BY <2>1, <2>2, <2>3
<1>4. ASSUME NEW n \in Node PROVE Missed(c, n, k)'
  <2>1. MustMiss(c, n, k)' <=> MustMiss(c, n, k)
    BY <1>2, <1>3, MustMissSame
  <2> QED
    BY <1>2, <2>1 DEF Missed, Leads
<1>5. SeesMissing(c, k)'
  <2> SUFFICES ASSUME Reading(c, k)'
               PROVE  /\ expect'[k] \in fresh'[c]
                      /\ expect'[k] = Missing =>
                           cmd'[c].at # "migrate" /\ (cmd'[c].rpc = "answered" => cmd'[c].reply = Missing)
    BY DEF SeesMissing
  <2>1. cmd[c].op = "get" /\ cmd[c].key = k
    BY WriteEnds, ReadContinues DEF Reading
  <2>2. Reading(c, k) /\ ~Idle(c)'
    BY <1>1, <2>1 DEF Reading
  <2>3. PICK reply \in Held \cup {Failed} :
          /\ \/ reply = Failed
             \/ cmd[c].rpc = "answered" /\ reply = cmd[c].reply
          /\ expect' = expect /\ fresh' = fresh /\ cmd'[c].rpc = "none"
          /\ \/ cmd'[c].at = "buddy"
             \/ cmd[c].at = "buddy" /\ ~IsMissOrError(reply)
    BY <2>1, <2>2, ReadContinues
  <2>4. expect[k] = Missing => cmd'[c].at # "migrate"
    BY <2>2, <2>3 DEF SeesMissing, IsMissOrError
  <2> QED
    BY <2>2, <2>3, <2>4 DEF SeesMissing
<1> QED
  BY <1>4, <1>5

\* The ring is rebuilt: a node that comes into it has never had the key.
LEMMA MissRefresh ==
  ASSUME CommonInv, WorldInv, Loner, NEW c \in Users, NEW k \in Key, SeesMissing(c, k),
         \A n \in Node : Missed(c, n, k), Refresh(c)
  PROVE  SeesMissing(c, k)' /\ \A n \in Node : Missed(c, n, k)'
<1> USE DEF CommonInv
<1>0. c \in Client
  BY UsersAreClients
<1>1. /\ Idle(c) /\ Idle(c)' /\ UNCHANGED <<env, up, store, cmd, wire, expect>>
      /\ view'[c] = news[c] /\ place'[c] = Placement[view'[c]] /\ news[c] # {}
      /\ place[c] = Placement[view[c]]
  BY <1>0, OtherFacts, MembershipFacts DEF TypeOK, Idle
<1>2. view'[c] = view[c] \/ view[c] = env.configured
  BY <1>0, <1>1, OneAnswer DEF WorldInv, Loner
<1>3. \A n : Promised(c, n, k) = expect[k] /\ Promised(c, n, k)' = expect[k]
  BY <1>1 DEF Promised, Writing
<1>4. ASSUME NEW n \in Node, MustMiss(c, n, k)' PROVE MustMiss(c, n, k)
  <2>1. Reach(c, n)
    BY <1>1, <1>4 DEF MustMiss, Reach
  <2>2. CASE view'[c] = view[c]
    BY <1>1, <1>3, <1>4, <2>1, <2>2 DEF MustMiss, Primary, Buddy
  <2>3. CASE view[c] = env.configured /\ view'[c] # view[c]
    BY <1>1, <1>3, <1>4, <2>1, <2>3 DEF MustMiss
  <2> QED
    BY <1>2, <2>2, <2>3
<1>5. ASSUME NEW n \in Node PROVE Missed(c, n, k)'
  BY <1>1, <1>4 DEF Missed, Leads
<1> QED
  BY <1>1, <1>5 DEF SeesMissing, Reading

\* A server dies with what was on its way to it.
LEMMA MissCrash ==
  ASSUME CommonInv, Loner, NEW c \in Client, NEW k \in Key, SeesMissing(c, k),
         \A n \in Node : Missed(c, n, k), NEW m \in Node, Crash(m)
  PROVE  SeesMissing(c, k)' /\ \A n \in Node : Missed(c, n, k)'
<1> USE DEF CommonInv
<1>1. /\ up' = up \ {m} /\ \A n \in Node : wire'[c][n] = IF n = m THEN <<>> ELSE wire[c][n]
      /\ UNCHANGED <<env, store, view, place, cmd, expect, fresh>>
  BY OtherFacts, MembershipFacts
<1>2. /\ \A n : Promised(c, n, k)' = Promised(c, n, k)
      /\ Reading(c, k)' <=> Reading(c, k)
  BY <1>1 DEF Promised, With, Map!After, Sent, Writing, Reading, Primary, Buddy, Idle
<1>3. \A n \in Node : MustMiss(c, n, k)' => MustMiss(c, n, k)
  BY <1>1, <1>2 DEF MustMiss, Reach, Primary, Buddy
<1>4. ASSUME NEW n \in Node PROVE Missed(c, n, k)'
  <2>1. PICK v \in Held : Leads(store[n], wire[c][n], k, v) /\ (MustMiss(c, n, k) => v = Missing)
    BY DEF Missed
  <2>2. CASE wire'[c][n] = wire[c][n]
    BY <1>1, <1>3, <2>1, <2>2, MissedNext
  <2>3. CASE n = m /\ wire[c][n] # <<>>
    <3>1. n # env.local[c]
      BY <2>3 DEF LocalIsCut
    <3>2. ~MustMiss(c, n, k)'
      BY <1>1, <2>3, <3>1 DEF MustMiss, Reach
    <3>3. store[n] \in [Key -> Held] /\ store[n][k] \in Held
      BY DEF TypeOK, Held
    <3> DEFINE w == wire'[c][n]
    <3>4. Len(w) = 0
      BY <1>1, <2>3
    <3> HIDE DEF w
    <3>5. Leads(store[n], w, k, store[n][k])
      BY <3>3, <3>4, LeadsEmpty
    <3> QED
      BY <1>1, <3>2, <3>3, <3>5, MissedNext DEF w
  <2> QED
    BY <1>1, <2>2, <2>3
<1>5. SeesMissing(c, k)'
  BY <1>1, <1>2 DEF SeesMissing
<1> QED
  BY <1>4, <1>5

\* MissInv is kept.
LEMMA MissStep ==
  ASSUME CommonInv, WorldInv, MissInv, [Next]_vars
  PROVE  MissInv'
<1> USE DEF CommonInv
<1>0. env' = env /\ Users' = Users /\ (Loner' <=> Loner)
  BY EnvironmentStays DEF Loner, Alone, NodesReturn, Estranged
<1> SUFFICES ASSUME Loner, NEW c \in Users, NEW k \in Key
             PROVE  SeesMissing(c, k)' /\ \A n \in Node : Missed(c, n, k)'
  BY <1>0 DEF MissInv
<1> DEFINE Goal == SeesMissing(c, k)' /\ \A n \in Node : Missed(c, n, k)'
<1>1. SeesMissing(c, k) /\ \A n \in Node : Missed(c, n, k)
  BY DEF MissInv
<1>2. /\ c \in Client /\ Users = {c} /\ env.mayRestart = FALSE
      /\ \A d \in Client : ~Idle(d) => d = c
      /\ \A d \in Client, n \in Node : wire[d][n] # <<>> => d = c
  BY LonerFacts
<1>3. ASSUME UNCHANGED <<env, up, store, wire, expect, fresh>>, cmd'[c] = cmd[c],
             view'[c] = view[c], place'[c] = place[c]
      PROVE  Goal
  <2>1. /\ \A n : Promised(c, n, k)' = Promised(c, n, k)
        /\ Reading(c, k)' <=> Reading(c, k)
    BY <1>3 DEF Promised, With, Map!After, Sent, Writing, Reading, Primary, Buddy, Idle
  <2>2. \A n \in Node : MustMiss(c, n, k)' <=> MustMiss(c, n, k)
    BY <1>3, <2>1 DEF MustMiss, Reach, Primary, Buddy
  <2>3. \A n \in Node : Missed(c, n, k)'
    BY <1>1, <1>3, <2>2 DEF Missed, Leads
  <2> QED
    BY <1>1, <1>3, <2>1, <2>3 DEF SeesMissing
<1>4. ASSUME NEW d \in Client, NEW op \in Op, NEW l \in Key, NEW v \in Held, Begin(d, op, l, v)
      PROVE  Goal
  <2>1. d = c
    BY <1>2, <1>4, BeginFacts
  <2> QED
    BY <1>1, <1>4, <2>1, MissBegin
<1>5. ASSUME NEW d \in Client, Send(d) PROVE Goal
  BY <1>1, <1>2, <1>5, SendFacts, MissSend
<1>6. ASSUME NEW d \in Client, Direct(d) PROVE Goal
  BY <1>1, <1>2, <1>6, DirectFacts, MissDirect
<1>7. ASSUME NEW d \in Client, GoesOn(d) PROVE Goal
  BY <1>1, <1>2, <1>7, GoesOnFacts, MissGoesOn
<1>8. ASSUME NEW d \in Client, NEW n \in Node, Handle(d, n) PROVE Goal
  BY <1>1, <1>2, <1>8, HandleFacts, MissHandle
<1>9. ASSUME NEW d \in Client, Refresh(d) PROVE Goal
  <2>1. CASE d = c
    BY <1>1, <1>9, <2>1, MissRefresh
  <2>2. CASE d # c
    BY <1>2, <1>3, <1>9, <2>2, OtherFacts, MembershipFacts
  <2> QED
    BY <2>1, <2>2
<1>10. ASSUME NEW d \in Client, NEW live \in SUBSET Node, Ask(d, live) PROVE Goal
  BY <1>3, <1>10, OtherFacts, MembershipFacts
<1>11. ASSUME NEW m \in Node, Crash(m) PROVE Goal
  BY <1>1, <1>2, <1>11, MissCrash
<1>12. ASSUME NEW m \in Node, Restart(m) PROVE Goal
  BY <1>2, <1>12, MembershipFacts
<1>13. ASSUME UNCHANGED vars PROVE Goal
  BY <1>3, <1>13 DEF vars
<1> HIDE DEF Goal
<1>14. Goal
  BY <1>4, <1>5, <1>6, <1>7, <1>8, <1>9, <1>10, <1>11, <1>12, <1>13, StepCases
<1> QED
  BY <1>14 DEF Goal

\* MissInv is an invariant: the stores are empty at the start.
LEMMA MissInvariance == Spec => []MissInv
<1>1. Init => MissInv
  <2> SUFFICES ASSUME Init PROVE MissInv
    OBVIOUS
  <2>1. TypeOK /\ \A d \in Client : Idle(d) /\ \A n \in Node : wire[d][n] = <<>>
    BY InitType DEF Init, Resting, Idle
  <2>2. ASSUME NEW c \in Users, NEW k \in Key, NEW n \in Node PROVE Missed(c, n, k)
    <3>1. c \in Client
      BY <2>1, UsersAreClients
    <3>2. store[n] = Empty /\ Empty \in [Key -> Held] /\ Empty[k] = Missing /\ Missing \in Held
      BY DEF Init, Empty, Held
    <3>3. Len(wire[c][n]) = 0
      BY <2>1, <3>1
    <3> QED
      BY <3>2, <3>3, LeadsEmpty DEF Missed
  <2>3. ASSUME NEW c \in Users, NEW k \in Key PROVE SeesMissing(c, k)
    BY <2>1, UsersAreClients DEF SeesMissing, Reading
  <2> QED
    BY <2>2, <2>3 DEF MissInv
<1>2. CommonInv /\ WorldInv /\ MissInv /\ [Next]_vars => MissInv'
  BY MissStep
<1> QED
  BY <1>1, <1>2, CommonInvariance, BaseInvariance, PTL DEF Spec, BaseInv

\* A get() of a key that was deleted and not written again does not find it, as long as
\* no node returns: where nobody deletes the key has never been written, and a client
\* alone deletes it on both of its nodes and finds it on no other (KVDistributor
\* deleteKey, get).
THEOREM DeletedStay == Spec => DeletedStaysDeleted
<1>1. ASSUME CommonInv, WorldInv, UnbornInv, MissInv, [Next]_vars, NEW c \in Client,
             Returns(c, "get"), fresh[c] = {Missing}, ~(NodesReturn \/ Contended \/ Estranged)
      PROVE  cmd'[c].val = Failed
  <2> USE DEF CommonInv
  <2>1. ~Idle(c) /\ cmd[c].op = "get" /\ Idle(c)' /\ GoesOn(c)
    BY <1>1, GetIsBusy, Returning DEF Returns
  <2> DEFINE k == cmd[c].key
  <2>2. k \in Key /\ Reading(c, k) /\ c \in Users
    BY <1>1, <2>1, CommandFacts, ActorsAreUsers DEF Reading, Cmd
  <2> HIDE DEF k
  <2>3. cmd[c].at # "migrate" /\ (cmd[c].rpc = "answered" => cmd[c].reply = Missing)
    <3>1. CASE Undeleted
      <4>1. Unborn(k)
        BY <1>1, <2>2, <3>1 DEF UnbornInv
      <4> QED
        BY <1>1, <2>2, <3>1, <4>1 DEF UnbornInv, Nowhere
    <3>2. CASE ~Undeleted
      <4>1. Cardinality(Users) = 1
        <5>1. Cardinality(Users) \in Nat /\ ~(Cardinality(Users) > 1) /\ IsFiniteSet(Users)
          BY <1>1, <3>2, UsersAreClients, FS_CardinalityType DEF Contended, Undeleted
        <5>2. Cardinality(Users) # 0
          BY <2>2, <5>1, FS_EmptySet
        <5> QED
          BY <5>1, <5>2
      <4>2. SeesMissing(c, k)
        BY <1>1, <2>2, <4>1 DEF MissInv, Loner, Alone
      <4> QED
        BY <1>1, <2>2, <4>2 DEF SeesMissing
    <3> QED
      BY <3>1, <3>2
  <2> QED
    BY <1>1, <2>1, <2>3, ReadContinues DEF IsMissOrError
<1>2. ASSUME CommonInv, WorldInv, UnbornInv, MissInv, [Next]_vars
      PROVE  [\A c \in Client :
                Returns(c, "get") /\ fresh[c] = {Missing} /\ ~(NodesReturn \/ Contended \/ Estranged)
                  => cmd'[c].val = Failed]_vars
  BY <1>1, <1>2
<1> QED
  BY <1>2, CommonInvariance, BaseInvariance, UnbornInvariance, MissInvariance, PTL
  DEF Spec, BaseInv, DeletedStaysDeleted

-----------------------------------------------------------------------------
(* The node that stays *)

\* A ring without one of its nodes: the keys of that node go to their buddies.
LEMMA PlacementWithout ==
  ASSUME NEW nodes \in (SUBSET Node) \ {{}}, NEW n \in Node, nodes \ {n} # {}, NEW k \in Key
  PROVE  /\ Placement[nodes \ {n}][k].primary =
              IF Placement[nodes][k].primary = n THEN Placement[nodes][k].buddy
              ELSE Placement[nodes][k].primary
         /\ n \notin {Placement[nodes][k].primary, Placement[nodes][k].buddy} =>
              Placement[nodes \ {n}][k].buddy = Placement[nodes][k].buddy
<1> DEFINE T == TokenSet(NodePos, nodes)
           S == TokenSet(NodePos, nodes \ {n})
           pos == KeyPos[k]
<1>1. /\ Placement[nodes][k].primary = PrimaryNode(Sorted(T), pos)
      /\ Placement[nodes][k].buddy = BuddyNode(Sorted(T), pos)
  BY DEF Placement, Tokens
<1>2. /\ Placement[nodes \ {n}][k].primary = PrimaryNode(Sorted(S), pos)
      /\ Placement[nodes \ {n}][k].buddy = BuddyNode(Sorted(S), pos)
  <2>1. nodes \ {n} \in (SUBSET Node) \ {{}}
    OBVIOUS
  <2> QED
    BY <2>1 DEF Placement, Tokens
<1>3. pos \in Position /\ IsFiniteSet(nodes) /\ nodes \subseteq Int /\ VirtualNodes > 0
      /\ \A m \in nodes : NodePos[m] \in Position
  <2>1. IsFiniteSet(nodes)
    BY KVAssumption, FS_Subset
  <2>2. pos \in Position /\ nodes \subseteq Int /\ VirtualNodes > 0
        /\ \A m \in nodes : NodePos[m] \in Position
    BY KVAssumption
  <2> QED
    BY <2>1, <2>2
<1>4. /\ IsFiniteSet(T) /\ T \subseteq [position : Position, node_id : nodes]
      /\ \A m \in nodes : \E t \in T : t.node_id = m
  BY <1>3, TokenSetFacts
<1>5. S = {t \in T : t.node_id # n}
  BY DEF TokenSet
<1> HIDE DEF T, S, pos
<1>6. Tokened(T) /\ S # {}
  BY <1>3, <1>4, <1>5 DEF Tokened
<1>7. LET primary == PrimaryNode(Sorted(T), pos)
          buddy   == BuddyNode(Sorted(T), pos)
      IN  /\ PrimaryNode(Sorted(S), pos) = IF primary = n THEN buddy ELSE primary
          /\ n \notin {primary, buddy} => BuddyNode(Sorted(S), pos) = buddy
  BY <1>3, <1>5, <1>6, LookupWithout
<1> QED
  BY <1>1, <1>2, <1>7

\* The node that may die, come or go.
Mover == CHOOSE n \in Node : /\ env.mayCrash \subseteq {n}
                             /\ env.configured \ {n} # {}
                             /\ \A live \in env.answers : live \ {n} = env.configured \ {n}

\* Where a key is placed without it.
Keeper(k) == Placement[env.configured \ {Mover}][k].primary

\* The node that keeps a key is one of its two nodes in every ring, the first one unless
\* that is the node that moves.  It never dies.
LEMMA KeeperFacts ==
  ASSUME TypeOK, WorldInv, OneComesAndGoes, NEW k \in Key
  PROVE  /\ Keeper(k) \in Node /\ Keeper(k) \in up
         /\ Keeper(k) \notin env.mayCrash /\ Keeper(k) # Mover
         /\ \A c \in Client :
              Keeper(k) = IF Primary(c, k) = Mover THEN Buddy(c, k) ELSE Primary(c, k)
<1>1. /\ Mover \in Node /\ env.mayCrash \subseteq {Mover} /\ env.configured \ {Mover} # {}
      /\ \A live \in env.answers : live \ {Mover} = env.configured \ {Mover}
  BY Zenon DEF OneComesAndGoes, Mover
<1>2. env.configured \in (SUBSET Node) \ {{}}
  BY EnvironmentFacts DEF TypeOK
<1>3. Keeper(k) \in env.configured \ {Mover}
  <2>1. env.configured \ {Mover} \in (SUBSET Node) \ {{}}
    BY <1>1, <1>2
  <2> QED
    BY <2>1, PlacementFacts DEF Keeper
<1>4. Keeper(k) \in Node /\ Keeper(k) \notin env.mayCrash /\ Keeper(k) # Mover /\ Keeper(k) \in up
  BY <1>1, <1>2, <1>3 DEF WorldInv
<1>5. ASSUME NEW c \in Client
      PROVE  Keeper(k) = IF Primary(c, k) = Mover THEN Buddy(c, k) ELSE Primary(c, k)
  <2>1. view[c] \in (SUBSET Node) \ {{}} /\ view[c] \ {Mover} = env.configured \ {Mover}
    BY <1>1 DEF WorldInv, TypeOK
  <2>2. place[c] = Placement[view[c]]
    BY DEF TypeOK
  <2>3. Placement[view[c] \ {Mover}][k].primary =
          IF Placement[view[c]][k].primary = Mover THEN Placement[view[c]][k].buddy
          ELSE Placement[view[c]][k].primary
    <3> DEFINE V == view[c]
    <3>1. V \in (SUBSET Node) \ {{}} /\ V \ {Mover} # {} /\ Mover \in Node
      BY <1>1, <2>1
    <3> HIDE DEF V, Mover
    <3>2. Placement[V \ {Mover}][k].primary =
            IF Placement[V][k].primary = Mover THEN Placement[V][k].buddy ELSE Placement[V][k].primary
      BY <3>1, PlacementWithout
    <3> QED
      BY <3>2 DEF V
  <2> QED
    BY <2>1, <2>2, <2>3 DEF Keeper, Primary, Buddy
<1> QED
  BY <1>4, <1>5

\* When two users share the servers and do not contend, nobody deletes.
LEMMA SharedIsKept ==
  ASSUME TypeOK, ~Contended, NEW c \in Users, NEW d \in Users, c # d
  PROVE  Undeleted
<1>1. IsFiniteSet(Users) /\ {c, d} \subseteq Users
  BY UsersAreClients
<1>2. Cardinality({c, d}) = 2
  BY TwoElements
<1>3. Cardinality(Users) \in Nat /\ 2 <= Cardinality(Users)
  BY <1>1, <1>2, FS_Subset, FS_CardinalityType
<1> QED
  BY <1>3 DEF Contended, Undeleted

-----------------------------------------------------------------------------
(* Values that are not taken for errors *)

\* No such value is stored, asked for or on its way.
LegibleInv == Legible =>
  /\ \A n \in Node, k \in Key : store[n][k] \notin env.missLike
  /\ \A c \in Client : ~Idle(c) =>
       /\ cmd[c].val \notin env.missLike
       /\ cmd[c].rpc = "answered" => cmd[c].reply \notin env.missLike
  /\ \A c \in Client, n \in Node : \A i \in 1..Len(wire[c][n]) : wire[c][n][i].val \notin env.missLike

\* LegibleInv is kept: what is executed has been ordered.
LEMMA LegibleStep ==
  ASSUME CommonInv, LegibleInv, [Next]_vars
  PROVE  LegibleInv'
<1> USE DEF CommonInv
<1>0. env' = env /\ (Legible' <=> Legible)
  BY EnvironmentStays DEF Legible
<1> DEFINE Ill == env.missLike
           StoresOK == \A n \in Node, k \in Key : store'[n][k] \notin Ill
           CommandsOK == \A c \in Client : ~Idle(c)' =>
                           /\ cmd'[c].val \notin Ill
                           /\ cmd'[c].rpc = "answered" => cmd'[c].reply \notin Ill
           WiresOK == \A c \in Client, n \in Node :
                        \A i \in 1..Len(wire'[c][n]) : wire'[c][n][i].val \notin Ill
<1> SUFFICES ASSUME Legible PROVE StoresOK /\ CommandsOK /\ WiresOK
  BY <1>0 DEF LegibleInv
<1>1. /\ \A n \in Node, k \in Key : store[n][k] \notin Ill
      /\ \A c \in Client : ~Idle(c) =>
           /\ cmd[c].val \notin Ill
           /\ cmd[c].rpc = "answered" => cmd[c].reply \notin Ill
      /\ \A c \in Client, n \in Node : \A i \in 1..Len(wire[c][n]) : wire[c][n][i].val \notin Ill
      /\ Missing \notin Ill
  <2>1. env \in Environment
    BY EnvironmentFacts DEF TypeOK
  <2>2. Ill \subseteq Value
    BY <2>1 DEF Environment
  <2> QED
    BY <2>2, KVAssumption DEF LegibleInv
<1> HIDE DEF Ill
<1>2. ASSUME NEW c \in Client, NEW n \in Node, NEW i \in 1..Len(wire'[c][n])
      PROVE  wire'[c][n][i].val \notin Ill
  <2>1. CASE \E j \in 1..Len(wire[c][n]) : wire'[c][n][i] = wire[c][n][j]
    BY <1>1, <2>1
  <2>2. CASE Send(c) /\ wire'[c][n][i] = RequestOf(c)
    BY <1>1, <2>2, SendFacts DEF RequestOf
  <2> QED
    BY <2>1, <2>2, RequestsStep
<1>3. ASSUME NEW n \in Node, NEW r \in Request, r.val \notin Ill,
             store' = [store EXCEPT ![n] = Do(store[n], r)]
      PROVE  StoresOK
  <2> SUFFICES ASSUME NEW m \in Node, NEW k \in Key PROVE store'[m][k] \notin Ill
    OBVIOUS
  <2>1. store \in [Node -> [Key -> Held]]
    BY DEF TypeOK, Held
  <2>2. r.key \in Key
    BY DEF Request
  <2>3. Do(store[n], r)[k] \in {store[n][k], r.val, Missing}
    BY <2>1, <2>2 DEF Do, Map!After
  <2> QED
    BY <1>1, <1>3, <2>1, <2>3
<1>4. ASSUME store' = store PROVE StoresOK
  BY <1>1, <1>4
<1>5. ASSUME NEW c \in Client, \A d \in Client \ {c} : cmd'[d] = cmd[d],
             ~Idle(c)' => /\ cmd'[c].val \notin Ill
                          /\ cmd'[c].rpc = "answered" => cmd'[c].reply \notin Ill
      PROVE  CommandsOK
  BY <1>1, <1>5 DEF Idle
<1>6. ASSUME cmd' = cmd PROVE CommandsOK
  BY <1>1, <1>6 DEF Idle
<1> HIDE DEF StoresOK, CommandsOK
<1>7. ASSUME NEW c \in Client, NEW op \in Op, NEW k \in Key, NEW v \in Held, Begin(c, op, k, v)
      PROVE  StoresOK /\ CommandsOK
  <2>1. v \notin Ill
    BY <1>7 DEF Begin, Legible, Ill
  <2> QED
    BY <1>4, <1>5, <1>7, <2>1, BeginFacts
<1>8. ASSUME NEW c \in Client, Send(c) PROVE StoresOK /\ CommandsOK
  BY <1>1, <1>4, <1>5, <1>8, SendFacts
<1>9. ASSUME NEW c \in Client, NEW n \in Node, Served(c, n) PROVE StoresOK /\ CommandsOK
  <2>1. /\ ~Idle(c) /\ RequestOf(c) \in Request
        /\ store' = [store EXCEPT ![n] = Do(store[n], RequestOf(c))]
        /\ \A d \in Client \ {c} : cmd'[d] = cmd[d]
        /\ cmd'[c].val = cmd[c].val /\ cmd[c].key \in Key
        /\ cmd'[c].reply \in {store[n][cmd[c].key], Missing}
    BY <1>9, ServedFacts, CommandFacts DEF Cmd
  <2>2. RequestOf(c).val \notin Ill
    BY <1>1, <2>1 DEF RequestOf
  <2> QED
    BY <1>1, <1>3, <1>5, <2>1, <2>2
<1>10. ASSUME NEW c \in Client, NEW n \in Node, Handle(c, n), ~Awaited(c, n) PROVE StoresOK /\ CommandsOK
  <2> DEFINE w == wire[c][n]
  <2>1. w # <<>> /\ w \in Seq(Request) /\ store' = Executed(n, Head(w)) /\ cmd'[c] = cmd[c]
        /\ \A d \in Client \ {c} : cmd'[d] = cmd[d]
    BY <1>10, HandleFacts
  <2>2. \A i \in 1..Len(w) : w[i].val \notin Ill
    BY <1>1
  <2> HIDE DEF w
  <2>3. Head(w) \in Request /\ Head(w).val \notin Ill
    BY <2>1, <2>2, TailFacts
  <2>4. store' = [store EXCEPT ![n] = Do(store[n], Head(w))]
    BY <2>1, <2>3, ExecutedIsDo
  <2>5. ~Idle(c)' => ~Idle(c)
    BY <2>1 DEF Idle
  <2> QED
    BY <1>1, <1>3, <1>5, <2>1, <2>3, <2>4, <2>5
<1>11. ASSUME NEW c \in Client, GoesOn(c) PROVE StoresOK /\ CommandsOK
  <2>1. /\ store' = store /\ \A d \in Client \ {c} : cmd'[d] = cmd[d]
        /\ ~Idle(c)' => cmd'[c].rpc = "none"
    BY <1>11, ReadContinues, WriteEnds
  <2>2. ~Idle(c) /\ CommandsMakeSense'
    BY <1>11, GoesOnFacts, CommandsStep
  <2>3. ~Idle(c)' => cmd'[c].val \notin Ill
    <3>1. CASE cmd[c].op # "get"
      BY <1>1, <1>11, <2>2, <3>1, WriteEnds
    <3>2. CASE cmd[c].op = "get" /\ ~Idle(c)'
      <4>1. CASE cmd'[c].at = "buddy"
        <5>1. cmd'[c].val = Missing
          BY <1>11, <2>2, <3>2, <4>1, ReadContinues DEF CommandsMakeSense
        <5> QED
          BY <1>1, <5>1
      <4>2. CASE cmd'[c].at # "buddy"
        BY <1>11, <3>2, <4>2, ReadContinues DEF IsMissOrError, Ill
      <4> QED
        BY <4>1, <4>2
    <3> QED
      BY <3>1, <3>2
  <2> QED
    BY <1>4, <1>5, <2>1, <2>3
<1>12. ASSUME NEW n \in Node, Restart(n) PROVE StoresOK /\ CommandsOK
  <2>1. cmd' = cmd /\ store' = [store EXCEPT ![n] = Empty]
    BY <1>12, OtherFacts, MembershipFacts
  <2>2. StoresOK
    BY <1>1, <2>1 DEF StoresOK, Empty, TypeOK
  <2> QED
    BY <1>6, <2>1, <2>2
<1>13. StoresOK /\ CommandsOK
  BY <1>4, <1>6, <1>7, <1>8, <1>9, <1>10, <1>11, <1>12, Deeds, OtherFacts DEF vars
<1> QED
  BY <1>2, <1>13

\* LegibleInv is an invariant.
LEMMA LegibleInvariance == Spec => []LegibleInv
<1>1. Init => LegibleInv
  <2> SUFFICES ASSUME Init PROVE LegibleInv
    OBVIOUS
  <2>1. TypeOK /\ \A d \in Client : Idle(d) /\ \A n \in Node : wire[d][n] = <<>>
    BY InitType DEF Init, Resting, Idle
  <2>2. env \in Environment
    BY <2>1, EnvironmentFacts DEF TypeOK
  <2>3. Missing \notin env.missLike
    BY <2>2, KVAssumption DEF Environment
  <2> QED
    BY <2>1, <2>3 DEF LegibleInv, Init, Empty
<1>2. CommonInv /\ LegibleInv /\ [Next]_vars => LegibleInv'
  BY LegibleStep
<1> QED
  BY <1>1, <1>2, CommonInvariance, PTL DEF Spec

-----------------------------------------------------------------------------
(* What a client has been told *)

\* The request of the command in progress has been answered by n.
Acked(c, n) ==
  \/ n = Primary(c, cmd[c].key) /\ (cmd[c].at = "primary" => cmd[c].rpc = "answered")
  \/ n = Buddy(c, cmd[c].key) /\ cmd[c].at = "buddy" /\ cmd[c].rpc = "answered"

\* What n has for k as far as c has been told.
Told(c, n, k) ==
  IF Writing(c, k) /\ Acked(c, n) THEN With(cmd[c].op, k, cmd[c].val) ELSE expect[k]

\* A server that does not lose what it is asked executes it while it is awaited, and a
\* client does not give it up.
LEMMA PromptFacts ==
  ASSUME CommonInv, PromptInv, NEW n \in Node, Prompt(n), NEW c \in Client
  PROVE  /\ Handle(c, n) => Awaited(c, n)
         /\ GoesOn(c) /\ Target(c) = n /\ n \in up => cmd[c].rpc = "answered" /\ ~TimeOut(c)
<1> USE DEF CommonInv
<1>1. wire[c][n] = IF n \in up /\ ~Idle(c) /\ cmd[c].rpc = "sent" /\ Target(c) = n
                   THEN <<RequestOf(c)>> ELSE <<>>
  BY DEF PromptInv
<1>2. ASSUME Handle(c, n) PROVE Awaited(c, n)
  <2>1. wire[c][n] # <<>>
    BY <1>2, HandleFacts
  <2>2. wire[c][n] = <<RequestOf(c)>> /\ cmd[c].rpc = "sent" /\ Target(c) = n
    BY <1>1, <2>1
  <2> QED
    BY <2>2 DEF Awaited
<1>3. ASSUME GoesOn(c), Target(c) = n, n \in up PROVE cmd[c].rpc = "answered" /\ ~TimeOut(c)
  <2>1. ~Idle(c) /\ cmd[c].rpc # "none"
    BY <1>3, GoesOnFacts
  <2>2. ~Lost(c)
    <3>1. cmd[c].rpc = "sent" => wire[c][n] = <<RequestOf(c)>>
      BY <1>1, <1>3, <2>1
    <3>2. <<RequestOf(c)>> # <<>>
      OBVIOUS
    <3> QED
      BY <1>3, <3>1, <3>2 DEF Lost
  <2>3. ~TimeOut(c)
    BY <2>2 DEF TimeOut, Prompt
  <2> QED
    BY <1>3, <2>3 DEF GoesOn, Answer
<1> QED
  BY <1>2, <1>3

\* A client is told nothing when it begins, when it asks, and while others work on
\* other keys.
LEMMA ToldSame ==
  ASSUME CommonInv, NEW c \in Client, NEW k \in Key, expect' = expect, NEW n,
         \/ \E op \in Op, l \in Key, v \in Held : Begin(c, op, l, v)
         \/ Send(c)
         \/ cmd'[c] = cmd[c] /\ (place'[c] = place[c] \/ Idle(c))
  PROVE  Told(c, n, k)' = Told(c, n, k)
<1> USE DEF CommonInv
<1>1. With(cmd[c].op, k, cmd[c].val)' = Map!After(expect, cmd'[c].op, k, cmd'[c].val)[k]
  BY DEF With, Map!After
<1>2. CASE \E op \in Op, l \in Key, v \in Held : Begin(c, op, l, v)
  <2>1. Idle(c) /\ cmd'[c].at = "primary" /\ cmd'[c].rpc = "none"
    BY <1>2, BeginFacts
  <2> QED
    BY <2>1 DEF Told, Writing, Acked
<1>3. CASE Send(c)
  <2>1. /\ ~Idle(c) /\ ~Idle(c)' /\ cmd[c].rpc = "none" /\ cmd'[c].rpc = "sent" /\ place' = place
        /\ cmd'[c].at = cmd[c].at /\ cmd'[c].op = cmd[c].op /\ cmd'[c].key = cmd[c].key
        /\ cmd'[c].val = cmd[c].val
    BY <1>3, SendFacts
  <2>2. (Writing(c, k)' <=> Writing(c, k)) /\ (Acked(c, n)' <=> Acked(c, n))
    BY <2>1 DEF Writing, Acked, Primary, Buddy
  <2> QED
    BY <1>1, <2>1, <2>2 DEF Told, With
<1>4. CASE cmd'[c] = cmd[c] /\ place'[c] = place[c]
  <2>1. (Writing(c, k)' <=> Writing(c, k)) /\ (Acked(c, n)' <=> Acked(c, n))
    BY <1>4 DEF Writing, Acked, Primary, Buddy, Idle
  <2> QED
    BY <1>1, <1>4, <2>1 DEF Told, With
<1>5. CASE cmd'[c] = cmd[c] /\ Idle(c)
  BY <1>5 DEF Told, Writing, Idle
<1> QED
  BY <1>2, <1>3, <1>4, <1>5

\* When its request is executed it is told what the request makes of the map.
LEMMA ToldServed ==
  ASSUME CommonInv, ~Estranged, NEW d \in Users, NEW m \in Node, Served(d, m), NEW k \in Key
  PROVE  /\ Target(d) = m
         /\ Told(d, m, k) = expect[k]
         /\ Told(d, m, k)' = IF Writing(d, k) THEN Do(expect, RequestOf(d))[k] ELSE expect[k]
         /\ \A n : n # m => Told(d, n, k)' = Told(d, n, k)
<1> USE DEF CommonInv
<1>1. /\ d \in Client /\ ~Idle(d) /\ ~Idle(d)' /\ Reached(d) = m /\ Target(d) \in Node
      /\ cmd[d].rpc # "answered" /\ cmd'[d].rpc = "answered"
      /\ cmd'[d].at = cmd[d].at /\ cmd'[d].op = cmd[d].op /\ cmd'[d].key = cmd[d].key
      /\ cmd'[d].val = cmd[d].val /\ place' = place /\ expect' = expect
  BY UsersAreClients, ServedFacts
<1>2. Target(d) = m
  BY <1>1, LocalTarget DEF Reached
<1>3. /\ cmd[d].at # "primary" => Buddy(d, cmd[d].key) # Primary(d, cmd[d].key)
      /\ cmd[d].at = "migrate" => cmd[d].op = "get"
      /\ cmd[d].at \in {"primary", "buddy", "migrate"}
  BY <1>1, CommandFacts DEF CommandsMakeSense, Cmd
<1>4. Writing(d, k)' <=> Writing(d, k)
  BY <1>1 DEF Writing
<1>5. Writing(d, k) => ~Acked(d, m) /\ Acked(d, m)'
  BY <1>1, <1>2, <1>3 DEF Writing, Acked, Target, Primary, Buddy
<1>6. ASSUME NEW n, n # m, Writing(d, k) PROVE Acked(d, n)' <=> Acked(d, n)
  BY <1>1, <1>2, <1>3, <1>6 DEF Writing, Acked, Target, Primary, Buddy
<1>7. With(cmd[d].op, k, cmd[d].val)' = With(cmd[d].op, k, cmd[d].val)
  BY <1>1 DEF With, Map!After
<1>8. Writing(d, k) => With(cmd[d].op, k, cmd[d].val) = Do(expect, RequestOf(d))[k]
  BY DEF With, Do, RequestOf, Writing
<1>9. ASSUME NEW n, n # m PROVE Told(d, n, k)' = Told(d, n, k)
  BY <1>1, <1>4, <1>6, <1>7, <1>9 DEF Told
<1> QED
  BY <1>1, <1>2, <1>4, <1>5, <1>7, <1>8, <1>9 DEF Told

\* When a client goes on, what it has been told is what it takes for done, as long as it
\* has not given up.
LEMMA ToldGoesOn ==
  ASSUME CommonInv, NEW d \in Client, GoesOn(d), NEW k \in Key, NEW n \in {Primary(d, k), Buddy(d, k)},
         Target(d) = n => cmd[d].rpc = "answered"
  PROVE  Told(d, n, k)' = Told(d, n, k)
<1> USE DEF CommonInv
<1>1. /\ ~Idle(d) /\ cmd[d].rpc # "none" /\ cmd[d] \in Cmd
      /\ UNCHANGED <<env, up, store, view, place, news, wire>>
  BY GoesOnFacts, CommandFacts, ReadContinues, WriteEnds
<1>2. CASE cmd[d].op = "get"
  <2>1. ~Writing(d, k) /\ ~Writing(d, k)' /\ expect' = expect
    BY <1>2, ReadContinues DEF Writing
  <2> QED
    BY <2>1 DEF Told
<1>3. CASE cmd[d].op # "get" /\ Idle(d)'
  <2>1. /\ expect' = Map!After(expect, cmd[d].op, cmd[d].key, cmd[d].val)
        /\ cmd[d].at = "buddy" \/ Buddy(d, cmd[d].key) = Primary(d, cmd[d].key)
    BY <1>3, WriteEnds
  <2>2. Told(d, n, k)' = expect'[k]
    BY <1>3 DEF Told, Writing
  <2>3. CASE cmd[d].key = k
    <3>1. cmd[d].at \in {"primary", "buddy"}
      BY <1>1, <1>3 DEF CommandsMakeSense, Cmd
    <3>2. Writing(d, k) /\ Acked(d, n)
      BY <1>1, <1>3, <2>1, <2>3, <3>1 DEF Writing, Acked, Target
    <3> QED
      BY <2>1, <2>2, <2>3, <3>2 DEF Told, With
  <2>4. CASE cmd[d].key # k
    <3>1. expect'[k] = expect[k] /\ ~Writing(d, k)
      BY <1>1, <2>1, <2>4 DEF Map!After, TypeOK, Cmd, Writing
    <3> QED
      BY <2>2, <3>1 DEF Told
  <2> QED
    BY <2>3, <2>4
<1>4. CASE cmd[d].op # "get" /\ ~Idle(d)'
  <2>1. /\ expect' = expect /\ cmd[d].at = "primary"
        /\ Buddy(d, cmd[d].key) # Primary(d, cmd[d].key)
        /\ cmd'[d].at = "buddy" /\ cmd'[d].rpc = "none" /\ cmd'[d].val = cmd[d].val
        /\ cmd'[d].op = cmd[d].op /\ cmd'[d].key = cmd[d].key
    BY <1>4, WriteEnds
  <2>2. Writing(d, k)' <=> Writing(d, k)
    BY <1>1, <1>4, <2>1 DEF Writing
  <2>3. Writing(d, k) => (Acked(d, n)' <=> Acked(d, n))
    BY <1>1, <2>1 DEF Acked, Writing, Target, Primary, Buddy
  <2> QED
    BY <2>1, <2>2, <2>3 DEF Told, With, Map!After
<1> QED
  BY <1>2, <1>3, <1>4

-----------------------------------------------------------------------------
(* A get() falls back to the node that stays *)

Tame == OneComesAndGoes /\ Legible /\ ~(env.slow \/ Contended \/ Estranged)

\* What a user takes for done is on the node that stays.
Kept(c, k) == Told(c, Keeper(k), k) # Missing => store[Keeper(k)][k] # Missing

\* A get() of a key that has been there all the time finds it on that node.
Finds(c, k) == Reading(c, k) /\ Missing \notin fresh[c] =>
  /\ expect[k] # Missing
  /\ Target(c) = Keeper(k) /\ cmd[c].at # "migrate" /\ cmd[c].rpc = "answered" =>
       cmd[c].reply # Missing
  /\ cmd[c].at = "buddy" => Primary(c, k) # Keeper(k)

FallInv == Tame => \A c \in Users, k \in Key : Kept(c, k) /\ Finds(c, k)

\* The node that stays answers.
LEMMA KeeperAnswers ==
  ASSUME CommonInv, WorldInv, PromptInv, Tame, NEW k \in Key
  PROVE  /\ Keeper(k) \in Node /\ Keeper(k) \in up /\ Keeper(k) \notin env.mayCrash
         /\ \A c \in Client :
              /\ Keeper(k) \in {Primary(c, k), Buddy(c, k)}
              /\ Handle(c, Keeper(k)) => Awaited(c, Keeper(k))
              /\ GoesOn(c) /\ Target(c) = Keeper(k) => cmd[c].rpc = "answered" /\ ~TimeOut(c)
<1>1. /\ Keeper(k) \in Node /\ Keeper(k) \in up /\ Keeper(k) \notin env.mayCrash
      /\ \A c \in Client : Keeper(k) \in {Primary(c, k), Buddy(c, k)}
  BY KeeperFacts DEF Tame, CommonInv
<1>2. Prompt(Keeper(k))
  BY <1>1 DEF Prompt, Tame
<1> QED
  BY <1>1, <1>2, PromptFacts

\* The node that keeps a key stays the same.
LEMMA KeeperStays ==
  ASSUME env' = env
  PROVE  /\ Tame' <=> Tame
         /\ \A k \in Key : Keeper(k)' = Keeper(k)
<1>1. Tame' <=> Tame
  BY DEF Tame, OneComesAndGoes, Legible, Contended, Estranged, Users
<1>2. Mover' = Mover
  BY DEF Mover
<1>3. \A k \in Key : Keeper(k)' = Keeper(k)
  BY <1>2 DEF Keeper
<1> QED
  BY <1>1, <1>3

\* What another user does to a key that is kept leaves it there.
LEMMA KeepsServed ==
  ASSUME CommonInv, Undeleted => KeepsKeys, ~Contended, NEW c \in Users, NEW d \in Users, c # d,
         NEW n \in Node, Served(d, n), NEW k \in Key, store[n][k] # Missing
  PROVE  store'[n][k] # Missing
<1> USE DEF CommonInv
<1>1. KeepsKeys
  BY SharedIsKept
<1>2. d \in Client /\ ~Idle(d) /\ store' = [store EXCEPT ![n] = Do(store[n], RequestOf(d))]
  BY UsersAreClients, ServedFacts
<1>3. store \in [Node -> [Key -> Held]]
  BY DEF TypeOK, Held
<1>4. Do(store[n], RequestOf(d))[k] # Missing
  BY <1>1, <1>2, <1>3, RequestFacts, DoKeeps
<1> QED
  BY <1>2, <1>3, <1>4

\* Kept is inductive.
LEMMA KeptStep ==
  ASSUME BaseInv, Undeleted => KeepsKeys, Tame, [Next]_vars, NEW c \in Users, NEW k \in Key,
         \A d \in Users : Kept(d, k)
  PROVE  Kept(c, k)'
<1> USE DEF BaseInv, CommonInv
<1>r. PICK R \in Node : R = Keeper(k)
  BY KeeperAnswers
<1>0. c \in Client /\ env' = env /\ Keeper(k)' = R /\ ~Contended /\ ~Estranged
  BY <1>r, UsersAreClients, EnvironmentStays, KeeperStays DEF Tame
<1>1. /\ R \in Node /\ R \in up
      /\ \A d \in Client : R \in {Primary(d, k), Buddy(d, k)}
      /\ \A d \in Client : Handle(d, R) => Awaited(d, R)
      /\ \A d \in Client : GoesOn(d) /\ Target(d) = R => cmd[d].rpc = "answered"
  BY <1>r, KeeperAnswers
<1>2. \A d \in Users : Told(d, R, k) # Missing => store[R][k] # Missing
  BY <1>r DEF Kept
<1> SUFFICES ASSUME Told(c, R, k)' # Missing PROVE store'[R][k] # Missing
  BY <1>0 DEF Kept, Told, Acked
<1>3. ASSUME store' = store, Told(c, R, k)' = Told(c, R, k) PROVE store'[R][k] # Missing
  BY <1>2, <1>3
<1>4. store \in [Node -> [Key -> Held]] /\ expect \in [Key -> Held]
  BY DEF TypeOK, Held
<1>5. ASSUME NEW d \in Client, NEW op \in Op, NEW l \in Key, NEW v \in Held, Begin(d, op, l, v)
      PROVE  store'[R][k] # Missing
  <2>1. Told(c, R, k)' = Told(c, R, k)
    BY <1>0, <1>5, BeginFacts, ToldSame
  <2> QED
    BY <1>3, <1>5, <2>1, BeginFacts
<1>6. ASSUME NEW d \in Client, Send(d) PROVE store'[R][k] # Missing
  <2>1. Told(c, R, k)' = Told(c, R, k)
    BY <1>0, <1>6, SendFacts, ToldSame
  <2> QED
    BY <1>3, <1>6, <2>1, SendFacts
<1>7. ASSUME NEW d \in Client, NEW n \in Node, Served(d, n) PROVE store'[R][k] # Missing
  <2>1. /\ ~Idle(d) /\ RequestOf(d) \in Request /\ RequestOf(d).key = cmd[d].key
        /\ store' = [store EXCEPT ![n] = Do(store[n], RequestOf(d))]
        /\ \A e \in Client \ {d} : cmd'[e] = cmd[e]
        /\ UNCHANGED <<place, expect>>
    BY <1>7, ServedFacts
  <2>2. d \in Users
    BY <2>1, ActorsAreUsers
  <2>3. CASE d # c
    <3>1. Told(c, R, k)' = Told(c, R, k)
      BY <1>0, <2>1, <2>3, ToldSame
    <3>2. store[R][k] # Missing
      BY <1>2, <3>1
    <3>3. CASE n = R
      BY <1>0, <1>7, <2>2, <2>3, <3>2, <3>3, KeepsServed
    <3>4. CASE n # R
      BY <1>1, <1>4, <2>1, <3>2, <3>4
    <3> QED
      BY <3>3, <3>4
  <2>4. CASE d = c /\ n # R
    <3>1. Told(c, R, k)' = Told(c, R, k)
      BY <1>0, <1>7, <2>4, ToldServed
    <3> QED
      BY <1>1, <1>2, <1>4, <2>1, <2>4, <3>1
  <2>5. CASE d = c /\ n = R
    <3>1. /\ Told(c, R, k) = expect[k]
          /\ Told(c, R, k)' = IF Writing(c, k) THEN Do(expect, RequestOf(c))[k] ELSE expect[k]
      BY <1>0, <1>7, <2>5, ToldServed
    <3>2. store'[R] = Do(store[R], RequestOf(c))
      BY <1>1, <1>4, <2>1, <2>5
    <3>3. expect[k] # Missing => store[R][k] # Missing
      BY <1>2, <3>1
    <3>4. CASE cmd[c].key # k
      BY <1>1, <1>4, <2>1, <2>5, <3>1, <3>2, <3>3, <3>4, DoFacts DEF Writing
    <3>5. CASE Writing(c, k)
      <4>1. /\ RequestOf(c).kind = cmd[c].op /\ RequestOf(c).key = k
            /\ RequestOf(c).kind \in {"insert", "update"} => RequestOf(c).val # Missing
        BY <1>0, <2>1, <2>5, <3>5, KVAssumption DEF RequestOf, Writing, CommandsMakeSense
      <4>2. Do(expect, RequestOf(c))[k] # Missing
        BY <3>1, <3>5
      <4> DEFINE r == RequestOf(c)
      <4>3. r \in Request /\ r.key = k /\ (r.kind \in {"insert", "update"} => r.val # Missing)
            /\ store[R] \in [Key -> Held] /\ Do(expect, r)[k] # Missing
        BY <1>1, <1>4, <2>1, <2>5, <4>1, <4>2
      <4> HIDE DEF r
      <4>4. Do(store[R], r)[k] # Missing
        BY <1>4, <3>3, <4>3 DEF Do, Map!After
      <4> QED
        BY <3>2, <4>4 DEF r
    <3>6. CASE Reading(c, k)
      <4>1. expect[k] # Missing
        BY <3>1, <3>6 DEF Reading, Writing
      <4>2. /\ RequestOf(c).kind \in {"fetch", "insert"} /\ RequestOf(c).key = k
            /\ RequestOf(c).kind = "insert" => RequestOf(c).val \in Value
        BY <1>0, <2>1, <2>5, <3>6 DEF RequestOf, Reading, CommandsMakeSense
      <4>3. Do(store[R], RequestOf(c))[k] # Missing
        BY <1>1, <1>4, <2>1, <2>5, <3>3, <4>1, <4>2, DoKeeps
      <4> QED
        BY <3>2, <4>3
    <3> QED
      BY <2>1, <2>5, <3>4, <3>5, <3>6 DEF Writing, Reading
  <2> QED
    BY <2>3, <2>4, <2>5
<1>8. ASSUME NEW d \in Client, NEW n \in Node, Handle(d, n), ~Awaited(d, n) PROVE store'[R][k] # Missing
  <2>1. n # R
    BY <1>1, <1>8
  <2>2. store'[R] = store[R]
    <3> DEFINE w == wire[d][n]
    <3>1. w # <<>> /\ w \in Seq(Request) /\ store' = Executed(n, Head(w))
      BY <1>8, HandleFacts
    <3> HIDE DEF w
    <3>2. Head(w) \in Request
      BY <3>1, TailFacts
    <3>3. store' = [store EXCEPT ![n] = Do(store[n], Head(w))]
      BY <3>1, <3>2, ExecutedIsDo
    <3> QED
      BY <1>1, <1>4, <2>1, <3>3
  <2>3. Told(c, R, k)' = Told(c, R, k)
    BY <1>0, <1>8, HandleFacts, ToldSame
  <2> QED
    BY <1>0, <1>2, <2>2, <2>3
<1>9. ASSUME NEW d \in Client, GoesOn(d) PROVE store'[R][k] # Missing
  <2>1. /\ store' = store /\ place' = place /\ \A e \in Client \ {d} : cmd'[e] = cmd[e]
    BY <1>9, ReadContinues, WriteEnds
  <2>2. d \in Users /\ ~Idle(d)
    BY <1>9, GoesOnFacts, ActorsAreUsers
  <2>3. Told(d, R, k)' = Told(d, R, k)
    BY <1>1, <1>9, ToldGoesOn
  <2>4. CASE d = c
    BY <1>3, <2>1, <2>3, <2>4
  <2>5. CASE d # c /\ expect'[k] = expect[k]
    <3>1. cmd'[c] = cmd[c] /\ place' = place
      BY <1>0, <2>1, <2>5
    <3>2. (Writing(c, k)' <=> Writing(c, k)) /\ (Acked(c, R)' <=> Acked(c, R))
      BY <3>1 DEF Writing, Acked, Primary, Buddy, Idle
    <3>3. Writing(c, k) => With(cmd[c].op, k, cmd[c].val)' = With(cmd[c].op, k, cmd[c].val)
      <4>1. expect' \in [Key -> Held]
        BY TypeStep DEF TypeOK, Held
      <4>2. With(cmd[c].op, k, cmd[c].val)' = Map!After(expect', cmd[c].op, k, cmd[c].val)[k]
        BY <3>1 DEF With, Map!After
      <4> QED
        BY <1>4, <2>5, <4>1, <4>2 DEF With, Map!After
    <3>4. Told(c, R, k)' = Told(c, R, k)
      BY <2>5, <3>1, <3>2, <3>3 DEF Told
    <3> QED
      BY <1>3, <2>1, <3>4
  <2>6. CASE d # c /\ expect'[k] # expect[k]
    <3>1. KeepsKeys
      BY <1>0, <2>2, <2>6, SharedIsKept
    <3>2. Idle(d)'
      BY <1>9, <2>6, ReadContinues, WriteEnds
    <3>3. Told(d, R, k)' = expect'[k]
      BY <3>2 DEF Told, Writing
    <3>4. expect'[k] # Missing => store[R][k] # Missing
      BY <1>2, <2>2, <2>3, <3>3
    <3>5. cmd'[c] = cmd[c] /\ place' = place
      BY <1>0, <2>1, <2>6
    <3>6. (Writing(c, k)' <=> Writing(c, k)) /\ (Acked(c, R)' <=> Acked(c, R))
      BY <3>5 DEF Writing, Acked, Primary, Buddy, Idle
    <3>7. CASE Writing(c, k) /\ Acked(c, R)
      <4>1. cmd[c] \in Cmd /\ cmd[c].op # "delete" /\ cmd[c].op \in Writes
            /\ cmd[c].val \in Value
        BY <1>0, <3>1, <3>7, CommandFacts DEF Writing, KeepsKeys, Cmd, Op, Writes, CommandsMakeSense
      <4>2. CASE cmd[c].op = "insert"
        <5>1. With(cmd[c].op, k, cmd[c].val) # Missing
          BY <1>4, <4>1, <4>2, AfterKeeps DEF With
        <5> QED
          BY <1>2, <2>1, <3>7, <5>1 DEF Told
      <4>3. CASE cmd[c].op = "update"
        <5>1. Told(c, R, k)' = Map!After(expect', "update", k, cmd[c].val)[k]
          BY <3>5, <3>6, <3>7, <4>3 DEF Told, With, Map!After
        <5>2. expect'[k] # Missing
          BY <5>1 DEF Map!After
        <5> QED
          BY <2>1, <3>4, <5>2
      <4> QED
        BY <4>1, <4>2, <4>3 DEF Writes
    <3>8. CASE ~(Writing(c, k) /\ Acked(c, R))
      BY <2>1, <3>4, <3>6, <3>8 DEF Told
    <3> QED
      BY <3>7, <3>8
  <2> QED
    BY <2>4, <2>5, <2>6
<1>10. ASSUME NEW d \in Client, Refresh(d) PROVE store'[R][k] # Missing
  BY <1>0, <1>3, <1>10, OtherFacts, ToldSame
<1>11. ASSUME NEW d \in Client, NEW live \in SUBSET Node, Ask(d, live) PROVE store'[R][k] # Missing
  BY <1>0, <1>3, <1>11, OtherFacts, ToldSame
<1>12. ASSUME NEW n \in Node, Crash(n) PROVE store'[R][k] # Missing
  BY <1>0, <1>3, <1>12, OtherFacts, ToldSame
<1>13. ASSUME NEW n \in Node, Restart(n) PROVE store'[R][k] # Missing
  <2>1. n # R /\ store' = [store EXCEPT ![n] = Empty] /\ UNCHANGED <<place, cmd, expect>>
    BY <1>1, <1>13, OtherFacts, MembershipFacts
  <2>2. Told(c, R, k)' = Told(c, R, k)
    BY <1>0, <2>1, ToldSame
  <2> QED
    BY <1>0, <1>1, <1>2, <1>4, <2>1, <2>2
<1>14. ASSUME UNCHANGED vars PROVE store'[R][k] # Missing
  BY <1>0, <1>3, <1>14, ToldSame DEF vars
<1> QED
  BY <1>5, <1>6, <1>7, <1>8, <1>9, <1>10, <1>11, <1>12, <1>13, <1>14, Deeds

\* Finds is inductive.
LEMMA FindsStep ==
  ASSUME BaseInv, Undeleted => KeepsKeys, LegibleInv, Tame, [Next]_vars, NEW c \in Users, NEW k \in Key,
         Kept(c, k), Finds(c, k)
  PROVE  Finds(c, k)'
<1> USE DEF BaseInv, CommonInv
<1>r. PICK R \in Node : R = Keeper(k)
  BY KeeperAnswers
<1>0. /\ c \in Client /\ env' = env /\ Keeper(k)' = R /\ ~Contended /\ ~Estranged
      /\ R \in {Primary(c, k), Buddy(c, k)}
      /\ GoesOn(c) /\ Target(c) = R => cmd[c].rpc = "answered" /\ ~TimeOut(c)
  BY <1>r, UsersAreClients, EnvironmentStays, KeeperStays, KeeperAnswers DEF Tame
<1> SUFFICES ASSUME Reading(c, k)', Missing \notin fresh'[c]
             PROVE  /\ expect'[k] # Missing
                    /\ Target(c)' = R /\ cmd'[c].at # "migrate" /\ cmd'[c].rpc = "answered" =>
                         cmd'[c].reply # Missing
                    /\ cmd'[c].at = "buddy" => Primary(c, k)' # R
  BY <1>0 DEF Finds
<1>1. expect \in [Key -> Held]
  BY DEF TypeOK, Held
<1>2. CASE Idle(c)
  <2>1. PICK op \in Op, l \in Key, v \in Held : Begin(c, op, l, v)
    BY <1>0, <1>2, Beginning DEF Reading
  <2>2. Begin(c, "get", k, v) /\ "get" \in Op
    BY <1>0, <2>1, BeginFacts DEF Reading
  <2>3. expect[k] \in fresh'[c]
    BY <1>0, <2>2, FreshStarts
  <2> QED
    BY <1>0, <2>2, <2>3, BeginFacts
<1>3. CASE ~Idle(c)
  <2>1. ~Idle(c)' /\ cmd'[c].op = cmd[c].op /\ cmd'[c].key = cmd[c].key
        /\ Missing \notin fresh[c] /\ Reading(c, k)
    BY <1>0, <1>3, FreshGrows DEF Reading
  <2>2. /\ expect[k] # Missing
        /\ Target(c) = R /\ cmd[c].at # "migrate" /\ cmd[c].rpc = "answered" => cmd[c].reply # Missing
        /\ cmd[c].at = "buddy" => Primary(c, k) # R
    BY <1>r, <2>1 DEF Finds
  <2>3. expect'[k] # Missing
    <3>1. ASSUME NEW d \in Client, ~Idle(d), cmd[d].op \in Writes, cmd[d].key \in Key,
                 cmd[d].op \in {"insert", "update"} => cmd[d].val \in Value,
                 expect' = Map!After(expect, cmd[d].op, cmd[d].key, cmd[d].val)
          PROVE  expect'[k] # Missing
      <4>1. d # c /\ d \in Users
        BY <2>1, <3>1, ActorsAreUsers DEF Reading, Writes
      <4>2. KeepsKeys
        BY <1>0, <4>1, SharedIsKept
      <4>3. cmd[d].op \in Writes \ {"delete"} /\ cmd[d].val \in Value
        BY <3>1, <4>2 DEF KeepsKeys, Writes
      <4> QED
        BY <1>1, <2>2, <3>1, <4>3, AfterKeeps
    <3> QED
      BY <2>2, <3>1, ExpectMoves
  <2>4. place'[c] = place[c]
    BY <1>0, <1>3, Moves
  <2>5. CASE cmd'[c] = cmd[c]
    <3>1. Target(c)' = Target(c) /\ Primary(c, k)' = Primary(c, k)
      BY <2>4, <2>5 DEF Target, Primary, Buddy
    <3> QED
      BY <2>2, <2>3, <2>5, <3>1
  <2>6. CASE GoesOn(c) /\ cmd'[c] # cmd[c]
    <3>1. PICK reply \in Held \cup {Failed} :
            /\ \/ reply = Failed /\ TimeOut(c)
               \/ cmd[c].rpc = "answered" /\ reply = cmd[c].reply
            /\ cmd'[c].rpc = "none" /\ cmd[c].rpc # "none"
            /\ \/ cmd[c].at = "primary" /\ IsMissOrError(reply) /\ cmd'[c].at = "buddy"
               \/ cmd'[c].at = "migrate"
      BY <1>0, <2>1, <2>6, ReadContinues, GoesOnFacts DEF Reading
    <3>2. ASSUME cmd[c].at = "primary", IsMissOrError(reply), Primary(c, k) = R PROVE FALSE
      <4>1. Target(c) = R
        BY <2>1, <3>2 DEF Target, Reading
      <4>2. cmd[c].rpc = "answered" /\ reply = cmd[c].reply /\ reply # Missing
        BY <1>0, <2>2, <2>6, <3>1, <3>2, <4>1
      <4>3. reply \notin env.missLike /\ reply # Failed
        <5>1. cmd[c].reply \in Held
          BY <1>0, <2>1, CommandFacts DEF Reading, Cmd, Held
        <5> QED
          BY <1>0, <2>1, <4>2, <5>1, KVAssumption DEF LegibleInv, Tame, Reading, Held
      <4> QED
        BY <3>2, <4>2, <4>3 DEF IsMissOrError
    <3> QED
      BY <2>3, <2>4, <3>1, <3>2 DEF Primary
  <2>7. CASE Send(c)
    BY <1>0, <2>2, <2>3, <2>4, <2>7, SendFacts DEF Primary
  <2>8. ASSUME NEW n \in Node, Served(c, n)
        PROVE  /\ Target(c)' = R /\ cmd'[c].at # "migrate" => cmd'[c].reply # Missing
               /\ cmd'[c].at = "buddy" => Primary(c, k)' # R
    <3>1. /\ cmd'[c].at = cmd[c].at
          /\ cmd'[c].reply = IF RequestOf(c).kind = "fetch" THEN store[n][cmd[c].key] ELSE Missing
      BY <1>0, <2>8, ServedFacts
    <3>2. Primary(c, k)' = Primary(c, k) /\ Target(c)' = Target(c) /\ Target(c) = n
      BY <1>0, <2>1, <2>4, <2>8, <3>1, ToldServed DEF Target, Primary, Buddy
    <3>3. ASSUME n = R, cmd[c].at # "migrate" PROVE cmd'[c].reply # Missing
      <4>1. RequestOf(c).kind = "fetch" /\ cmd[c].key = k
        BY <2>1, <3>3 DEF RequestOf, Reading
      <4>2. Told(c, R, k) = expect[k]
        BY <2>1 DEF Told, Writing, Reading
      <4> QED
        BY <1>r, <2>2, <3>1, <3>3, <4>1, <4>2 DEF Kept
    <3> QED
      BY <2>2, <3>1, <3>2, <3>3
  <2> QED
    BY <1>0, <1>3, <2>3, <2>5, <2>6, <2>7, <2>8, ReadMoves
<1> QED
  BY <1>2, <1>3

\* FallInv is an invariant.
LEMMA FallInvariance == Spec => []FallInv
<1>1. Init => FallInv
  <2> SUFFICES ASSUME Init PROVE FallInv
    OBVIOUS
  <2>1. TypeOK /\ \A d \in Client : Idle(d)
    BY InitType DEF Init, Resting, Idle
  <2>2. \A k \in Key : expect[k] = Missing
    BY DEF Init, Empty
  <2> QED
    BY <2>1, <2>2, UsersAreClients DEF FallInv, Kept, Told, Writing, Finds, Reading
<1>2. BaseInv /\ UnbornInv /\ LegibleInv /\ FallInv /\ [Next]_vars => FallInv'
  <2> SUFFICES ASSUME BaseInv, UnbornInv, LegibleInv, FallInv, [Next]_vars PROVE FallInv'
    OBVIOUS
  <2>1. (Tame' <=> Tame) /\ Users' = Users
    BY EnvironmentStays, KeeperStays
  <2> SUFFICES ASSUME Tame, NEW c \in Users, NEW k \in Key PROVE Kept(c, k)' /\ Finds(c, k)'
    BY <2>1 DEF FallInv
  <2>2. (Undeleted => KeepsKeys) /\ \A d \in Users : Kept(d, k) /\ Finds(d, k)
    BY DEF UnbornInv, FallInv
  <2> QED
    BY <2>2, KeptStep, FindsStep
<1> QED
  BY <1>1, <1>2, BaseInvariance, UnbornInvariance, LegibleInvariance, PTL DEF Spec

\* A get() of a key that was written and not deleted finds it, when one node joins, is
\* lost or returns empty: one of the two nodes it asks is the one that stays, to which
\* every write has been made (KVDistributor get, "fall back ... transparently").
THEOREM FallBack == Spec => ReadsFallBack
<1>1. ASSUME BaseInv, UnbornInv, LegibleInv, FallInv, [Next]_vars, NEW c \in Client,
             Returns(c, "get"), Missing \notin fresh[c], Tame
      PROVE  cmd'[c].val # Failed
  <2> USE <1>1 DEF BaseInv, CommonInv
  <2>1. ~Idle(c) /\ cmd[c].op = "get" /\ Idle(c)' /\ GoesOn(c)
    BY GetIsBusy, Returning DEF Returns
  <2> DEFINE k == cmd[c].key
  <2>2. k \in Key /\ Reading(c, k) /\ c \in Users /\ cmd[c] \in Cmd
    BY <2>1, CommandFacts, ActorsAreUsers DEF Reading, Cmd
  <2>r. PICK R \in Node : R = Keeper(k)
    BY <2>2, KeeperAnswers
  <2>3. /\ R \in {Primary(c, k), Buddy(c, k)}
        /\ Target(c) = R => cmd[c].rpc = "answered" /\ ~TimeOut(c)
    BY <2>1, <2>2, <2>r, KeeperAnswers
  <2>4. /\ Target(c) = R /\ cmd[c].at # "migrate" /\ cmd[c].rpc = "answered" => cmd[c].reply # Missing
        /\ cmd[c].at = "buddy" => Primary(c, k) # R
    BY <2>2, <2>r DEF FallInv, Finds
  <2>5. cmd[c].rpc = "answered" /\ cmd[c].reply # Missing => ~IsMissOrError(cmd[c].reply)
    BY <2>1, <2>2, KVAssumption DEF LegibleInv, Tame, IsMissOrError, Cmd
  <2>6. cmd[c].at \in {"primary", "buddy"} /\ (cmd[c].at = "primary" => Buddy(c, k) = Primary(c, k))
          => Target(c) = R
    BY <2>3, <2>4 DEF Target
  <2>7. cmd[c].at = "migrate" => cmd[c].val # Failed
    BY <2>1, KVAssumption DEF CommandsMakeSense
  <2> HIDE DEF k
  <2> QED
    BY <2>1, <2>2, <2>3, <2>4, <2>5, <2>6, <2>7, ReadContinues DEF IsMissOrError, k
<1>2. ASSUME BaseInv, UnbornInv, LegibleInv, FallInv, [Next]_vars
      PROVE  [\A c \in Client :
                (/\ Returns(c, "get") /\ Missing \notin fresh[c] /\ OneComesAndGoes /\ Legible
                 /\ ~(env.slow \/ Contended \/ Estranged))
                  => cmd'[c].val # Failed]_vars
  BY <1>1, <1>2 DEF Tame
<1> QED
  BY <1>2, BaseInvariance, UnbornInvariance, LegibleInvariance, FallInvariance, PTL
  DEF Spec, ReadsFallBack

-----------------------------------------------------------------------------
(* What a get() returns, while a node is lost *)

\* Who executes a command was ordered to.
OrdersInv ==
  \A c \in Client : ~Idle(c) => \E o \in env.load : o.client = c /\ o.op = cmd[c].op

\* OrdersInv is an invariant.
LEMMA OrdersInvariance == Spec => []OrdersInv
<1>1. Init => OrdersInv
  BY DEF Init, OrdersInv, Resting, Idle
<1>2. CommonInv /\ OrdersInv /\ [Next]_vars => OrdersInv'
  <2> SUFFICES ASSUME CommonInv, OrdersInv, [Next]_vars, NEW c \in Client, ~Idle(c)'
               PROVE  \E o \in env.load : o.client = c /\ o.op = cmd'[c].op
    BY EnvironmentStays DEF OrdersInv
  <2>1. CASE Idle(c)
    <3>1. PICK op \in Op, k \in Key, v \in Held : Begin(c, op, k, v)
      BY <2>1, Beginning
    <3>2. cmd'[c].op = op
      BY <3>1, BeginFacts DEF CommonInv
    <3>3. [client |-> c, op |-> op, key |-> k, val |-> v] \in env.load
      BY <3>1 DEF Begin
    <3> QED
      BY <3>2, <3>3
  <2>2. CASE ~Idle(c)
    BY <2>2, FreshGrows DEF OrdersInv
  <2> QED
    BY <2>1, <2>2
<1> QED
  BY <1>1, <1>2, CommonInvariance, PTL DEF Spec

\* What the completed commands leave is not taken for an error.
ExpectLegible == Legible => \A k \in Key : expect[k] \notin env.missLike

\* ExpectLegible is an invariant.
LEMMA ExpectInvariance == Spec => []ExpectLegible
<1>1. Init => ExpectLegible
  <2> SUFFICES ASSUME Init PROVE ExpectLegible
    OBVIOUS
  <2>1. env \in Environment
    BY InitType, EnvironmentFacts DEF TypeOK
  <2>2. Missing \notin env.missLike
    BY <2>1, KVAssumption DEF Environment
  <2> QED
    BY <2>2 DEF ExpectLegible, Init, Empty
<1>2. CommonInv /\ LegibleInv /\ ExpectLegible /\ [Next]_vars => ExpectLegible'
  <2> SUFFICES ASSUME CommonInv, LegibleInv, ExpectLegible, [Next]_vars, Legible, NEW k \in Key
               PROVE  expect'[k] \notin env.missLike
    BY EnvironmentStays DEF ExpectLegible, Legible
  <2> USE DEF CommonInv
  <2>1. expect[k] \notin env.missLike
    BY DEF ExpectLegible
  <2>2. env \in Environment
    BY EnvironmentFacts DEF TypeOK
  <2>3. Missing \notin env.missLike
    BY <2>2, KVAssumption DEF Environment
  <2>4. ASSUME NEW c \in Client, ~Idle(c), cmd[c].key \in Key,
               expect' = Map!After(expect, cmd[c].op, cmd[c].key, cmd[c].val)
        PROVE  expect'[k] \notin env.missLike
    <3>1. cmd[c].val \notin env.missLike
      BY <2>4 DEF LegibleInv
    <3>2. expect \in [Key -> Held]
      BY DEF TypeOK, Held
    <3>3. expect'[k] \in {expect[k], cmd[c].val, Missing}
      BY <2>4, <3>2 DEF Map!After
    <3> QED
      BY <2>1, <2>3, <3>1, <3>3
  <2> QED
    BY <2>1, <2>4, ExpectMoves
<1> QED
  BY <1>1, <1>2, CommonInvariance, LegibleInvariance, PTL DEF Spec

\* One node is lost and none comes, and one client writes.
Orderly ==
  /\ OneComesAndGoes /\ ~(NodesJoin \/ NodesReturn \/ env.slow) /\ OneWriter
  /\ ~Contended /\ ~Estranged /\ (env.answers = {} \/ (Legible /\ Alone))

OnlyWriter(w) == \A o \in env.load : o.op \in Writes => o.client = w

\* n holds for k what w has been told: it is the node that stays, or one of the two that
\* w has used from the beginning.
Sure(w, n, k) ==
  /\ n \in {Primary(w, k), Buddy(w, k)} /\ Reach(w, n)
  /\ view[w] = env.configured \/ n = Keeper(k)

Exact(w, k) == \A n \in Node : Sure(w, n, k) => store[n][k] = Told(w, n, k)

\* A get() may return what the completed commands leave, and what those that run make of it.
Current(r, k) == Reading(r, k) =>
  /\ expect[k] \in fresh[r]
  /\ \A w \in Client : Writing(w, k) => With(cmd[w].op, k, cmd[w].val) \in fresh[r]
  /\ Alone => fresh[r] = {expect[k]}

\* What it has read so far is such a value, and it has a reason to ask the buddy.
Honest(r, k) == Reading(r, k) =>
  /\ cmd[r].at # "migrate" /\ cmd[r].rpc = "answered" => cmd[r].reply \in fresh[r]
  /\ cmd[r].at = "migrate" => cmd[r].val \in fresh[r] /\ Readable(cmd[r].val)
  /\ cmd[r].at = "buddy" => Primary(r, k) \in env.mayCrash \/ \E u \in fresh[r] : ~Readable(u)

\* What it migrates is at the primary already, if the primary is there.
Evident(r, k) ==
  /\ Reading(r, k) /\ Reach(r, Primary(r, k))
  /\ \/ cmd[r].at = "migrate"
     \/ cmd[r].at = "buddy" /\ cmd[r].rpc = "answered" /\ cmd[r].reply # Missing
  => store[Primary(r, k)][k] # Missing

RegularInv == Orderly => \A k \in Key :
  /\ \A w \in Users : OnlyWriter(w) => Exact(w, k)
  /\ \A r \in Users : Current(r, k) /\ Honest(r, k) /\ Evident(r, k)

\* An orderly world: no server loses what it is asked, one user writes, and all users reach
\* the same stores.
LEMMA OrderlyFacts ==
  ASSUME BaseInv, Orderly, NEW r \in Users
  PROVE  /\ r \in Client /\ env.mayRestart = FALSE /\ ~Contended /\ ~Estranged
         /\ \A n \in Node : Prompt(n)
         /\ \E w \in Users : OnlyWriter(w)
         /\ \A w \in Users, n \in Node : Reach(w, n) <=> Reach(r, n)
         /\ Alone => Loner /\ Users = {r}
<1> USE DEF BaseInv, CommonInv
<1>1. Users \subseteq Client /\ IsFiniteSet(Users)
  BY UsersAreClients
<1>2. env.mayRestart = FALSE
  BY EnvironmentFacts DEF Orderly, NodesReturn, TypeOK, Environment
<1>3. \A n \in Node : Prompt(n)
  BY <1>2 DEF Prompt, Orderly
<1>4. \E w \in Users : OnlyWriter(w)
  <2> DEFINE W == {o.client : o \in {x \in env.load : x.op \in Writes}}
  <2>1. W \subseteq Users /\ IsFiniteSet(W) /\ Cardinality(W) <= 1
    <3>1. W \subseteq Users
      BY DEF Users
    <3> QED
      BY <1>1, <3>1, FS_Subset DEF Orderly, OneWriter
  <2>2. CASE W = {}
    BY <2>2 DEF OnlyWriter
  <2>3. CASE W # {}
    <3>1. PICK w : w \in W
      BY <2>3
    <3>2. ASSUME NEW x \in W, x # w PROVE FALSE
      <4>1. Cardinality({w, x}) = 2
        BY <3>2, TwoElements
      <4>2. {w, x} \subseteq W /\ Cardinality(W) \in Nat
        BY <2>1, <3>1, FS_CardinalityType
      <4>3. 2 <= Cardinality(W)
        BY <2>1, <4>1, <4>2, FS_Subset
      <4> QED
        BY <2>1, <4>2, <4>3
    <3>3. OnlyWriter(w)
      BY <3>2 DEF OnlyWriter
    <3> QED
      BY <2>1, <3>1, <3>3
  <2> QED
    BY <2>2, <2>3
<1>5. ASSUME NEW w \in Users, NEW v \in Users, NEW n \in Node, Reach(w, n) PROVE Reach(v, n)
  <2>1. CASE n \in up
    BY <2>1 DEF Reach
  <2>2. CASE n \notin up
    <3>1. n = env.local[w] /\ n \in env.mayCrash /\ n \in Nat
      BY <1>5, <2>2, KVAssumption DEF Reach, WorldInv
    <3>2. n = First
      BY <3>1 DEF Orderly, Estranged
    <3> QED
      BY <1>5, <3>1, <3>2 DEF Orderly, Estranged
  <2> QED
    BY <2>1, <2>2
<1>6. Alone => Loner /\ Users = {r}
  BY LonerFacts DEF Loner, Orderly
<1> QED
  BY <1>1, <1>2, <1>3, <1>4, <1>5, <1>6 DEF Orderly

\* Users that use the ring they were configured with place the keys alike; one that does
\* not is alone, and has the node that stays for the primary of its keys.
LEMMA RingFacts ==
  ASSUME BaseInv, Orderly, NEW r \in Users, NEW k \in Key
  PROVE  /\ view[r] = env.configured =>
              \A w \in Users : /\ view[w] = env.configured
                               /\ Primary(w, k) = Primary(r, k) /\ Buddy(w, k) = Buddy(r, k)
         /\ view[r] # env.configured =>
              /\ Alone /\ Legible
              /\ Primary(r, k) = Keeper(k)
<1> USE DEF BaseInv, CommonInv
<1>1. /\ Users \subseteq Client
      /\ \A c \in Client : /\ view[c] \in {env.configured} \cup env.answers
                           /\ place[c] = Placement[view[c]]
  BY UsersAreClients DEF WorldInv, TypeOK
<1>2. ASSUME view[r] = env.configured, NEW w \in Users
      PROVE  view[w] = env.configured /\ Primary(w, k) = Primary(r, k) /\ Buddy(w, k) = Buddy(r, k)
  <2>1. CASE env.answers = {}
    BY <1>1, <1>2, <2>1 DEF Primary, Buddy
  <2>2. CASE Alone
    <3>1. w = r
      BY <2>2, OrderlyFacts
    <3> QED
      BY <1>2, <3>1
  <2> QED
    BY <2>1, <2>2 DEF Orderly
<1>3. ASSUME view[r] # env.configured
      PROVE  Alone /\ Legible /\ Primary(r, k) = Keeper(k)
  <2>1. r \in Client /\ view[r] \in env.answers /\ Alone /\ Legible
    BY <1>1, <1>3 DEF Orderly
  <2>2. view[r] \subseteq env.configured
    BY <2>1 DEF Orderly, NodesJoin
  <2>3. /\ Mover \in Node /\ \A live \in env.answers : live \ {Mover} = env.configured \ {Mover}
    BY Zenon DEF Orderly, OneComesAndGoes, Mover
  <2>4. view[r] = env.configured \ {Mover}
    <3>1. view[r] \ {Mover} = env.configured \ {Mover}
      BY <2>1, <2>3
    <3> HIDE DEF Mover
    <3> QED
      BY <1>3, <2>2, <3>1
  <2> QED
    BY <1>1, <2>1, <2>4 DEF Primary, Keeper
<1> QED
  BY <1>2, <1>3

\* Only the one writer writes.
LEMMA OthersRead ==
  ASSUME TypeOK, OrdersInv, NEW w, OnlyWriter(w), NEW d \in Client, ~Idle(d), d # w
  PROVE  cmd[d].op = "get"
<1>1. cmd[d].op \in Op
  BY CommandFacts DEF Cmd
<1>2. cmd[d].op \notin Writes
  BY DEF OrdersInv, OnlyWriter
<1> QED
  BY <1>1, <1>2 DEF Op

\* What is executed while it is awaited is executed on a store that the client reaches.
LEMMA ServedReach ==
  ASSUME CommonInv, ~Estranged, NEW d \in Users, NEW m \in Node, Served(d, m)
  PROVE  Reach(d, m) /\ Target(d) = m /\ (Reach(d, m))'
<1> USE DEF CommonInv
<1>1. d \in Client /\ Target(d) \in Node /\ Reached(d) = m /\ UNCHANGED <<env, up>>
  BY UsersAreClients, ServedFacts
<1>2. Target(d) = m
  BY <1>1, LocalTarget DEF Reached
<1>3. Reach(d, m)
  <2>1. CASE Direct(d)
    BY <1>2, <2>1 DEF Direct, AtLocalNode, Reach
  <2>2. CASE Handle(d, m)
    BY <2>2 DEF Handle, Reach
  <2> QED
    BY <2>1, <2>2 DEF Served
<1> QED
  BY <1>1, <1>2, <1>3 DEF Reach

\* A get() changes nothing of a key: what it migrates is there.
LEMMA ReadsChangeNothing ==
  ASSUME CommonInv, ~Estranged, NEW d \in Users, NEW m \in Node, Served(d, m), cmd[d].op = "get",
         NEW k \in Key, Evident(d, k)
  PROVE  \A n \in Node : store'[n][k] = store[n][k]
<1> USE DEF CommonInv
<1>1. /\ d \in Client /\ ~Idle(d) /\ RequestOf(d) \in Request /\ RequestOf(d).key = cmd[d].key
      /\ store' = [store EXCEPT ![m] = Do(store[m], RequestOf(d))]
  BY UsersAreClients, ServedFacts
<1>2. store \in [Node -> [Key -> Held]]
  BY DEF TypeOK, Held
<1>3. CASE RequestOf(d).kind = "fetch" \/ RequestOf(d).key # k
  BY <1>1, <1>2, <1>3, DoFacts
<1>4. CASE RequestOf(d).kind # "fetch" /\ RequestOf(d).key = k
  <2>1. Reading(d, k) /\ cmd[d].at = "migrate" /\ RequestOf(d).kind = "insert"
    BY <1>1, <1>4 DEF RequestOf, Reading
  <2>2. Primary(d, k) = m /\ Reach(d, m)
    BY <2>1, ServedReach DEF Target, Reading
  <2>3. store[m][k] # Missing
    BY <2>1, <2>2 DEF Evident
  <2>4. Do(store[m], RequestOf(d))[k] = store[m][k]
    BY <1>2, <1>4, <2>1, <2>3 DEF Do, Map!After
  <2> QED
    BY <1>1, <1>2, <2>4
<1> QED
  BY <1>3, <1>4

\* What a write makes of a key depends on that key.
LEMMA WithSame ==
  ASSUME NEW m \in [Key -> Held], NEW x \in [Key -> Held], NEW k \in Key, x[k] = m[k], NEW op, NEW v
  PROVE  Map!After(x, op, k, v)[k] = Map!After(m, op, k, v)[k]
BY DEF Map!After

\* A write in progress stays the same.
LEMMA WriteStays ==
  ASSUME CommonInv, [Next]_vars, NEW w \in Client, ~Idle(w), ~Idle(w)', cmd[w].op # "get"
  PROVE  cmd'[w].op = cmd[w].op /\ cmd'[w].key = cmd[w].key /\ cmd'[w].val = cmd[w].val
<1> USE DEF CommonInv
<1>1. ASSUME NEW d \in Client, GoesOn(d) PROVE cmd'[w].val = cmd[w].val
  BY <1>1, ReadContinues, WriteEnds
<1>2. ASSUME NEW d \in Client, NEW n \in Node, Served(d, n) PROVE cmd'[w].val = cmd[w].val
  BY <1>2, ServedFacts
<1>3. ASSUME NEW d \in Client, NEW op \in Op, NEW k \in Key, NEW v \in Held, Begin(d, op, k, v)
      PROVE  cmd'[w].val = cmd[w].val
  BY <1>3, BeginFacts
<1>4. ASSUME NEW d \in Client, NEW n \in Node, Handle(d, n), ~Awaited(d, n) PROVE cmd'[w].val = cmd[w].val
  BY <1>4, HandleFacts
<1>5. ASSUME NEW d \in Client, Send(d) PROVE cmd'[w].val = cmd[w].val
  BY <1>5, SendFacts
<1> QED
  BY <1>1, <1>2, <1>3, <1>4, <1>5, Deeds, OtherFacts, FreshGrows DEF vars

\* Exact is inductive.
LEMMA ExactStep ==
  ASSUME BaseInv, OrdersInv, Orderly, [Next]_vars, NEW w \in Users, OnlyWriter(w), NEW k \in Key,
         Exact(w, k), \A r \in Users : Evident(r, k)
  PROVE  Exact(w, k)'
<1> USE DEF BaseInv, CommonInv
<1>0. /\ w \in Client /\ env' = env /\ env.mayRestart = FALSE /\ ~Estranged
      /\ \A n \in Node : Prompt(n)
      /\ OneComesAndGoes /\ ~NodesReturn
  BY OrderlyFacts, EnvironmentStays DEF Orderly
<1>r. PICK R \in Node : R = Keeper(k)
  BY <1>0, KeeperFacts
<1>1. Keeper(k)' = R
  BY <1>0, <1>r, KeeperStays
<1> SUFFICES ASSUME NEW n \in Node, Sure(w, n, k)' PROVE store'[n][k] = Told(w, n, k)'
  BY DEF Exact
<1>2. store \in [Node -> [Key -> Held]] /\ expect \in [Key -> Held]
  BY DEF TypeOK, Held
<1>3. ASSUME place'[w] = place[w], view'[w] = view[w], Reach(w, n)' => Reach(w, n)
      PROVE  store[n][k] = Told(w, n, k)
  <2>1. Sure(w, n, k)
    BY <1>0, <1>1, <1>3, <1>r DEF Sure, Primary, Buddy
  <2> QED
    BY <2>1 DEF Exact
<1>4. ASSUME UNCHANGED <<up, store, expect>>, view'[w] = view[w], place'[w] = place[w],
             \/ \E op \in Op, l \in Key, v \in Held : Begin(w, op, l, v)
             \/ Send(w)
             \/ cmd'[w] = cmd[w]
      PROVE  store'[n][k] = Told(w, n, k)'
  <2>1. Told(w, n, k)' = Told(w, n, k)
    BY <1>0, <1>4, ToldSame
  <2> QED
    BY <1>0, <1>3, <1>4, <2>1 DEF Reach
<1>5. ASSUME NEW d \in Client, NEW op \in Op, NEW l \in Key, NEW v \in Held, Begin(d, op, l, v)
      PROVE  store'[n][k] = Told(w, n, k)'
  BY <1>0, <1>4, <1>5, BeginFacts
<1>6. ASSUME NEW d \in Client, Send(d) PROVE store'[n][k] = Told(w, n, k)'
  BY <1>0, <1>4, <1>6, SendFacts
<1>7. ASSUME NEW d \in Client, NEW m \in Node, Served(d, m) PROVE store'[n][k] = Told(w, n, k)'
  <2>1. /\ ~Idle(d) /\ RequestOf(d) \in Request /\ RequestOf(d).key = cmd[d].key
        /\ store' = [store EXCEPT ![m] = Do(store[m], RequestOf(d))]
        /\ \A e \in Client \ {d} : cmd'[e] = cmd[e]
        /\ UNCHANGED <<env, up, view, place, expect>>
    BY <1>7, ServedFacts
  <2>2. d \in Users
    BY <2>1, ActorsAreUsers
  <2>3. store[n][k] = Told(w, n, k)
    BY <1>3, <2>1 DEF Reach
  <2>4. ASSUME cmd[d].op = "get" PROVE store'[n][k] = store[n][k]
    BY <1>0, <1>7, <2>2, <2>4, ReadsChangeNothing
  <2>5. CASE d # w
    <3>1. Told(w, n, k)' = Told(w, n, k)
      BY <1>0, <2>1, <2>5, ToldSame
    <3>2. cmd[d].op = "get"
      BY <2>1, <2>5, OthersRead
    <3> QED
      BY <2>3, <2>4, <3>1, <3>2
  <2>6. CASE d = w /\ n # m
    <3>1. Told(w, n, k)' = Told(w, n, k)
      BY <1>0, <1>7, <2>6, ToldServed
    <3> QED
      BY <1>2, <2>1, <2>3, <2>6, <3>1
  <2>7. CASE d = w /\ n = m
    <3>1. /\ Told(w, m, k) = expect[k]
          /\ Told(w, m, k)' = IF Writing(w, k) THEN Do(expect, RequestOf(w))[k] ELSE expect[k]
      BY <1>0, <1>7, <2>7, ToldServed
    <3>2. store'[m] = Do(store[m], RequestOf(w)) /\ store[m] \in [Key -> Held] /\ store[m][k] = expect[k]
      BY <1>2, <2>1, <2>3, <2>7, <3>1
    <3>3. CASE cmd[w].op = "get"
      BY <2>3, <2>4, <2>7, <3>1, <3>3 DEF Writing
    <3>4. CASE cmd[w].op # "get" /\ cmd[w].key = k
      BY <1>2, <2>1, <2>7, <3>1, <3>2, <3>4, DoFacts DEF Writing
    <3>5. CASE cmd[w].key # k
      BY <2>1, <2>7, <3>1, <3>2, <3>5, DoFacts DEF Writing
    <3> QED
      BY <3>3, <3>4, <3>5
  <2> QED
    BY <2>5, <2>6, <2>7
<1>8. ASSUME NEW d \in Client, NEW m \in Node, Handle(d, m), ~Awaited(d, m) PROVE FALSE
  BY <1>0, <1>8, PromptFacts
<1>9. ASSUME NEW d \in Client, GoesOn(d) PROVE store'[n][k] = Told(w, n, k)'
  <2>1. UNCHANGED <<env, up, store, view, place>> /\ \A e \in Client \ {d} : cmd'[e] = cmd[e]
    BY <1>9, ReadContinues, WriteEnds
  <2>2. ~Idle(d)
    BY <1>9, GoesOnFacts
  <2>3. CASE d # w
    <3>1. expect' = expect
      BY <1>9, <2>2, <2>3, OthersRead, ReadContinues
    <3> QED
      BY <1>0, <1>4, <2>1, <2>3, <3>1
  <2>4. CASE d = w
    <3>1. n \in {Primary(w, k), Buddy(w, k)} /\ Reach(w, n)
      BY <1>0, <2>1 DEF Sure, Primary, Buddy, Reach
    <3>2. Target(w) = n => cmd[w].rpc = "answered"
      <4>1. CASE n \in up
        BY <1>0, <1>9, <2>4, <4>1, PromptFacts
      <4>2. CASE n \notin up
        <5>1. n = env.local[w]
          BY <3>1, <4>2 DEF Reach
        <5> QED
          BY <1>9, <2>4, <5>1 DEF GoesOn, Answer, TimeOut, AtLocalNode
      <4> QED
        BY <4>1, <4>2
    <3>3. Told(w, n, k)' = Told(w, n, k)
      BY <1>0, <1>9, <2>4, <3>1, <3>2, ToldGoesOn
    <3> QED
      BY <1>0, <1>3, <2>1, <3>3 DEF Reach
  <2> QED
    BY <2>3, <2>4
<1>10. ASSUME NEW d \in Client, Refresh(d) PROVE store'[n][k] = Told(w, n, k)'
  <2>1. CASE d # w
    BY <1>0, <1>4, <1>10, <2>1, OtherFacts
  <2>2. CASE d = w
    <3>1. /\ Idle(w) /\ UNCHANGED <<env, up, store, cmd, expect>>
          /\ view'[w] = news[w] /\ place'[w] = Placement[view'[w]] /\ news[w] # {}
          /\ place[w] = Placement[view[w]]
      BY <1>0, <1>10, <2>2, OtherFacts, MembershipFacts DEF TypeOK
    <3>2. Told(w, n, k)' = Told(w, n, k)
      BY <1>0, <3>1, ToldSame
    <3>3. view'[w] = view[w] \/ view[w] = env.configured
      BY <1>0, <3>1, OneAnswer DEF WorldInv
    <3>4. CASE view'[w] = view[w]
      BY <1>3, <3>1, <3>2, <3>4 DEF Reach
    <3>5. CASE view'[w] # view[w]
      <4>1. n = R /\ Reach(w, n)
        BY <1>0, <1>1, <3>1, <3>3, <3>5 DEF Sure, Reach
      <4>2. R \in {Primary(w, k), Buddy(w, k)}
        BY <1>0, <1>r, KeeperFacts
      <4>3. Sure(w, n, k)
        BY <1>r, <4>1, <4>2 DEF Sure
      <4> QED
        BY <3>1, <3>2, <4>3 DEF Exact
    <3> QED
      BY <3>4, <3>5
  <2> QED
    BY <2>1, <2>2
<1>11. ASSUME NEW d \in Client, NEW live \in SUBSET Node, Ask(d, live) PROVE store'[n][k] = Told(w, n, k)'
  BY <1>0, <1>4, <1>11, OtherFacts
<1>12. ASSUME NEW m \in Node, Crash(m) PROVE store'[n][k] = Told(w, n, k)'
  <2>1. up' = up \ {m} /\ UNCHANGED <<env, store, view, place, cmd, expect>>
    BY <1>12, OtherFacts
  <2>2. Told(w, n, k)' = Told(w, n, k)
    BY <1>0, <2>1, ToldSame
  <2> QED
    BY <1>3, <2>1, <2>2 DEF Reach
<1>13. ASSUME NEW m \in Node, Restart(m) PROVE FALSE
  BY <1>0, <1>13, MembershipFacts
<1>14. ASSUME UNCHANGED vars PROVE store'[n][k] = Told(w, n, k)'
  BY <1>0, <1>4, <1>14 DEF vars
<1> QED
  BY <1>5, <1>6, <1>7, <1>8, <1>9, <1>10, <1>11, <1>12, <1>13, <1>14, Deeds

\* Current is inductive.
LEMMA CurrentStep ==
  ASSUME BaseInv, OrdersInv, Orderly, [Next]_vars, NEW w \in Users, OnlyWriter(w), NEW r \in Users,
         NEW k \in Key, Current(r, k)
  PROVE  Current(r, k)'
<1> USE DEF BaseInv, CommonInv
<1>0. /\ r \in Client /\ w \in Client /\ env' = env /\ Users' = Users
      /\ Alone => Users = {r}
  BY OrderlyFacts, EnvironmentStays
<1>1. expect \in [Key -> Held] /\ expect' \in [Key -> Held]
  BY TypeStep DEF TypeOK, Held
<1> SUFFICES ASSUME Reading(r, k)'
             PROVE  /\ expect'[k] \in fresh'[r]
                    /\ \A e \in Client : Writing(e, k)' =>
                         Map!After(expect', cmd'[e].op, k, cmd'[e].val)[k] \in fresh'[r]
                    /\ Alone => fresh'[r] = {expect'[k]}
  BY <1>0 DEF Current, With, Map!After, Alone
<1>2. CASE Idle(r)
  <2>1. PICK op \in Op, l \in Key, v \in Held : Begin(r, op, l, v)
    BY <1>0, <1>2, Beginning DEF Reading
  <2>2. Begin(r, "get", k, v) /\ "get" \in Op
    BY <1>0, <2>1, BeginFacts DEF Reading
  <2>3. fresh'[r] = {expect[k]} \cup {With(cmd[e].op, k, cmd[e].val) :
                                         e \in {x \in Client : ~Idle(x) /\ cmd[x].key = k}}
    BY <1>0, <2>2, FreshStarts
  <2>4. expect' = expect /\ \A d \in Client \ {r} : cmd'[d] = cmd[d]
    BY <1>0, <2>2, BeginFacts
  <2>5. ASSUME NEW e \in Client, Writing(e, k)'
        PROVE  Map!After(expect', cmd'[e].op, k, cmd'[e].val)[k] \in fresh'[r]
    <3>1. e # r
      BY <2>5 DEF Writing, Reading
    <3>2. cmd'[e] = cmd[e] /\ ~Idle(e) /\ cmd[e].key = k
      BY <2>4, <2>5, <3>1 DEF Writing, Idle
    <3> QED
      BY <2>3, <2>4, <3>2 DEF With
  <2>6. Alone => {x \in Client : ~Idle(x) /\ cmd[x].key = k} = {}
    BY <1>0, <1>2, ActorsAreUsers
  <2> QED
    BY <2>3, <2>4, <2>5, <2>6
<1>3. CASE ~Idle(r)
  <2>1. ~Idle(r)' /\ Reading(r, k)
    BY <1>0, <1>3, FreshGrows DEF Reading
  <2>2. fresh[r] \subseteq fresh'[r]
    BY <1>0, <1>3, <2>1, FreshGrows
  <2>3. /\ expect[k] \in fresh[r]
        /\ \A e \in Client : Writing(e, k) => With(cmd[e].op, k, cmd[e].val) \in fresh[r]
        /\ Alone => fresh[r] = {expect[k]}
    BY <2>1 DEF Current
  <2>4. ASSUME expect'[k] # expect[k]
        PROVE  /\ expect'[k] = With(cmd[w].op, k, cmd[w].val) /\ Writing(w, k) /\ Idle(w)'
               /\ w # r
    <3>1. PICK d \in Client :
            /\ ~Idle(d) /\ Idle(d)' /\ cmd[d].op \in Writes /\ cmd[d].key \in Key
            /\ expect' = Map!After(expect, cmd[d].op, cmd[d].key, cmd[d].val)
      BY <2>4, ExpectMoves
    <3>2. cmd[d].key = k
      BY <1>1, <2>4, <3>1 DEF Map!After
    <3>3. cmd[d].op # "get"
      BY <3>1 DEF Writes
    <3>4. d = w
      BY <3>1, <3>3, OthersRead
    <3> QED
      BY <2>1, <3>1, <3>2, <3>3, <3>4 DEF With, Writing, Reading
  <2>5. ASSUME NEW e \in Client, Writing(e, k)'
        PROVE  Map!After(expect', cmd'[e].op, k, cmd'[e].val)[k] \in fresh'[r]
    <3>1. e # r
      BY <2>1, <2>5, <1>3, <1>0, FreshGrows DEF Writing, Reading
    <3>2. CASE Idle(e)
      <4>1. PICK op \in Op, l \in Key, v \in Held : Begin(e, op, l, v)
        BY <2>5, <3>2, Beginning DEF Writing
      <4>2. cmd'[e].op = op /\ cmd'[e].key = l /\ cmd'[e].val = v /\ expect' = expect
        BY <4>1, BeginFacts
      <4>3. fresh'[r] = fresh[r] \cup {With(op, k, v)}
        <5>1. Begin(e, op, k, v) /\ op # "get"
          BY <2>5, <4>1, <4>2 DEF Writing
        <5> QED
          BY <1>0, <2>1, <3>1, <5>1 DEF Begin, StartsFresh, Reading
      <4> QED
        BY <4>2, <4>3 DEF With
    <3>3. CASE ~Idle(e)
      <4>1. /\ cmd'[e].op = cmd[e].op /\ cmd'[e].key = cmd[e].key
            /\ cmd[e].op # "get" => cmd'[e].val = cmd[e].val
        BY <2>5, <3>3, FreshGrows, WriteStays DEF Writing
      <4>2. Writing(e, k) /\ cmd'[e].val = cmd[e].val
        BY <2>5, <3>3, <4>1 DEF Writing
      <4>3. expect'[k] = expect[k]
        <5>1. e = w
          BY <3>3, <4>2, OthersRead DEF Writing
        <5> QED
          BY <2>4, <2>5, <5>1 DEF Writing
      <4>4. Map!After(expect', cmd'[e].op, k, cmd'[e].val)[k] = With(cmd[e].op, k, cmd[e].val)
        BY <1>1, <4>1, <4>2, <4>3, WithSame DEF With
      <4> QED
        BY <2>2, <2>3, <4>2, <4>4
    <3> QED
      BY <3>2, <3>3
  <2>6. ASSUME Alone PROVE fresh'[r] = {expect'[k]}
    <3>1. expect'[k] = expect[k]
      BY <1>0, <2>4, <2>6
    <3>2. ASSUME NEW d \in Client \ {r}, NEW op, NEW v, Begin(d, op, cmd[r].key, v) PROVE FALSE
      <4>1. d \in Users
        BY <3>2 DEF Begin, Users
      <4> QED
        BY <1>0, <2>6, <4>1
    <3>3. fresh'[r] = fresh[r]
      BY <1>0, <1>3, <2>1, <3>2, FreshGrows
    <3> QED
      BY <2>3, <2>6, <3>1, <3>3
  <2> QED
    BY <1>0, <2>2, <2>3, <2>4, <2>5, <2>6
<1> QED
  BY <1>2, <1>3

\* A client whose ring has shrunk asks a buddy only for a key that is not there.
LEMMA ShrunkMisses ==
  ASSUME BaseInv, ExpectLegible, Orderly, NEW r \in Users, NEW k \in Key, Current(r, k), Honest(r, k),
         Reading(r, k), view[r] # env.configured, cmd[r].at = "buddy"
  PROVE  expect[k] = Missing
<1> USE DEF BaseInv, CommonInv
<1>1. Alone /\ Legible /\ Primary(r, k) = Keeper(k)
  BY RingFacts
<1>2. Keeper(k) \notin env.mayCrash
  BY KeeperFacts DEF Orderly
<1>3. \E u \in fresh[r] : ~Readable(u)
  BY <1>1, <1>2 DEF Honest
<1>4. ~Readable(expect[k])
  BY <1>1, <1>3 DEF Current
<1>5. expect[k] \notin env.missLike /\ expect[k] \in Held
  BY <1>1 DEF ExpectLegible, TypeOK, Held
<1> QED
  BY <1>4, <1>5 DEF Readable, Held

\* What a get() is told is a value that it may return.
LEMMA ReadsFresh ==
  ASSUME BaseInv, OrdersInv, ExpectLegible, Orderly, [Next]_vars, MissInv', NEW w \in Users,
         OnlyWriter(w), NEW r \in Users, NEW k \in Key, Exact(w, k), Current(r, k), Honest(r, k),
         Reading(r, k), NEW m \in Node, Served(r, m), cmd[r].at # "migrate"
  PROVE  /\ cmd'[r].reply = store[m][k] /\ store[m][k] \in fresh[r]
         /\ view[r] # env.configured /\ cmd[r].at = "buddy" => store[m][k] = Missing
<1> USE DEF BaseInv, CommonInv
<1>0. /\ r \in Client /\ w \in Client /\ env' = env /\ Users' = Users /\ ~Estranged
      /\ \A n \in Node : Reach(w, n) <=> Reach(r, n)
      /\ Alone => Loner /\ Users = {r}
  BY OrderlyFacts, EnvironmentStays
<1>1. /\ ~Idle(r)' /\ cmd'[r].rpc = "answered" /\ cmd'[r].at = cmd[r].at /\ cmd'[r].op = cmd[r].op
      /\ cmd'[r].key = cmd[r].key /\ cmd'[r].reply = store[m][k] /\ expect' = expect
  BY <1>0, ServedFacts DEF RequestOf, Reading
<1>2. Reach(w, m) /\ Target(r) = m
  BY <1>0, ServedReach
<1>3. ASSUME Sure(w, m, k) PROVE store[m][k] \in fresh[r]
  <2>1. store[m][k] = Told(w, m, k)
    BY <1>3 DEF Exact
  <2> QED
    BY <1>0, <2>1 DEF Told, Current
<1>4. CASE view[r] = env.configured
  <2>1. m \in {Primary(w, k), Buddy(w, k)} /\ view[w] = env.configured
    BY <1>2, <1>4, RingFacts DEF Target, Reading
  <2> QED
    BY <1>1, <1>2, <1>3, <1>4, <2>1 DEF Sure
<1>5. CASE view[r] # env.configured
  <2>1. Alone /\ Primary(r, k) = Keeper(k) /\ w = r
    BY <1>0, <1>5, RingFacts
  <2>2. CASE cmd[r].at = "buddy"
    <3>1. expect[k] = Missing
      BY <1>5, <2>2, ShrunkMisses
    <3>2. Loner'
      BY <1>0, <2>1 DEF Loner, Alone, NodesReturn, Estranged
    <3>3. SeesMissing(r, k)'
      BY <1>0, <3>2 DEF MissInv
    <3>4. Reading(r, k)'
      BY <1>1 DEF Reading
    <3>5. store[m][k] = Missing
      BY <1>1, <3>1, <3>3, <3>4 DEF SeesMissing
    <3> QED
      BY <1>1, <2>2, <3>1, <3>5 DEF Current
  <2>3. CASE cmd[r].at # "buddy"
    <3>1. m = Primary(r, k)
      BY <1>2, <2>3 DEF Target, Reading
    <3> QED
      BY <1>1, <1>2, <1>3, <2>1, <2>3, <3>1 DEF Sure
  <2> QED
    BY <2>2, <2>3
<1> QED
  BY <1>4, <1>5

\* Honest is inductive.
LEMMA HonestStep ==
  ASSUME BaseInv, OrdersInv, ExpectLegible, Orderly, [Next]_vars, MissInv', NEW w \in Users,
         OnlyWriter(w), NEW r \in Users, NEW k \in Key, Exact(w, k), Current(r, k), Honest(r, k)
  PROVE  Honest(r, k)'
<1> USE DEF BaseInv, CommonInv
<1>0. r \in Client /\ env' = env /\ \A n \in Node : Prompt(n)
  BY OrderlyFacts, EnvironmentStays
<1> SUFFICES ASSUME Reading(r, k)'
             PROVE  /\ cmd'[r].at # "migrate" /\ cmd'[r].rpc = "answered" => cmd'[r].reply \in fresh'[r]
                    /\ cmd'[r].at = "migrate" => cmd'[r].val \in fresh'[r] /\ Readable(cmd'[r].val)
                    /\ cmd'[r].at = "buddy" => Primary(r, k)' \in env.mayCrash
                                               \/ \E u \in fresh'[r] : ~Readable(u)
  BY <1>0 DEF Honest, Readable
<1>1. CASE Idle(r)
  BY <1>0, <1>1, Beginning, BeginFacts DEF Reading
<1>2. CASE ~Idle(r)
  <2>1. ~Idle(r)' /\ Reading(r, k) /\ cmd[r].op = "get" /\ cmd[r].key = k
    BY <1>0, <1>2, FreshGrows DEF Reading
  <2>2. fresh[r] \subseteq fresh'[r] /\ Primary(r, k)' = Primary(r, k)
    <3>1. place'[r] = place[r]
      BY <1>0, <1>2, Moves
    <3>2. fresh[r] \subseteq fresh'[r]
      BY <1>0, <1>2, <2>1, FreshGrows
    <3> QED
      BY <3>1, <3>2 DEF Primary
  <2>3. /\ cmd[r].at # "migrate" /\ cmd[r].rpc = "answered" => cmd[r].reply \in fresh[r]
        /\ cmd[r].at = "migrate" => cmd[r].val \in fresh[r] /\ Readable(cmd[r].val)
        /\ cmd[r].at = "buddy" => Primary(r, k) \in env.mayCrash \/ \E u \in fresh[r] : ~Readable(u)
    BY <2>1 DEF Honest
  <2>4. CASE cmd'[r] = cmd[r]
    BY <2>2, <2>3, <2>4
  <2>5. CASE Send(r)
    BY <1>0, <2>2, <2>3, <2>5, SendFacts
  <2>6. ASSUME NEW m \in Node, Served(r, m)
        PROVE  /\ cmd'[r].at = cmd[r].at /\ cmd'[r].val = cmd[r].val
               /\ cmd'[r].at # "migrate" => cmd'[r].reply \in fresh[r]
    BY <1>0, <2>1, <2>6, ServedFacts, ReadsFresh
  <2>7. CASE GoesOn(r) /\ cmd'[r] # cmd[r]
    <3>1. PICK reply \in Held \cup {Failed} :
            /\ \/ reply = Failed /\ TimeOut(r)
               \/ cmd[r].rpc = "answered" /\ reply = cmd[r].reply
            /\ cmd'[r].rpc = "none"
            /\ \/ cmd[r].at = "primary" /\ IsMissOrError(reply) /\ cmd'[r].at = "buddy"
               \/ /\ cmd[r].at = "buddy" /\ ~IsMissOrError(reply)
                  /\ cmd'[r].at = "migrate" /\ cmd'[r].val = reply
      BY <1>0, <2>1, <2>7, ReadContinues
    <3>2. cmd[r].reply \in Held /\ Target(r) \in Node
      BY <1>0, <1>2, CommandFacts DEF Cmd, Held
    <3>3. CASE cmd'[r].at = "buddy"
      <4>1. cmd[r].at = "primary" /\ IsMissOrError(reply)
        BY <3>1, <3>3
      <4>2. CASE cmd[r].rpc = "answered" /\ reply = cmd[r].reply
        <5>1. cmd[r].reply \in fresh[r] /\ ~Readable(cmd[r].reply)
          BY <2>3, <3>2, <4>1, <4>2, KVAssumption DEF IsMissOrError, Readable, Held
        <5> QED
          BY <2>2, <3>1, <3>3, <5>1
      <4>3. CASE TimeOut(r)
        <5>1. Target(r) = Primary(r, k)
          BY <2>1, <4>1 DEF Target
        <5>2. Primary(r, k) \notin up
          BY <1>0, <2>7, <3>2, <4>3, <5>1, PromptFacts
        <5>3. Primary(r, k) \in env.mayCrash
          BY <3>2, <5>1, <5>2 DEF WorldInv
        <5> QED
          BY <2>2, <3>1, <3>3, <5>3
      <4> QED
        BY <3>1, <4>2, <4>3
    <3>4. CASE cmd'[r].at = "migrate"
      <4>1. cmd[r].at = "buddy" /\ ~IsMissOrError(reply) /\ cmd'[r].val = reply
        BY <3>1, <3>4
      <4>2. cmd[r].rpc = "answered" /\ reply = cmd[r].reply
        BY <3>1, <4>1 DEF IsMissOrError
      <4>3. Readable(reply) /\ reply \in fresh[r]
        BY <2>3, <3>2, <4>1, <4>2 DEF Readable, IsMissOrError, Held
      <4> QED
        BY <2>2, <3>4, <4>1, <4>3
    <3> QED
      BY <3>1, <3>3, <3>4
  <2> QED
    BY <1>0, <1>2, <2>2, <2>3, <2>4, <2>5, <2>6, <2>7, ReadMoves
<1> QED
  BY <1>1, <1>2

\* A key that nobody deletes is not told to the buddy before the primary.
LEMMA ToldInTurn ==
  ASSUME CommonInv, KeepsKeys, NEW w \in Client, NEW k \in Key, Buddy(w, k) # Primary(w, k),
         Told(w, Buddy(w, k), k) # Missing
  PROVE  Told(w, Primary(w, k), k) # Missing
<1> USE DEF CommonInv
<1>1. CASE ~Writing(w, k)
  BY <1>1 DEF Told
<1>2. CASE Writing(w, k)
  <2>1. /\ cmd[w] \in Cmd /\ cmd[w].op \in Writes \ {"delete"} /\ cmd[w].val \in Value
        /\ cmd[w].key = k /\ cmd[w].at \in {"primary", "buddy"}
    BY <1>2, CommandFacts DEF Writing, KeepsKeys, Cmd, Op, Writes, CommandsMakeSense
  <2>2. Acked(w, Buddy(w, k)) => Acked(w, Primary(w, k))
    BY <2>1 DEF Acked
  <2>3. expect[k] # Missing => With(cmd[w].op, k, cmd[w].val) # Missing
    <3>1. expect \in [Key -> Held]
      BY DEF TypeOK, Held
    <3> QED
      BY <2>1, <3>1, AfterKeeps DEF With
  <2> QED
    BY <1>2, <2>2, <2>3 DEF Told
<1> QED
  BY <1>1, <1>2

\* Evident is inductive.
LEMMA EvidentStep ==
  ASSUME BaseInv, OrdersInv, ExpectLegible, Undeleted => KeepsKeys, Orderly, [Next]_vars, MissInv',
         NEW w \in Users, OnlyWriter(w), NEW r \in Users, NEW k \in Key,
         Exact(w, k), Current(r, k), Honest(r, k), \A d \in Users : Evident(d, k)
  PROVE  Evident(r, k)'
<1> USE DEF BaseInv, CommonInv
<1>0. /\ r \in Client /\ w \in Client /\ env' = env /\ ~Contended /\ ~Estranged
      /\ env.mayRestart = FALSE /\ \A n \in Node : Prompt(n) /\ (Reach(w, n) <=> Reach(r, n))
  BY OrderlyFacts, EnvironmentStays
<1> DEFINE Seen(c) == \/ c.at = "migrate"
                      \/ c.at = "buddy" /\ c.rpc = "answered" /\ c.reply # Missing
<1> SUFFICES ASSUME Reading(r, k)', Reach(r, Primary(r, k))', Seen(cmd'[r])
             PROVE  store'[Primary(r, k)'][k] # Missing
  BY DEF Evident
<1>1. ~Idle(r)
  <2> SUFFICES ASSUME Idle(r) PROVE FALSE
    OBVIOUS
  <2> QED
    BY <1>0, Beginning, BeginFacts DEF Reading
<1>2. /\ ~Idle(r)' /\ Reading(r, k) /\ cmd[r].op = "get" /\ cmd[r].key = k
      /\ Primary(r, k)' = Primary(r, k) /\ Buddy(r, k)' = Buddy(r, k)
      /\ Primary(r, k) \in Node /\ Buddy(r, k) \in Node
  <2>1. ~Idle(r)' /\ Reading(r, k) /\ cmd[r].op = "get" /\ cmd[r].key = k
    BY <1>0, <1>1, FreshGrows DEF Reading
  <2>2. place'[r] = place[r]
    BY <1>0, <1>1, Moves
  <2>3. Primary(r, k) \in Node /\ Buddy(r, k) \in Node
    BY <1>0, <1>1, <2>1, CommandFacts
  <2> QED
    BY <2>1, <2>2, <2>3 DEF Primary, Buddy
<1>3. store \in [Node -> [Key -> Held]]
  BY DEF TypeOK, Held
<1> DEFINE P == Primary(r, k)
           B == Buddy(r, k)
<1>4. Reach(r, P)
  <2>1. up' \subseteq up
    <3>1. \A n \in Node : ~Restart(n)
      BY <1>0, MembershipFacts
    <3>2. ASSUME NEW d \in Client, GoesOn(d) PROVE up' = up
      BY <3>2, ReadContinues, WriteEnds
    <3> QED
      BY <3>1, <3>2, Deeds, BeginFacts, SendFacts, ServedFacts, HandleFacts, OtherFacts DEF vars
  <2> QED
    BY <1>0, <1>2, <2>1 DEF Reach
<1>5. CASE Seen(cmd[r])
  <2>1. store[P][k] # Missing
    BY <1>2, <1>4, <1>5 DEF Evident
  <2>2. ASSUME NEW d \in Client, NEW m \in Node, Served(d, m) PROVE store'[P][k] # Missing
    <3>1. d \in Users
      BY <2>2, ServedFacts, ActorsAreUsers
    <3>2. CASE d = r
      BY <1>0, <1>2, <2>1, <2>2, <3>2, ReadsChangeNothing
    <3>3. CASE d # r /\ m = P
      BY <1>0, <2>1, <2>2, <3>1, <3>3, KeepsServed
    <3>4. CASE m # P
      BY <1>2, <1>3, <2>1, <2>2, <3>4, ServedFacts
    <3> QED
      BY <3>2, <3>3, <3>4
  <2>3. ASSUME store' = store PROVE store'[P][k] # Missing
    BY <2>1, <2>3
  <2>4. ASSUME NEW d \in Client, GoesOn(d) PROVE store' = store
    BY <2>4, ReadContinues, WriteEnds
  <2>5. ASSUME NEW d \in Client, NEW m \in Node, Handle(d, m), ~Awaited(d, m) PROVE FALSE
    BY <1>0, <2>5, PromptFacts
  <2>6. \A n \in Node : ~Restart(n)
    BY <1>0, MembershipFacts
  <2>7. store'[P][k] # Missing
    BY <2>2, <2>3, <2>4, <2>5, <2>6, Deeds, BeginFacts, SendFacts, OtherFacts DEF vars
  <2> QED
    BY <1>2, <2>7
<1>6. CASE ~Seen(cmd[r])
  <2>1. ~Send(r) /\ cmd'[r] # cmd[r]
    <3>1. Send(r) => cmd'[r].rpc = "sent" /\ cmd'[r].at = cmd[r].at
      BY <1>0, SendFacts
    <3> QED
      BY <1>6, <3>1
  <2>2. ~GoesOn(r)
    <3> SUFFICES ASSUME GoesOn(r) PROVE FALSE
      OBVIOUS
    <3>1. PICK reply \in Held \cup {Failed} :
            /\ reply = Failed \/ (cmd[r].rpc = "answered" /\ reply = cmd[r].reply)
            /\ cmd[r].at = "buddy" /\ ~IsMissOrError(reply)
      BY <1>0, <1>2, ReadContinues
    <3> QED
      BY <1>6, <3>1 DEF IsMissOrError
  <2>3. PICK m \in Node : Served(r, m)
    BY <1>0, <1>1, <2>1, <2>2, ReadMoves
  <2>4. /\ cmd'[r].at = cmd[r].at /\ cmd[r].at = "buddy" /\ cmd'[r].reply # Missing
        /\ Target(r) = m /\ m = B
    BY <1>0, <1>2, <1>6, <2>3, ServedFacts, ServedReach DEF Target
  <2>5. cmd'[r].reply = store[B][k] /\ view[r] = env.configured
    BY <1>2, <2>3, <2>4, ReadsFresh
  <2>6. /\ Primary(w, k) = P /\ Buddy(w, k) = B /\ view[w] = env.configured
        /\ B # P
    BY <1>0, <1>1, <1>2, <2>4, <2>5, RingFacts DEF CommandsMakeSense
  <2>7. Sure(w, P, k) /\ Sure(w, B, k)
    BY <1>0, <1>2, <1>4, <2>3, <2>4, <2>6, ServedReach DEF Sure
  <2>8. store[P][k] = Told(w, P, k) /\ store[B][k] = Told(w, B, k)
    BY <1>2, <2>7 DEF Exact
  <2>9. Told(w, P, k) # Missing
    <3>1. Told(w, B, k) # Missing
      BY <2>4, <2>5, <2>8
    <3>2. CASE w = r
      BY <1>2, <3>1, <3>2 DEF Told, Writing
    <3>3. CASE w # r
      <4>1. KeepsKeys
        BY <1>0, <3>3, SharedIsKept
      <4> HIDE DEF P, B
      <4>2. Told(w, Buddy(w, k), k) # Missing /\ Buddy(w, k) # Primary(w, k)
        BY <2>6, <3>1
      <4>3. Told(w, Primary(w, k), k) # Missing
        BY <1>0, <4>1, <4>2, ToldInTurn
      <4> QED
        BY <2>6, <4>3
    <3> QED
      BY <3>2, <3>3
  <2>10. store'[P][k] = store[P][k]
    BY <1>0, <1>2, <2>3, ReadsChangeNothing
  <2> QED
    BY <1>2, <2>8, <2>9, <2>10
<1> QED
  BY <1>5, <1>6

\* RegularInv is an invariant.
LEMMA RegularInvariance == Spec => []RegularInv
<1>1. Init => RegularInv
  <2> SUFFICES ASSUME Init PROVE RegularInv
    OBVIOUS
  <2>1. TypeOK /\ \A d \in Client : Idle(d)
    BY InitType DEF Init, Resting, Idle
  <2>2. \A k \in Key : expect[k] = Missing /\ \A n \in Node : store[n][k] = Missing
    BY DEF Init, Empty
  <2> QED
    BY <2>1, <2>2, UsersAreClients
    DEF RegularInv, Exact, Told, Writing, Current, Honest, Evident, Reading
<1>2. ASSUME BaseInv, OrdersInv, ExpectLegible, UnbornInv, RegularInv, [Next]_vars, MissInv'
      PROVE  RegularInv'
  <2>1. env' = env /\ Users' = Users
    BY <1>2, EnvironmentStays
  <2>2. /\ Orderly' <=> Orderly
        /\ \A w : OnlyWriter(w)' <=> OnlyWriter(w)
    BY <2>1 DEF Orderly, OneComesAndGoes, NodesJoin, NodesReturn, OneWriter, Contended, Estranged,
                Legible, Alone, OnlyWriter
  <2> SUFFICES ASSUME Orderly, NEW k \in Key
               PROVE  /\ \A w \in Users : OnlyWriter(w) => Exact(w, k)'
                      /\ \A r \in Users : Current(r, k)' /\ Honest(r, k)' /\ Evident(r, k)'
    BY <2>1, <2>2 DEF RegularInv
  <2>3. /\ \A w \in Users : OnlyWriter(w) => Exact(w, k)
        /\ \A r \in Users : Current(r, k) /\ Honest(r, k) /\ Evident(r, k)
        /\ Undeleted => KeepsKeys
    BY <1>2 DEF RegularInv, UnbornInv
  <2>4. ASSUME NEW w \in Users, OnlyWriter(w) PROVE Exact(w, k)'
    BY <1>2, <2>3, <2>4, ExactStep
  <2>5. ASSUME NEW r \in Users PROVE Current(r, k)' /\ Honest(r, k)' /\ Evident(r, k)'
    <3>1. PICK w \in Users : OnlyWriter(w)
      BY <1>2, <2>5, OrderlyFacts
    <3> QED
      BY <1>2, <2>3, <2>5, <3>1, CurrentStep, HonestStep, EvidentStep
  <2> QED
    BY <2>4, <2>5
<1> QED
  BY <1>1, <1>2, BaseInvariance, OrdersInvariance, ExpectInvariance, UnbornInvariance,
     MissInvariance, PTL DEF Spec

\* A get() returns what the last completed write left, or what a write that overlaps it
\* leaves, whichever replica answers and whichever has died meanwhile: the one that
\* answers has what the writer was told that it has, and what a get() has from the buddy
\* is at the primary, if that is there (KVDistributor get, isLocalNode).
THEOREM ReadRegular == Spec => ReadsAreRegular
<1>1. ASSUME BaseInv, RegularInv, [Next]_vars, NEW c \in Client, Returns(c, "get"), Orderly
      PROVE  cmd'[c].val \in {IF Readable(v) THEN v ELSE Failed : v \in fresh[c]}
  <2> USE <1>1 DEF BaseInv, CommonInv
  <2>1. ~Idle(c) /\ cmd[c].op = "get" /\ Idle(c)' /\ GoesOn(c)
    BY GetIsBusy, Returning DEF Returns
  <2> DEFINE k == cmd[c].key
  <2>2. /\ k \in Key /\ Reading(c, k) /\ c \in Users /\ cmd[c].reply \in Held
        /\ Target(c) \in Node
    BY <2>1, CommandFacts, ActorsAreUsers DEF Reading, Cmd, Held
  <2> HIDE DEF k
  <2>3. /\ cmd[c].at # "migrate" /\ cmd[c].rpc = "answered" => cmd[c].reply \in fresh[c]
        /\ cmd[c].at = "migrate" => cmd[c].val \in fresh[c] /\ Readable(cmd[c].val)
        /\ cmd[c].at = "buddy" => Primary(c, k) \in env.mayCrash \/ \E u \in fresh[c] : ~Readable(u)
    BY <2>2 DEF RegularInv, Honest
  <2> DEFINE May == {IF Readable(v) THEN v ELSE Failed : v \in fresh[c]}
  <2>4. \A v \in fresh[c] : (Readable(v) => v \in May) /\ (~Readable(v) => Failed \in May)
    OBVIOUS
  <2> HIDE DEF May
  <2>5. PICK reply \in Held \cup {Failed} :
          /\ \/ reply = Failed /\ TimeOut(c)
             \/ cmd[c].rpc = "answered" /\ reply = cmd[c].reply
          /\ \/ cmd[c].at = "primary" /\ ~IsMissOrError(reply) /\ cmd'[c].val = reply
             \/ /\ IsMissOrError(reply) /\ cmd'[c].val = Failed
                /\ \/ cmd[c].at = "primary" /\ Buddy(c, k) = Primary(c, k)
                   \/ cmd[c].at = "buddy"
             \/ cmd[c].at = "migrate" /\ cmd'[c].val = cmd[c].val
    BY <2>1, ReadContinues DEF k
  <2>6. CASE cmd[c].at = "migrate" /\ cmd'[c].val = cmd[c].val
    BY <2>3, <2>4, <2>6
  <2>7. CASE cmd[c].at # "migrate" /\ cmd[c].rpc = "answered" /\ reply = cmd[c].reply
    <3>1. IsMissOrError(reply) <=> ~Readable(reply)
      BY <2>2, <2>7, KVAssumption DEF IsMissOrError, Readable, Held
    <3> QED
      BY <2>3, <2>4, <2>5, <2>7, <3>1
  <2>8. CASE cmd[c].at # "migrate" /\ TimeOut(c) /\ reply = Failed
    <3>1. IsMissOrError(reply) /\ cmd'[c].val = Failed
      BY <2>5, <2>8 DEF IsMissOrError
    <3>2. PICK R \in Node : R = Keeper(k)
      BY <2>2, KeeperFacts DEF Orderly
    <3>3. /\ R \in up /\ R # Mover /\ R \in {Primary(c, k), Buddy(c, k)}
          /\ R = IF Primary(c, k) = Mover THEN Buddy(c, k) ELSE Primary(c, k)
          /\ env.mayCrash \subseteq {Mover}
      <4>1. env.mayCrash \subseteq {Mover}
        BY Zenon DEF Orderly, OneComesAndGoes, Mover
      <4> QED
        BY <2>2, <3>2, <4>1, KeeperFacts DEF Orderly
    <3>4. Target(c) \notin up
      BY <2>1, <2>2, <2>8, OrderlyFacts, PromptFacts
    <3>5. Target(c) = Buddy(c, k) /\ Buddy(c, k) # Primary(c, k)
      BY <2>5, <2>8, <3>1, <3>3, <3>4 DEF Target, k, IsMissOrError
    <3>6. cmd[c].at = "buddy"
      BY <2>5, <2>8, <3>5, <3>1 DEF IsMissOrError
    <3>7. Primary(c, k) \notin env.mayCrash
      BY <3>3, <3>4, <3>5
    <3> QED
      BY <2>3, <2>4, <3>1, <3>6, <3>7
  <2> QED
    BY <2>5, <2>6, <2>7, <2>8 DEF May
<1>2. ASSUME BaseInv, RegularInv, [Next]_vars
      PROVE  [\A c \in Client :
                (/\ Returns(c, "get") /\ OneComesAndGoes /\ ~(NodesJoin \/ NodesReturn \/ env.slow)
                 /\ OneWriter /\ ~Contended /\ ~Estranged
                 /\ env.answers = {} \/ (Legible /\ Cardinality(Users) = 1))
                  => cmd'[c].val \in {IF Readable(v) THEN v ELSE Failed : v \in fresh[c]}]_vars
  BY <1>1, <1>2 DEF Orderly, Alone
<1> QED
  BY <1>2, BaseInvariance, RegularInvariance, PTL DEF Spec, ReadsAreRegular
=============================================================================
