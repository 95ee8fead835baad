--------------------------- MODULE KVReplicas_proofs ---------------------------
(***************************************************************************)
(* Why the two copies of a key agree: proofs about module KVDistributor    *)
(* while the ring stays, for every set of clients, nodes, keys and values. *)
(***************************************************************************)
EXTENDS KVDistributor_proofs

\* What a request does to a server's map.
Do(m, req) == Map!After(m, req.kind, req.key, req.val)

\* A map m on which the requests of w are executed in turn ends up with v for k.
Leads(m, w, k, v) ==
  \E h \in [0..Len(w) -> [Key -> Held]] :
    /\ h[0] = m
    /\ \A i \in 1..Len(w) : h[i] = Do(h[i - 1], w[i])
    /\ h[Len(w)][k] = v

Inserts(w, k) == \E i \in 1..Len(w) : w[i].kind = "insert" /\ w[i].key = k

-----------------------------------------------------------------------------
(* Invariants that hold whatever happens *)

\* A command carries what its operation needs, and goes to the buddy only if there is one.
CommandsMakeSense ==
  \A c \in Client : ~Idle(c) =>
    /\ cmd[c].at # "primary" => Buddy(c, cmd[c].key) # Primary(c, cmd[c].key)
    /\ cmd[c].at = "migrate" => cmd[c].op = "get"
    /\ cmd[c].op \in {"insert", "update"} \/ cmd[c].at = "migrate" => cmd[c].val \in Value
    /\ cmd[c].op = "get" /\ cmd[c].at # "migrate" => cmd[c].val = Missing

\* A write on its way has the value it needs.
WritesHaveValues ==
  \A c \in Client, n \in Node : \A i \in 1..Len(wire[c][n]) :
    wire[c][n][i].kind \in {"insert", "update"} => wire[c][n][i].val \in Value

\* While a client waits, what it waits for is the last request on the connection: the
\* one that is answered when no other is left.
AwaitedIsLast ==
  \A c \in Client : ~Idle(c) /\ cmd[c].rpc = "sent" =>
    LET w == wire[c][Target(c)] IN w # <<>> => w[Len(w)] = RequestOf(c)

\* There is no connection to a server that is down.
DownIsCut == \A c \in Client, n \in Node : n \notin up => wire[c][n] = <<>>

\* What a client does on its own node it does without a connection.
LocalIsCut == \A c \in Client, n \in Node : env.local[c] = n => wire[c][n] = <<>>

CommonInv ==
  /\ TypeOK /\ CommandsMakeSense /\ WritesHaveValues
  /\ AwaitedIsLast /\ DownIsCut /\ LocalIsCut

-----------------------------------------------------------------------------
(* Invariants while the ring stays *)

Second(k) == Placement[env.configured][k].buddy

\* Nothing changes but the stores, and only users do something.
RingStaysInv == RingStays =>
  /\ up = Node
  /\ \A c \in Client : view[c] = env.configured /\ news[c] = {}
  /\ \A c \in Client \ Users : Idle(c) /\ \A n \in Node : wire[c][n] = <<>>

\* The request of the command in progress was made to n.
Sent(c, n) ==
  \/ n = Primary(c, cmd[c].key) /\ (cmd[c].at = "primary" => cmd[c].rpc # "none")
  \/ n = Buddy(c, cmd[c].key) /\ cmd[c].at = "buddy" /\ cmd[c].rpc # "none"

Writing(c, k) == ~Idle(c) /\ cmd[c].op # "get" /\ cmd[c].key = k

Reading(c, k) == ~Idle(c) /\ cmd[c].op = "get" /\ cmd[c].key = k

Solo == RingStays /\ Cardinality(Users) = 1

\* What n will have for k once it has executed what c has sent to it.
Promised(c, n, k) ==
  IF Writing(c, k) /\ Sent(c, n) THEN With(cmd[c].op, k, cmd[c].val) ELSE expect[k]

\* A client alone: each replica will have what the client's commands leave, and a get()
\* is answered with it.
InStep(c, k) ==
  /\ \A n \in {Primary(c, k), Buddy(c, k)} : Leads(store[n], wire[c][n], k, Promised(c, n, k))
  /\ Reading(c, k) /\ cmd[c].rpc = "answered" /\ cmd[c].at # "migrate" => cmd[c].reply = expect[k]
  /\ Reading(c, k) /\ cmd[c].at = "migrate" => cmd[c].val = expect[k]

SoloInv == Solo => \A c \in Users, k \in Key : InStep(c, k)

Undeleted == \A o \in env.load : o.op # "delete"

NoDeletes == RingStays /\ Undeleted

\* The commands and the requests on their way delete nothing.
KeepsKeys ==
  /\ \A c \in Client : ~Idle(c) => cmd[c].op # "delete"
  /\ \A c \in Client, n \in Node : \A i \in 1..Len(wire[c][n]) : wire[c][n][i].kind # "delete"

\* n has the key, or will have it.
Present(n, k) == store[n][k] # Missing \/ \E c \in Client : Inserts(wire[c][n], k)

\* A client that inserts the key has not come to n yet.
Coming(n, k) == \E c \in Client : Writing(c, k) /\ cmd[c].op = "insert" /\ ~Sent(c, n)

\* A key is on both of its nodes or on its way, or the client that brought it to the
\* first one has still to send it to the second.
Paired(k) ==
  /\ Present(Home(k), k) => Present(Second(k), k) \/ Coming(Second(k), k)
  /\ Present(Second(k), k) => Present(Home(k), k)

\* What a client has done or read follows from where the key is.
Evidence(c, k) ==
  /\ Writing(c, k) /\ cmd[c].op = "insert" /\ Sent(c, Home(k)) => Present(Home(k), k)
  /\ Reading(c, k) /\ cmd[c].at = "buddy" /\ cmd[c].rpc = "answered"
       /\ cmd[c].reply # Missing => Present(Second(k), k)
  /\ Reading(c, k) /\ cmd[c].at = "migrate" => Present(Second(k), k)

\* While nobody deletes.
PresenceInv == NoDeletes =>
  /\ KeepsKeys
  /\ \A k \in Key : Paired(k) /\ \A c \in Client : Evidence(c, k)

\* A client alone on servers that answer: one request at a time.
OneRequest == Undisturbed => \A c \in Users :
  /\ \A n \in Node : wire[c][n] =
       IF ~Idle(c) /\ cmd[c].rpc = "sent" /\ Target(c) = n THEN <<RequestOf(c)>> ELSE <<>>
  /\ ~Idle(c) /\ cmd[c].op = "get" =>
       cmd[c].at # "migrate" /\ (cmd[c].at = "buddy" => expect[cmd[c].key] = Missing)

-----------------------------------------------------------------------------
(* Sequences of requests *)

\* A request put on a connection.
LEMMA AppendFacts ==
  ASSUME NEW w \in Seq(Request), NEW r \in Request
  PROVE  /\ Append(w, r) \in Seq(Request) /\ Len(w) \in Nat
         /\ Len(Append(w, r)) = Len(w) + 1
         /\ \A i \in 1..Len(w) : Append(w, r)[i] = w[i]
         /\ Append(w, r)[Len(w) + 1] = r
         /\ Append(w, r) # <<>>
OBVIOUS

\* A request taken from a connection.
LEMMA TailFacts ==
  ASSUME NEW w \in Seq(Request), w # <<>>
  PROVE  /\ Tail(w) \in Seq(Request) /\ Head(w) \in Request /\ Head(w) = w[1]
         /\ Len(w) \in Nat \ {0} /\ Len(Tail(w)) = Len(w) - 1
         /\ \A i \in 1..(Len(w) - 1) : Tail(w)[i] = w[i + 1]
OBVIOUS

-----------------------------------------------------------------------------
(* How a command goes on *)

\* The ways in which a command can go on, whatever the answer.
LEMMA ContinueCases ==
  ASSUME TypeOK, NEW c \in Client, ~Idle(c), NEW reply \in Held \cup {Failed},
         Continue(c, reply)
  PROVE  /\ UNCHANGED <<env, up, store, view, place, news, wire>>
         /\ \/ /\ \E result \in Held \cup {Failed} : Finish(c, result)
               /\ cmd[c].op # "get" =>
                    cmd[c].at = "buddy" \/ Buddy(c, cmd[c].key) = Primary(c, cmd[c].key)
            \/ /\ cmd[c].at = "primary" /\ Buddy(c, cmd[c].key) # Primary(c, cmd[c].key)
               /\ cmd[c].op = "get" /\ IsMissOrError(reply) /\ Proceed(c, "buddy", Missing)
               /\ UNCHANGED <<expect, fresh>>
            \/ /\ cmd[c].at = "primary" /\ Buddy(c, cmd[c].key) # Primary(c, cmd[c].key)
               /\ cmd[c].op # "get" /\ Proceed(c, "buddy", cmd[c].val)
               /\ UNCHANGED <<expect, fresh>>
            \/ /\ cmd[c].at = "buddy" /\ cmd[c].op = "get"
               /\ ~IsMissOrError(reply) /\ Proceed(c, "migrate", reply)
               /\ UNCHANGED <<expect, fresh>>
<1>1. cmd[c].val \in Held
  BY CommandFacts DEF Cmd, Held
<1>2. UNCHANGED <<env, up, store, view, place, news, wire>>
  BY DEF Continue
<1>3. CASE cmd[c].op = "get"
  BY <1>1, <1>2, <1>3 DEF Continue, GetContinues
<1>4. CASE cmd[c].op # "get"
  <2>1. Missing \in Held
    BY DEF Held
  <2> QED
    BY <1>2, <1>4, <2>1 DEF Continue, WriteContinues
<1> QED
  BY <1>3, <1>4

\* What the record of the command becomes.
LEMMA FinishFacts ==
  ASSUME TypeOK, NEW c \in Client, NEW result, Finish(c, result)
  PROVE  /\ cmd'[c] = Resting(result) /\ Idle(c)'
         /\ \A d \in Client \ {c} : cmd'[d] = cmd[d]
         /\ expect' = Map!After(expect, cmd[c].op, cmd[c].key, cmd[c].val)
BY DEF Finish, TypeOK, Resting, Idle

\* A command that goes on to its next request changes nothing else.
LEMMA ProceedFacts ==
  ASSUME TypeOK, NEW c \in Client, ~Idle(c), NEW at \in {"buddy", "migrate"}, NEW v,
         Proceed(c, at, v)
  PROVE  /\ cmd'[c].at = at /\ cmd'[c].val = v /\ cmd'[c].rpc = "none"
         /\ cmd'[c].op = cmd[c].op /\ cmd'[c].key = cmd[c].key
         /\ ~Idle(c)'
         /\ \A d \in Client \ {c} : cmd'[d] = cmd[d]
BY CommandFacts DEF Proceed, TypeOK, Idle, Cmd

\* Both of a client's ways to go on.
GoesOn(c) == Answer(c) \/ TimeOut(c)

\* An answer is what the server said; a timeout is a failure.
LEMMA GoesOnFacts ==
  ASSUME TypeOK, NEW c \in Client, GoesOn(c)
  PROVE  /\ ~Idle(c) /\ cmd[c].rpc # "none"
         /\ \E reply \in Held \cup {Failed} :
              /\ Continue(c, reply)
              /\ reply = Failed \/ (cmd[c].rpc = "answered" /\ reply = cmd[c].reply)
<1>1. ~Idle(c) /\ cmd[c].rpc # "none"
  BY CommandFacts DEF GoesOn, Answer, TimeOut
<1>2. cmd[c].reply \in Held
  BY <1>1, CommandFacts DEF Cmd, Held
<1> QED
  BY <1>1, <1>2 DEF GoesOn, Answer, TimeOut

\* The other actions, as what they do to the command, the connection and the stores.
LEMMA BeginFacts ==
  ASSUME TypeOK, NEW c \in Client, NEW op \in Op, NEW k \in Key, NEW v \in Held,
         Begin(c, op, k, v)
  PROVE  /\ Idle(c) /\ ~Idle(c)' /\ cmd'[c] = Command(op, k, v)
         /\ cmd'[c].at = "primary" /\ cmd'[c].op = op /\ cmd'[c].key = k /\ cmd'[c].val = v
         /\ cmd'[c].rpc = "none"
         /\ \A d \in Client \ {c} : cmd'[d] = cmd[d]
         /\ c \in Users /\ \E o \in env.load : o.op = op
         /\ UNCHANGED <<env, up, store, view, place, news, wire, expect>>
<1>1. [client |-> c, op |-> op, key |-> k, val |-> v] \in env.load
  BY DEF Begin
<1>2. c \in Users
  BY <1>1 DEF Users
<1> QED
  BY <1>1, <1>2 DEF Begin, Command, TypeOK, Idle

\* A request is made over the network.
LEMMA SendFacts ==
  ASSUME TypeOK, NEW c \in Client, Send(c)
  PROVE  /\ ~Idle(c) /\ cmd[c].rpc = "none" /\ ~AtLocalNode(c) /\ Target(c) \in Node
         /\ RequestOf(c) \in Request /\ wire[c][Target(c)] \in Seq(Request)
         /\ ~Idle(c)' /\ cmd'[c].rpc = "sent"
         /\ cmd'[c].at = cmd[c].at /\ cmd'[c].op = cmd[c].op /\ cmd'[c].key = cmd[c].key
         /\ cmd'[c].val = cmd[c].val
         /\ \A d \in Client \ {c} : cmd'[d] = cmd[d] /\ wire'[d] = wire[d]
         /\ \A n \in Node \ {Target(c)} : wire'[c][n] = wire[c][n]
         /\ wire'[c][Target(c)] = IF Target(c) \in up THEN Append(wire[c][Target(c)], RequestOf(c))
                                  ELSE wire[c][Target(c)]
         /\ UNCHANGED <<env, up, store, view, place, news, expect>>
<1>1. ~Idle(c) /\ cmd[c] \in Cmd /\ Target(c) \in Node /\ RequestOf(c) \in Request
  BY CommandFacts DEF Send
<1>2. /\ ~Idle(c)' /\ cmd'[c].rpc = "sent"
      /\ cmd'[c].at = cmd[c].at /\ cmd'[c].op = cmd[c].op /\ cmd'[c].key = cmd[c].key
      /\ cmd'[c].val = cmd[c].val
      /\ \A d \in Client \ {c} : cmd'[d] = cmd[d]
  BY <1>1 DEF Send, TypeOK, Idle, Cmd
<1>3. /\ \A d \in Client \ {c} : wire'[d] = wire[d]
      /\ \A n \in Node \ {Target(c)} : wire'[c][n] = wire[c][n]
      /\ wire'[c][Target(c)] = IF Target(c) \in up THEN Append(wire[c][Target(c)], RequestOf(c))
                               ELSE wire[c][Target(c)]
      /\ wire[c][Target(c)] \in Seq(Request)
  <2> DEFINE m == Target(c)
  <2>1. wire' = IF m \in up THEN [wire EXCEPT ![c][m] = Append(@, RequestOf(c))] ELSE wire
    BY DEF Send
  <2>2. m \in Node
    BY <1>1
  <2> HIDE DEF m
  <2>3. /\ \A d \in Client \ {c} : wire'[d] = wire[d]
        /\ \A n \in Node \ {m} : wire'[c][n] = wire[c][n]
        /\ wire'[c][m] = IF m \in up THEN Append(wire[c][m], RequestOf(c)) ELSE wire[c][m]
        /\ wire[c][m] \in Seq(Request)
    BY <2>1, <2>2 DEF TypeOK
  <2> QED
    BY <2>3 DEF m
<1> QED
  BY <1>1, <1>2, <1>3 DEF Send

\* A request is made on the client's own node.
LEMMA DirectFacts ==
  ASSUME TypeOK, NEW c \in Client, Direct(c)
  PROVE  /\ ~Idle(c) /\ cmd[c].rpc = "none" /\ AtLocalNode(c) /\ Target(c) \in Node
         /\ RequestOf(c) \in Request
         /\ store' = Executed(First, RequestOf(c))
         /\ ~Idle(c)' /\ cmd'[c].rpc = "answered"
         /\ cmd'[c].reply = IF RequestOf(c).kind = "fetch" THEN store[First][cmd[c].key] ELSE Missing
         /\ cmd'[c].at = cmd[c].at /\ cmd'[c].op = cmd[c].op /\ cmd'[c].key = cmd[c].key
         /\ cmd'[c].val = cmd[c].val
         /\ \A d \in Client \ {c} : cmd'[d] = cmd[d]
         /\ UNCHANGED <<env, up, view, place, news, wire, expect>>
<1>1. ~Idle(c) /\ cmd[c] \in Cmd /\ Target(c) \in Node /\ RequestOf(c) \in Request
  BY CommandFacts DEF Direct
<1>2. RequestOf(c).key = cmd[c].key
  BY DEF RequestOf
<1> QED
  BY <1>1, <1>2 DEF Direct, TypeOK, Idle, Cmd

Awaited(c, n) == Len(wire[c][n]) = 1 /\ cmd[c].rpc = "sent" /\ Target(c) = n

\* A handler executes the oldest request; only the awaited one is answered.
LEMMA HandleFacts ==
  ASSUME TypeOK, NEW c \in Client, NEW n \in Node, Handle(c, n)
  PROVE  /\ n \in up /\ wire[c][n] # <<>> /\ wire[c][n] \in Seq(Request)
         /\ store' = Executed(n, Head(wire[c][n]))
         /\ \A d \in Client \ {c} : cmd'[d] = cmd[d] /\ wire'[d] = wire[d]
         /\ wire'[c][n] = Tail(wire[c][n])
         /\ \A m \in Node \ {n} : wire'[c][m] = wire[c][m]
         /\ ~Awaited(c, n) => cmd'[c] = cmd[c]
         /\ Awaited(c, n) =>
              /\ ~Idle(c) /\ ~Idle(c)' /\ cmd'[c].rpc = "answered"
              /\ cmd'[c].reply = IF Head(wire[c][n]).kind = "fetch"
                                 THEN store[n][Head(wire[c][n]).key] ELSE Missing
              /\ cmd'[c].at = cmd[c].at /\ cmd'[c].op = cmd[c].op
              /\ cmd'[c].key = cmd[c].key /\ cmd'[c].val = cmd[c].val
         /\ UNCHANGED <<env, up, view, place, news, expect>>
<1>1. /\ n \in up /\ wire[c][n] # <<>> /\ wire[c][n] \in Seq(Request)
      /\ store' = Executed(n, Head(wire[c][n]))
      /\ \A d \in Client \ {c} : cmd'[d] = cmd[d] /\ wire'[d] = wire[d]
      /\ wire'[c][n] = Tail(wire[c][n])
      /\ \A m \in Node \ {n} : wire'[c][m] = wire[c][m]
      /\ UNCHANGED <<env, up, view, place, news, expect>>
  BY DEF Handle, TypeOK
<1>2. CASE ~Awaited(c, n)
  BY <1>1, <1>2 DEF Handle, Awaited
<1>3. CASE Awaited(c, n)
  <2>1. ~Idle(c) /\ cmd[c] \in Cmd
    BY <1>3, CommandFacts DEF Awaited
  <2>2. cmd' = [cmd EXCEPT ![c].rpc = "answered",
                  ![c].reply = IF Head(wire[c][n]).kind = "fetch"
                               THEN store[n][Head(wire[c][n]).key] ELSE Missing]
    BY <1>3 DEF Handle, Awaited
  <2>3. /\ ~Idle(c)' /\ cmd'[c].rpc = "answered"
        /\ cmd'[c].reply = IF Head(wire[c][n]).kind = "fetch"
                           THEN store[n][Head(wire[c][n]).key] ELSE Missing
        /\ cmd'[c].at = cmd[c].at /\ cmd'[c].op = cmd[c].op
        /\ cmd'[c].key = cmd[c].key /\ cmd'[c].val = cmd[c].val
    BY <2>1, <2>2 DEF TypeOK, Idle, Cmd
  <2> QED
    BY <1>1, <1>3, <2>1, <2>3
<1> QED
  BY <1>2, <1>3

\* Refreshes, crashes and restarts do not touch the commands.
LEMMA OtherFacts ==
  ASSUME TypeOK
  PROVE  /\ \A c \in Client : Refresh(c) =>
              /\ Idle(c) /\ news[c] # {}
              /\ \A d \in Client \ {c} : place'[d] = place[d] /\ view'[d] = view[d] /\ news'[d] = news[d]
              /\ UNCHANGED <<env, up, store, cmd, wire, expect>>
         /\ \A c \in Client, live \in SUBSET Node : Ask(c, live) =>
              /\ live \in env.answers
              /\ UNCHANGED <<env, up, store, view, place, cmd, wire, expect>>
         /\ \A n \in Node : Crash(n) =>
              /\ n \in env.mayCrash /\ up' = up \ {n}
              /\ \A c \in Client, m \in Node : wire'[c][m] = IF m = n THEN <<>> ELSE wire[c][m]
              /\ UNCHANGED <<env, store, view, place, news, cmd, expect>>
         /\ \A n \in Node : Restart(n) =>
              /\ n \notin up /\ up' = up \cup {n}
              /\ UNCHANGED <<env, view, place, news, cmd, wire, expect>>
<1>1. ASSUME NEW c \in Client, Refresh(c)
      PROVE  /\ Idle(c) /\ news[c] # {}
             /\ \A d \in Client \ {c} : place'[d] = place[d] /\ view'[d] = view[d] /\ news'[d] = news[d]
             /\ UNCHANGED <<env, up, store, cmd, wire, expect>>
  BY <1>1 DEF Refresh, TypeOK
<1>2. ASSUME NEW c \in Client, NEW live \in SUBSET Node, Ask(c, live)
      PROVE  /\ live \in env.answers
             /\ UNCHANGED <<env, up, store, view, place, cmd, wire, expect>>
  BY <1>2 DEF Ask
<1>3. ASSUME NEW n \in Node, Crash(n)
      PROVE  /\ n \in env.mayCrash /\ up' = up \ {n}
             /\ \A c \in Client, m \in Node : wire'[c][m] = IF m = n THEN <<>> ELSE wire[c][m]
             /\ UNCHANGED <<env, store, view, place, news, cmd, expect>>
  BY <1>3 DEF Crash, TypeOK
<1>4. ASSUME NEW n \in Node, Restart(n)
      PROVE  /\ n \notin up /\ up' = up \cup {n}
             /\ UNCHANGED <<env, view, place, news, cmd, wire, expect>>
  BY <1>4 DEF Restart
<1> QED
  BY <1>1, <1>2, <1>3, <1>4

\* The ways in which a step may be made.
LEMMA StepCases ==
  ASSUME [Next]_vars
  PROVE  \/ \E c \in Client, op \in Op, k \in Key, v \in Held :
              /\ Begin(c, op, k, v)
              /\ op \in {"insert", "update"} => v \in Value
              /\ op \in {"get", "delete"} => v = Missing
         \/ \E c \in Client : Send(c)
         \/ \E c \in Client : Direct(c)
         \/ \E c \in Client : GoesOn(c)
         \/ \E c \in Client, n \in Node : Handle(c, n)
         \/ \E c \in Client : Refresh(c)
         \/ \E c \in Client, live \in SUBSET Node : Ask(c, live)
         \/ \E n \in Node : Crash(n)
         \/ \E n \in Node : Restart(n)
         \/ UNCHANGED vars
BY DEF Next, Op, Writes, Held, GoesOn

\* What is said of a client that does nothing stays true.
LEMMA Frame ==
  ASSUME NEW d \in Client, cmd'[d] = cmd[d], place'[d] = place[d], env' = env
  PROVE  /\ Idle(d)' <=> Idle(d)
         /\ \A k : Primary(d, k)' = Primary(d, k) /\ Buddy(d, k)' = Buddy(d, k)
         /\ Target(d)' = Target(d) /\ RequestOf(d)' = RequestOf(d)
         /\ \A n : Sent(d, n)' <=> Sent(d, n)
         /\ \A k : Writing(d, k)' <=> Writing(d, k)
         /\ \A k : Reading(d, k)' <=> Reading(d, k)
BY DEF Idle, Primary, Buddy, Target, RequestOf, Sent, Writing, Reading

\* So does what is said of where the command of a client goes, as it sends and waits.
LEMMA Underway ==
  ASSUME NEW c \in Client, place' = place, ~Idle(c), ~Idle(c)',
         cmd'[c].at = cmd[c].at, cmd'[c].op = cmd[c].op, cmd'[c].key = cmd[c].key,
         cmd'[c].val = cmd[c].val
  PROVE  /\ \A k : Primary(c, k)' = Primary(c, k) /\ Buddy(c, k)' = Buddy(c, k)
         /\ Target(c)' = Target(c) /\ RequestOf(c)' = RequestOf(c)
         /\ \A k : Writing(c, k)' <=> Writing(c, k)
         /\ \A k : Reading(c, k)' <=> Reading(c, k)
BY DEF Primary, Buddy, Target, RequestOf, Writing, Reading

\* What depends on the environment stays.
LEMMA EnvironmentStays ==
  ASSUME [Next]_vars
  PROVE  /\ env' = env /\ Users' = Users
         /\ RingStays' <=> RingStays
         /\ Solo' <=> Solo
         /\ NoDeletes' <=> NoDeletes
         /\ Undisturbed' <=> Undisturbed
         /\ \A k : Home(k)' = Home(k) /\ Second(k)' = Second(k)
<1> DEFINE Same == env' = env
<1>1. \A c \in Client, op \in Op, k \in Key, v \in Held : Begin(c, op, k, v) => Same
  BY DEF Begin
<1>2. \A c \in Client : Send(c) \/ Direct(c) \/ GoesOn(c) => Same
  BY DEF Send, Direct, GoesOn, Answer, TimeOut, Continue
<1>3. \A c \in Client, n \in Node : Handle(c, n) => Same
  BY DEF Handle
<1>4. \A c \in Client : Refresh(c) => Same
  BY DEF Refresh
<1>5. \A c \in Client, live \in SUBSET Node : Ask(c, live) => Same
  BY DEF Ask
<1>6. (\A n \in Node : Crash(n) \/ Restart(n) => Same) /\ (UNCHANGED vars => Same)
  BY DEF Crash, Restart, vars
<1> HIDE DEF Same
<1>7. Same
  BY <1>1, <1>2, <1>3, <1>4, <1>5, <1>6, StepCases, Zenon
<1> USE DEF Same
<1>8. Users' = Users /\ \A k : Home(k)' = Home(k) /\ Second(k)' = Second(k)
  BY <1>7 DEF Users, Home, Second
<1>9. RingStays' <=> RingStays
  BY <1>7, <1>8 DEF RingStays, Estranged
<1>10. /\ Solo' <=> Solo
       /\ NoDeletes' <=> NoDeletes
       /\ Undisturbed' <=> Undisturbed
  BY <1>7, <1>8, <1>9 DEF Solo, NoDeletes, Undeleted, Undisturbed
<1> QED
  BY <1>7, <1>8, <1>9, <1>10

-----------------------------------------------------------------------------
(* The invariants that hold whatever happens *)

\* CommandsMakeSense is inductive.
LEMMA CommandsStep ==
  ASSUME TypeOK, CommandsMakeSense, [Next]_vars
  PROVE  CommandsMakeSense'
<1> DEFINE Sense(c) == ~Idle(c) =>
             /\ cmd[c].at # "primary" => Buddy(c, cmd[c].key) # Primary(c, cmd[c].key)
             /\ cmd[c].at = "migrate" => cmd[c].op = "get"
             /\ cmd[c].op \in {"insert", "update"} \/ cmd[c].at = "migrate" => cmd[c].val \in Value
             /\ cmd[c].op = "get" /\ cmd[c].at # "migrate" => cmd[c].val = Missing
<1>1. ASSUME NEW d \in Client, cmd'[d] = cmd[d], place'[d] = place[d] \/ Idle(d)
      PROVE  Sense(d)'
  <2>1. Sense(d)
    BY DEF CommandsMakeSense
  <2> QED
    BY <1>1, <2>1 DEF Idle, Primary, Buddy
<1>2. ASSUME NEW c \in Client, \A d \in Client \ {c} : cmd'[d] = cmd[d], place' = place, Sense(c)'
      PROVE  CommandsMakeSense'
  BY <1>1, <1>2 DEF CommandsMakeSense
<1>3. ASSUME NEW c \in Client, NEW op \in Op, NEW k \in Key, NEW v \in Held, Begin(c, op, k, v),
             op \in {"insert", "update"} => v \in Value,
             op \in {"get", "delete"} => v = Missing
      PROVE  CommandsMakeSense'
  <2>1. Sense(c)'
    <3>1. cmd'[c].at = "primary" /\ cmd'[c].op = op /\ cmd'[c].val = v
      BY <1>3, BeginFacts
    <3> QED
      BY <1>3, <3>1
  <2> HIDE DEF Sense
  <2> QED
    BY <1>2, <1>3, <2>1, BeginFacts
<1>4. ASSUME NEW c \in Client, Send(c) PROVE CommandsMakeSense'
  <2>1. Sense(c)
    BY DEF CommandsMakeSense
  <2>2. Sense(c)'
    BY <1>4, <2>1, SendFacts DEF Primary, Buddy
  <2> QED
    BY <1>2, <1>4, <2>2, SendFacts
<1>5. ASSUME NEW c \in Client, Direct(c) PROVE CommandsMakeSense'
  <2>1. Sense(c)
    BY DEF CommandsMakeSense
  <2>2. Sense(c)'
    BY <1>5, <2>1, DirectFacts DEF Primary, Buddy
  <2> QED
    BY <1>2, <1>5, <2>2, DirectFacts
<1>6. ASSUME NEW c \in Client, GoesOn(c) PROVE CommandsMakeSense'
  <2>1. PICK reply \in Held \cup {Failed} : Continue(c, reply)
    BY <1>6, GoesOnFacts
  <2>2. ~Idle(c) /\ Sense(c)
    BY <1>6, GoesOnFacts DEF CommandsMakeSense
  <2>3. place' = place
    BY <2>1, <2>2, ContinueCases
  <2>4. CASE \E result \in Held \cup {Failed} : Finish(c, result)
    BY <1>2, <2>3, <2>4, FinishFacts
  <2>5. ASSUME NEW at \in {"buddy", "migrate"}, NEW v, Proceed(c, at, v),
               Buddy(c, cmd[c].key) # Primary(c, cmd[c].key),
               at = "migrate" => cmd[c].op = "get" /\ v \in Value,
               cmd[c].op \in {"insert", "update"} => v \in Value,
               cmd[c].op = "get" /\ at # "migrate" => v = Missing
        PROVE  CommandsMakeSense'
    <3>1. Sense(c)'
      BY <2>2, <2>3, <2>5, ProceedFacts DEF Primary, Buddy
    <3> QED
      BY <1>2, <2>2, <2>3, <2>5, <3>1, ProceedFacts
  <2>6. ~IsMissOrError(reply) => reply \in Value
    BY DEF IsMissOrError, Held
  <2>7. CASE cmd[c].at = "primary" /\ Buddy(c, cmd[c].key) # Primary(c, cmd[c].key)
             /\ cmd[c].op = "get" /\ Proceed(c, "buddy", Missing)
    BY <2>5, <2>7
  <2>8. CASE cmd[c].at = "primary" /\ Buddy(c, cmd[c].key) # Primary(c, cmd[c].key)
             /\ cmd[c].op # "get" /\ Proceed(c, "buddy", cmd[c].val)
    BY <2>2, <2>5, <2>8
  <2>9. CASE cmd[c].at = "buddy" /\ cmd[c].op = "get" /\ ~IsMissOrError(reply)
             /\ Proceed(c, "migrate", reply)
    BY <2>2, <2>5, <2>6, <2>9
  <2> HIDE DEF Sense
  <2> QED
    BY <2>1, <2>2, <2>4, <2>7, <2>8, <2>9, ContinueCases
<1>7. ASSUME NEW c \in Client, NEW n \in Node, Handle(c, n) PROVE CommandsMakeSense'
  <2>1. Sense(c) /\ place' = place
    BY <1>7, HandleFacts DEF CommandsMakeSense
  <2>2. Sense(c)'
    <3>1. CASE Awaited(c, n)
      BY <1>7, <2>1, <3>1, HandleFacts DEF Primary, Buddy
    <3>2. CASE ~Awaited(c, n)
      BY <1>1, <1>7, <2>1, <3>2, HandleFacts
    <3> QED
      BY <3>1, <3>2
  <2> QED
    BY <1>2, <1>7, <2>1, <2>2, HandleFacts
<1>8. ASSUME cmd' = cmd, \A d \in Client : place'[d] = place[d] \/ Idle(d) PROVE CommandsMakeSense'
  BY <1>1, <1>8 DEF CommandsMakeSense
<1>9. ASSUME NEW c \in Client, Refresh(c) PROVE CommandsMakeSense'
  <2>1. cmd' = cmd /\ \A d \in Client : place'[d] = place[d] \/ Idle(d)
    BY <1>9, OtherFacts
  <2> QED
    BY <1>8, <2>1
<1>10. ASSUME NEW c \in Client, NEW live \in SUBSET Node, Ask(c, live) PROVE CommandsMakeSense'
  BY <1>8, <1>10, OtherFacts
<1>11. ASSUME NEW n \in Node, Crash(n) \/ Restart(n) PROVE CommandsMakeSense'
  BY <1>8, <1>11, OtherFacts
<1>12. CASE UNCHANGED vars
  BY <1>8, <1>12 DEF vars
<1> HIDE DEF Sense
<1> QED
  BY <1>3, <1>4, <1>5, <1>6, <1>7, <1>9, <1>10, <1>11, <1>12, StepCases

\* A request that is on a connection after a step was there before, or is the one a
\* client has just sent.
LEMMA RequestsStep ==
  ASSUME TypeOK, [Next]_vars, NEW d \in Client, NEW m \in Node, NEW i \in 1..Len(wire'[d][m])
  PROVE  \/ \E j \in 1..Len(wire[d][m]) : wire'[d][m][i] = wire[d][m][j]
         \/ Send(d) /\ m = Target(d) /\ m \in up /\ wire'[d][m][i] = RequestOf(d)
<1> DEFINE w == wire[d][m]
<1>1. w \in Seq(Request)
  BY DEF TypeOK
<1>2. CASE wire'[d][m] = w
  BY <1>2
<1>3. ASSUME NEW c \in Client, Send(c)
      PROVE  \/ wire'[d][m] = w
             \/ c = d /\ m = Target(d) /\ m \in up /\ wire'[d][m] = Append(w, RequestOf(d))
  <2>1. c # d \/ m # Target(d) => wire'[d][m] = w
    BY <1>3, SendFacts
  <2>2. c = d /\ m = Target(d) => wire'[d][m] = IF m \in up THEN Append(w, RequestOf(d)) ELSE w
    BY <1>3, SendFacts
  <2> QED
    BY <2>1, <2>2
<1>4. ASSUME NEW c \in Client, NEW n \in Node, Handle(c, n)
      PROVE  \/ wire'[d][m] = w
             \/ w # <<>> /\ wire'[d][m] = Tail(w)
  BY <1>4, HandleFacts
<1>5. CASE Send(d) /\ m = Target(d) /\ m \in up /\ wire'[d][m] = Append(w, RequestOf(d))
  <2>1. RequestOf(d) \in Request
    BY <1>5, SendFacts
  <2> HIDE DEF w
  <2> QED
    BY <1>1, <1>5, <2>1, AppendFacts DEF w
<1>6. CASE w # <<>> /\ wire'[d][m] = Tail(w)
  <2> HIDE DEF w
  <2>1. i + 1 \in 1..Len(w) /\ wire'[d][m][i] = w[i + 1]
    BY <1>1, <1>6, TailFacts
  <2> QED
    BY <2>1 DEF w
<1>7. ASSUME NEW n \in Node, Crash(n) PROVE wire'[d][m] = w \/ wire'[d][m] = <<>>
  BY <1>7, OtherFacts
<1>8. \A c \in Client : GoesOn(c) => UNCHANGED wire
  BY GoesOnFacts, ContinueCases
<1>9. \/ wire'[d][m] = w
      \/ Send(d) /\ m = Target(d) /\ m \in up /\ wire'[d][m] = Append(w, RequestOf(d))
      \/ w # <<>> /\ wire'[d][m] = Tail(w)
      \/ wire'[d][m] = <<>>
  BY <1>3, <1>4, <1>7, <1>8, StepCases, BeginFacts, DirectFacts, OtherFacts DEF vars
<1> QED
  BY <1>2, <1>5, <1>6, <1>9

\* WritesHaveValues is kept: a request is made for a command.
LEMMA WritesStep ==
  ASSUME TypeOK, CommandsMakeSense, WritesHaveValues, [Next]_vars
  PROVE  WritesHaveValues'
<1> SUFFICES ASSUME NEW d \in Client, NEW m \in Node, NEW i \in 1..Len(wire'[d][m]),
                    wire'[d][m][i].kind \in {"insert", "update"}
             PROVE  wire'[d][m][i].val \in Value
  BY DEF WritesHaveValues
<1>1. CASE \E j \in 1..Len(wire[d][m]) : wire'[d][m][i] = wire[d][m][j]
  BY <1>1 DEF WritesHaveValues
<1>2. CASE Send(d) /\ wire'[d][m][i] = RequestOf(d)
  BY <1>2, SendFacts DEF CommandsMakeSense, RequestOf
<1> QED
  BY <1>1, <1>2, RequestsStep

\* AwaitedIsLast is kept: requests are taken from the other end of the connection.
LEMMA AwaitedStep ==
  ASSUME TypeOK, AwaitedIsLast, DownIsCut, [Next]_vars
  PROVE  AwaitedIsLast'
<1> DEFINE Last(w, r) == w # <<>> => w[Len(w)] = r
<1> SUFFICES ASSUME NEW d \in Client, ~Idle(d)', cmd'[d].rpc = "sent"
             PROVE  Last(wire'[d][Target(d)'], RequestOf(d)')
  BY DEF AwaitedIsLast
<1>1. ASSUME cmd'[d] = cmd[d]
      PROVE  Last(wire[d][Target(d)], RequestOf(d)) /\ ~Idle(d) /\ Target(d) \in Node
  BY <1>1, CommandFacts DEF AwaitedIsLast, Idle
<1> HIDE DEF Last
<1>2. ASSUME cmd'[d] = cmd[d], place'[d] = place[d],
             wire'[d][Target(d)] = wire[d][Target(d)]
      PROVE  Last(wire'[d][Target(d)'], RequestOf(d)')
  BY <1>1, <1>2 DEF Target, RequestOf, Primary, Buddy
<1>3. ASSUME NEW c \in Client, NEW op \in Op, NEW k \in Key, NEW v \in Held, Begin(c, op, k, v)
      PROVE  Last(wire'[d][Target(d)'], RequestOf(d)')
  <2>1. c # d
    BY <1>3, BeginFacts
  <2> QED
    BY <1>2, <1>3, <2>1, BeginFacts
<1>4. ASSUME NEW c \in Client, Send(c) PROVE Last(wire'[d][Target(d)'], RequestOf(d)')
  <2>1. CASE c # d
    BY <1>2, <1>4, <2>1, SendFacts
  <2>2. CASE c = d
    <3> DEFINE m == Target(d)
    <3>1. Target(d)' = m /\ RequestOf(d)' = RequestOf(d)
      BY <1>4, <2>2, SendFacts, Underway
    <3>2. /\ wire[d][m] \in Seq(Request) /\ RequestOf(d) \in Request /\ m \in Node
          /\ wire'[d][m] = IF m \in up THEN Append(wire[d][m], RequestOf(d)) ELSE wire[d][m]
      BY <1>4, <2>2, SendFacts
    <3> HIDE DEF m
    <3>3. CASE m \in up
      <4>1. wire'[d][m][Len(wire'[d][m])] = RequestOf(d)
        BY <3>2, <3>3, AppendFacts
      <4> QED
        BY <3>1, <4>1 DEF Last
    <3>4. CASE m \notin up
      BY <3>1, <3>2, <3>4 DEF Last, DownIsCut
    <3> QED
      BY <3>3, <3>4
  <2> QED
    BY <2>1, <2>2
<1>5. ASSUME NEW c \in Client, Direct(c) PROVE Last(wire'[d][Target(d)'], RequestOf(d)')
  <2>1. c # d
    BY <1>5, DirectFacts
  <2> QED
    BY <1>2, <1>5, <2>1, DirectFacts
<1>6. ASSUME NEW c \in Client, GoesOn(c) PROVE Last(wire'[d][Target(d)'], RequestOf(d)')
  <2>1. PICK reply \in Held \cup {Failed} : Continue(c, reply)
    BY <1>6, GoesOnFacts
  <2>2. ~Idle(c)
    BY <1>6, GoesOnFacts
  <2>3. c # d /\ cmd'[d] = cmd[d]
    BY <2>1, <2>2, ContinueCases, FinishFacts, ProceedFacts
  <2> QED
    BY <1>2, <2>1, <2>2, <2>3, ContinueCases
<1>7. ASSUME NEW c \in Client, NEW n \in Node, Handle(c, n)
      PROVE  Last(wire'[d][Target(d)'], RequestOf(d)')
  <2>1. CASE c # d \/ Target(d) # n
    <3>1. cmd'[d] = cmd[d]
      BY <1>7, <2>1, HandleFacts DEF Awaited
    <3>2. wire'[d][Target(d)] = wire[d][Target(d)]
      BY <1>1, <1>7, <2>1, <3>1, HandleFacts
    <3> QED
      BY <1>2, <1>7, <3>1, <3>2, HandleFacts
  <2>2. CASE c = d /\ Target(d) = n
    <3>1. ~Awaited(d, n) /\ cmd'[d] = cmd[d]
      BY <1>7, <2>2, HandleFacts
    <3>2. /\ wire[d][n] \in Seq(Request) /\ wire[d][n] # <<>> /\ wire'[d][n] = Tail(wire[d][n])
          /\ place' = place
      BY <1>7, <2>2, HandleFacts
    <3>3. Target(d)' = n /\ RequestOf(d)' = RequestOf(d)
      BY <2>2, <3>1, <3>2 DEF Target, RequestOf, Primary, Buddy
    <3>4. Len(wire[d][n]) # 1
      BY <2>2, <3>1 DEF Awaited
    <3>5. wire[d][n][Len(wire[d][n])] = RequestOf(d)
      BY <1>1, <2>2, <3>1, <3>2 DEF Last
    <3>6. /\ Len(wire[d][n]) \in Nat \ {0} /\ Len(Tail(wire[d][n])) = Len(wire[d][n]) - 1
          /\ \A i \in 1..(Len(wire[d][n]) - 1) : Tail(wire[d][n])[i] = wire[d][n][i + 1]
      BY <3>2, TailFacts
    <3>7. /\ Len(wire[d][n]) - 1 \in 1..(Len(wire[d][n]) - 1)
          /\ Len(wire[d][n]) - 1 + 1 = Len(wire[d][n])
      <4> DEFINE L == Len(wire[d][n])
      <4>1. L \in Nat \ {0} /\ L # 1
        BY <3>4, <3>6
      <4> HIDE DEF L
      <4>2. L - 1 \in 1..(L - 1) /\ L - 1 + 1 = L
        BY <4>1
      <4> QED
        BY <4>2 DEF L
    <3>8. Tail(wire[d][n])[Len(Tail(wire[d][n]))] = RequestOf(d)
      BY <3>5, <3>6, <3>7
    <3> QED
      BY <3>2, <3>3, <3>8 DEF Last
  <2> QED
    BY <2>1, <2>2
<1>8. ASSUME NEW c \in Client, Refresh(c) PROVE Last(wire'[d][Target(d)'], RequestOf(d)')
  <2>1. cmd'[d] = cmd[d] /\ c # d /\ wire' = wire
    BY <1>8, OtherFacts DEF Idle
  <2> QED
    BY <1>2, <1>8, <2>1, OtherFacts
<1>9. ASSUME NEW c \in Client, NEW live \in SUBSET Node, Ask(c, live)
      PROVE  Last(wire'[d][Target(d)'], RequestOf(d)')
  BY <1>2, <1>9, OtherFacts
<1>10. ASSUME NEW n \in Node, Crash(n) PROVE Last(wire'[d][Target(d)'], RequestOf(d)')
  <2>1. cmd' = cmd /\ place' = place
        /\ \A m \in Node : wire'[d][m] = IF m = n THEN <<>> ELSE wire[d][m]
    BY <1>10, OtherFacts
  <2>2. CASE Target(d) = n
    <3>1. Target(d)' = n
      BY <2>1, <2>2 DEF Target, Primary, Buddy
    <3> QED
      BY <2>1, <3>1 DEF Last
  <2>3. CASE Target(d) # n
    BY <1>1, <1>2, <2>1, <2>3
  <2> QED
    BY <2>2, <2>3
<1>11. ASSUME NEW n \in Node, Restart(n) PROVE Last(wire'[d][Target(d)'], RequestOf(d)')
  BY <1>2, <1>11, OtherFacts
<1>12. CASE UNCHANGED vars
  BY <1>2, <1>12 DEF vars
<1> QED
  BY <1>3, <1>4, <1>5, <1>6, <1>7, <1>8, <1>9, <1>10, <1>11, <1>12, StepCases

\* LocalIsCut is inductive: nothing is sent to the client's own node.
LEMMA LocalStep ==
  ASSUME TypeOK, LocalIsCut, [Next]_vars
  PROVE  LocalIsCut'
<1>0. env' = env
  BY EnvironmentStays
<1> SUFFICES ASSUME NEW d \in Client, NEW m \in Node, env.local[d] = m
             PROVE  wire'[d][m] = <<>>
  BY <1>0 DEF LocalIsCut
<1>1. wire[d][m] = <<>>
  BY DEF LocalIsCut
<1>2. ASSUME NEW c \in Client, Send(c) PROVE wire'[d][m] = <<>>
  <2>1. c = d => m # Target(d)
    BY <1>2, SendFacts DEF AtLocalNode
  <2> QED
    BY <1>1, <1>2, <2>1, SendFacts
<1>3. ASSUME NEW c \in Client, NEW n \in Node, Handle(c, n) PROVE wire'[d][m] = <<>>
  BY <1>1, <1>3, HandleFacts
<1>4. ASSUME NEW n \in Node, Crash(n) PROVE wire'[d][m] = <<>>
  BY <1>1, <1>4, OtherFacts
<1>5. ASSUME NEW c \in Client, GoesOn(c) PROVE wire' = wire
  BY <1>5, GoesOnFacts, ContinueCases
<1> QED
  BY <1>1, <1>2, <1>3, <1>4, <1>5, StepCases, BeginFacts, DirectFacts, OtherFacts DEF vars

\* DownIsCut is inductive.
LEMMA DownStep ==
  ASSUME TypeOK, DownIsCut, [Next]_vars
  PROVE  DownIsCut'
<1> SUFFICES ASSUME NEW d \in Client, NEW m \in Node, m \notin up'
             PROVE  wire'[d][m] = <<>>
  BY DEF DownIsCut
<1>1. ASSUME wire' = wire, up' = up PROVE wire'[d][m] = <<>>
  BY <1>1 DEF DownIsCut
<1>2. ASSUME NEW c \in Client, Send(c) PROVE wire'[d][m] = <<>>
  BY <1>2, SendFacts DEF DownIsCut
<1>3. ASSUME NEW c \in Client, NEW n \in Node, Handle(c, n) PROVE wire'[d][m] = <<>>
  BY <1>3, HandleFacts DEF DownIsCut
<1>4. ASSUME NEW n \in Node, Crash(n) PROVE wire'[d][m] = <<>>
  BY <1>4, OtherFacts DEF DownIsCut
<1>5. ASSUME NEW n \in Node, Restart(n) PROVE wire'[d][m] = <<>>
  BY <1>5, OtherFacts DEF DownIsCut
<1>6. ASSUME NEW c \in Client, GoesOn(c) PROVE wire' = wire /\ up' = up
  BY <1>6, GoesOnFacts, ContinueCases
<1> QED
  BY <1>1, <1>2, <1>3, <1>4, <1>5, <1>6, StepCases, BeginFacts, DirectFacts, OtherFacts DEF vars

\* What holds whatever happens.
LEMMA CommonInvariance == Spec => []CommonInv
<1>1. Init => CommonInv
  <2> SUFFICES ASSUME Init PROVE CommonInv
    OBVIOUS
  <2>1. TypeOK
    BY InitType
  <2>2. \A c \in Client : Idle(c) /\ \A n \in Node : wire[c][n] = <<>>
    BY DEF Init, Resting, Idle
  <2> QED
    BY <2>1, <2>2 DEF CommonInv, CommandsMakeSense, WritesHaveValues, AwaitedIsLast, DownIsCut,
                   LocalIsCut
<1>2. CommonInv /\ [Next]_vars => CommonInv'
  BY TypeStep, CommandsStep, WritesStep, AwaitedStep, DownStep, LocalStep
     DEF CommonInv
<1> QED
  BY <1>1, <1>2, PTL DEF Spec

-----------------------------------------------------------------------------
(* The ring stays *)

\* The users are some of the clients.
LEMMA UsersAreClients ==
  ASSUME TypeOK
  PROVE  Users \subseteq Client /\ IsFiniteSet(Users)
<1>1. env.load \subseteq Order
  BY EnvironmentFacts DEF TypeOK
<1>2. Users \in SUBSET Client
  BY <1>1 DEF Users, Order
<1> QED
  BY <1>2, KVAssumption, FS_Subset

\* The steps that are possible while the ring stays.
LEMMA StaysCases ==
  ASSUME TypeOK, RingStays, RingStaysInv, [Next]_vars
  PROVE  /\ UNCHANGED <<env, up, view, place, news>>
         /\ \/ \E c \in Users, op \in Op, k \in Key, v \in Held :
                 /\ Begin(c, op, k, v)
                 /\ op \in {"insert", "update"} => v \in Value
                 /\ op \in {"get", "delete"} => v = Missing
            \/ \E c \in Users : Send(c)
            \/ \E c \in Users : Direct(c)
            \/ \E c \in Users : GoesOn(c)
            \/ \E c \in Users, n \in Node : Handle(c, n)
            \/ UNCHANGED vars
<1>1. /\ up = Node
      /\ \A c \in Client : news[c] = {}
      /\ \A c \in Client \ Users : Idle(c) /\ \A n \in Node : wire[c][n] = <<>>
      /\ env.answers = {} /\ env.mayCrash = {}
  BY DEF RingStaysInv, RingStays
<1>2. ASSUME NEW c \in Client, Refresh(c) PROVE FALSE
  BY <1>1, <1>2, OtherFacts
<1>3. ASSUME NEW c \in Client, NEW live \in SUBSET Node, Ask(c, live) PROVE FALSE
  BY <1>1, <1>3, OtherFacts
<1>4. ASSUME NEW n \in Node, Crash(n) \/ Restart(n) PROVE FALSE
  BY <1>1, <1>4, OtherFacts
<1>5. ASSUME NEW c \in Client, Send(c) \/ Direct(c) \/ GoesOn(c) PROVE c \in Users
  BY <1>1, <1>5, SendFacts, DirectFacts, GoesOnFacts
<1>6. ASSUME NEW c \in Client, NEW n \in Node, Handle(c, n) PROVE c \in Users
  BY <1>1, <1>6, HandleFacts
<1>7. ASSUME NEW c \in Client, NEW op \in Op, NEW k \in Key, NEW v \in Held, Begin(c, op, k, v)
      PROVE  c \in Users
  BY <1>7, BeginFacts
<1>8. \/ \E c \in Users, op \in Op, k \in Key, v \in Held :
                 /\ Begin(c, op, k, v)
                 /\ op \in {"insert", "update"} => v \in Value
                 /\ op \in {"get", "delete"} => v = Missing
      \/ \E c \in Users : Send(c)
      \/ \E c \in Users : Direct(c)
      \/ \E c \in Users : GoesOn(c)
      \/ \E c \in Users, n \in Node : Handle(c, n)
      \/ UNCHANGED vars
  BY <1>2, <1>3, <1>4, <1>5, <1>6, <1>7, StepCases
<1>9. ASSUME NEW c \in Client, GoesOn(c) PROVE UNCHANGED <<env, up, view, place, news>>
  BY <1>9, GoesOnFacts, ContinueCases
<1> QED
  BY <1>8, <1>9, UsersAreClients, BeginFacts, SendFacts, DirectFacts, HandleFacts DEF vars

\* RingStaysInv is inductive.
LEMMA RingStaysStep ==
  ASSUME TypeOK, RingStaysInv, [Next]_vars
  PROVE  RingStaysInv'
<1> SUFFICES ASSUME RingStays
             PROVE  /\ up' = Node
                    /\ \A c \in Client : view'[c] = env.configured /\ news'[c] = {}
                    /\ \A c \in Client \ Users : Idle(c)' /\ \A n \in Node : wire'[c][n] = <<>>
  BY EnvironmentStays DEF RingStaysInv
<1>1. /\ up = Node
      /\ \A c \in Client : view[c] = env.configured /\ news[c] = {}
      /\ \A c \in Client \ Users : Idle(c) /\ \A n \in Node : wire[c][n] = <<>>
  BY DEF RingStaysInv
<1>2. UNCHANGED <<env, up, view, place, news>>
  BY StaysCases
<1> DEFINE Rest == \A d \in Client \ Users : Idle(d)' /\ \A n \in Node : wire'[d][n] = <<>>
<1>3. ASSUME NEW c \in Users, \A d \in Client \ {c} : cmd'[d] = cmd[d] /\ wire'[d] = wire[d]
      PROVE  Rest
  BY <1>1, <1>3, UsersAreClients DEF Idle
<1>4. ASSUME NEW c \in Users, wire' = wire, \A d \in Client \ {c} : cmd'[d] = cmd[d]
      PROVE  Rest
  BY <1>1, <1>3, <1>4
<1>5. ASSUME NEW c \in Users, NEW op \in Op, NEW k \in Key, NEW v \in Held, Begin(c, op, k, v)
      PROVE  Rest
  BY <1>4, <1>5, UsersAreClients, BeginFacts
<1>6. ASSUME NEW c \in Users, Send(c) PROVE Rest
  BY <1>3, <1>6, UsersAreClients, SendFacts
<1>7. ASSUME NEW c \in Users, Direct(c) PROVE Rest
  BY <1>4, <1>7, UsersAreClients, DirectFacts
<1>8. ASSUME NEW c \in Users, GoesOn(c) PROVE Rest
  <2>1. PICK reply \in Held \cup {Failed} : Continue(c, reply)
    BY <1>8, UsersAreClients, GoesOnFacts
  <2>2. ~Idle(c) /\ c \in Client
    BY <1>8, UsersAreClients, GoesOnFacts
  <2>3. wire' = wire /\ \A d \in Client \ {c} : cmd'[d] = cmd[d]
    BY <2>1, <2>2, ContinueCases, FinishFacts, ProceedFacts
  <2> QED
    BY <1>4, <2>3
<1>9. ASSUME NEW c \in Users, NEW n \in Node, Handle(c, n) PROVE Rest
  BY <1>3, <1>9, UsersAreClients, HandleFacts
<1>10. ASSUME UNCHANGED vars PROVE Rest
  BY <1>1, <1>10 DEF vars, Idle
<1> HIDE DEF Rest
<1>11. Rest
  BY <1>5, <1>6, <1>7, <1>8, <1>9, <1>10, StaysCases
<1> QED
  BY <1>1, <1>2, <1>11 DEF Rest

\* RingStaysInv holds at the start.
LEMMA RingStaysInit == Init => RingStaysInv
<1> SUFFICES ASSUME Init PROVE RingStaysInv
  OBVIOUS
<1>1. TypeOK
  BY InitType
<1> QED
  BY <1>1, UsersAreClients DEF Init, RingStaysInv, Resting, Idle

-----------------------------------------------------------------------------
(* What requests do when they are executed in turn *)

\* A request touches only its key, and there the outcome depends on that key only.
LEMMA DoFacts ==
  ASSUME NEW m \in [Key -> Held], NEW r \in Request
  PROVE  /\ Do(m, r) \in [Key -> Held]
         /\ \A k \in Key : r.key # k => Do(m, r)[k] = m[k]
         /\ r.kind = "fetch" => Do(m, r) = m
         /\ \A x \in [Key -> Held], k \in Key : x[k] = m[k] => Do(x, r)[k] = Do(m, r)[k]
<1>1. r.key \in Key /\ r.val \in Held
  BY DEF Request, Held
<1> QED
  BY <1>1 DEF Do, Map!After, Held

\* A server does what it is asked.
LEMMA ExecutedIsDo ==
  ASSUME TypeOK, NEW n \in Node, NEW r \in Request
  PROVE  Executed(n, r) = [store EXCEPT ![n] = Do(store[n], r)]
<1>1. store \in [Node -> [Key -> Held]] /\ r.key \in Key
  BY DEF TypeOK, Held, Request
<1> QED
  BY <1>1 DEF Executed, Do, Map!After

\* Without requests a map leads to what it holds.
LEMMA LeadsEmpty ==
  ASSUME NEW m \in [Key -> Held], NEW w, Len(w) = 0, NEW k \in Key, NEW v
  PROVE  Leads(m, w, k, v) <=> m[k] = v
<1>1. ASSUME m[k] = v PROVE Leads(m, w, k, v)
  <2> DEFINE h == [i \in 0..Len(w) |-> m]
  <2>1. h \in [0..Len(w) -> [Key -> Held]] /\ h[0] = m /\ h[Len(w)][k] = v
    BY <1>1
  <2>2. \A i \in 1..Len(w) : h[i] = Do(h[i - 1], w[i])
    OBVIOUS
  <2> HIDE DEF h
  <2> QED
    BY <2>1, <2>2 DEF Leads
<1>2. ASSUME Leads(m, w, k, v) PROVE m[k] = v
  BY <1>2 DEF Leads
<1> QED
  BY <1>1, <1>2

\* A request put at the end does its work on what the others lead to.
LEMMA LeadsAppend ==
  ASSUME NEW m \in [Key -> Held], NEW w \in Seq(Request), NEW r \in Request, NEW k \in Key,
         NEW x \in [Key -> Held], Leads(m, w, k, x[k])
  PROVE  Leads(m, Append(w, r), k, Do(x, r)[k])
<1>1. PICK h \in [0..Len(w) -> [Key -> Held]] :
        /\ h[0] = m
        /\ \A i \in 1..Len(w) : h[i] = Do(h[i - 1], w[i])
        /\ h[Len(w)][k] = x[k]
  BY DEF Leads
<1> DEFINE L == Len(w)
           u == Append(w, r)
           g == [i \in 0..(L + 1) |-> IF i = L + 1 THEN Do(h[L], r) ELSE h[i]]
<1>2. L \in Nat /\ Len(u) = L + 1 /\ u[L + 1] = r /\ \A i \in 1..L : u[i] = w[i]
  BY AppendFacts
<1>3. h[L] \in [Key -> Held] /\ Do(h[L], r) \in [Key -> Held]
  BY <1>2, DoFacts
<1> HIDE DEF L, u
<1>4. /\ g \in [0..(L + 1) -> [Key -> Held]] /\ g[0] = m /\ g[L + 1] = Do(h[L], r)
      /\ \A i \in 0..L : g[i] = h[i]
  BY <1>1, <1>2, <1>3 DEF L
<1> HIDE DEF g
<1>5. \A i \in 1..(L + 1) : g[i] = Do(g[i - 1], u[i])
  <2> TAKE i \in 1..(L + 1)
  <2>1. CASE i = L + 1
    BY <1>2, <1>4, <2>1
  <2>2. CASE i # L + 1
    <3>1. i \in 1..L /\ i \in 0..L /\ i - 1 \in 0..L
      BY <1>2, <2>2
    <3>2. h[i] = Do(h[i - 1], w[i])
      BY <1>1, <3>1 DEF L
    <3> QED
      BY <1>2, <1>4, <3>1, <3>2
  <2> QED
    BY <2>1, <2>2
<1>6. g[L + 1][k] = Do(x, r)[k]
  <2>1. h[L][k] = x[k]
    BY <1>1 DEF L
  <2>2. Do(h[L], r)[k] = Do(x, r)[k]
    BY <1>3, <2>1, DoFacts
  <2> QED
    BY <1>4, <2>2
<1>7. /\ g \in [0..Len(u) -> [Key -> Held]] /\ g[0] = m
      /\ \A i \in 1..Len(u) : g[i] = Do(g[i - 1], u[i])
      /\ g[Len(u)][k] = Do(x, r)[k]
  BY <1>2, <1>4, <1>5, <1>6
<1> QED
  BY <1>7 DEF Leads, u

\* The first request may be executed without changing where the map leads.
LEMMA LeadsTail ==
  ASSUME NEW m \in [Key -> Held], NEW w \in Seq(Request), w # <<>>, NEW k \in Key, NEW v,
         Leads(m, w, k, v)
  PROVE  Leads(Do(m, Head(w)), Tail(w), k, v)
<1>1. PICK h \in [0..Len(w) -> [Key -> Held]] :
        /\ h[0] = m
        /\ \A i \in 1..Len(w) : h[i] = Do(h[i - 1], w[i])
        /\ h[Len(w)][k] = v
  BY DEF Leads
<1> DEFINE L == Len(w)
           u == Tail(w)
           g == [i \in 0..(L - 1) |-> h[i + 1]]
<1>2. /\ L \in Nat \ {0} /\ Len(u) = L - 1 /\ Head(w) = w[1]
      /\ \A i \in 1..(L - 1) : u[i] = w[i + 1]
  BY TailFacts
<1> HIDE DEF L, u
<1>3. h \in [0..L -> [Key -> Held]] /\ h[L][k] = v /\ \A i \in 1..L : h[i] = Do(h[i - 1], w[i])
  BY <1>1 DEF L
<1>4. g \in [0..(L - 1) -> [Key -> Held]] /\ g[0] = h[1] /\ g[L - 1] = h[L]
      /\ \A i \in 0..(L - 1) : g[i] = h[i + 1]
  BY <1>2, <1>3
<1> HIDE DEF g
<1>5. g[0] = Do(m, Head(w))
  <2>1. 1 \in 1..L /\ 1 - 1 = 0
    BY <1>2
  <2> QED
    BY <1>1, <1>2, <1>3, <1>4, <2>1
<1>6. \A i \in 1..(L - 1) : g[i] = Do(g[i - 1], u[i])
  <2> TAKE i \in 1..(L - 1)
  <2>1. i \in 0..(L - 1) /\ i - 1 \in 0..(L - 1) /\ i + 1 \in 1..L /\ (i + 1) - 1 = i /\ (i - 1) + 1 = i
    BY <1>2
  <2>2. h[i + 1] = Do(h[(i + 1) - 1], w[i + 1])
    BY <1>3, <2>1
  <2> QED
    BY <1>2, <1>4, <2>1, <2>2
<1> QED
  BY <1>2, <1>3, <1>4, <1>5, <1>6 DEF Leads, u

-----------------------------------------------------------------------------
(* A client alone *)

\* While the ring stays a key has the same two nodes for everybody.
LEMMA SamePlace ==
  ASSUME TypeOK, RingStays, RingStaysInv, NEW c \in Client, NEW k \in Key
  PROVE  /\ Primary(c, k) = Home(k) /\ Buddy(c, k) = Second(k)
         /\ Home(k) \in Node /\ Second(k) \in Node
<1>1. place[c] = Placement[env.configured]
  BY DEF TypeOK, RingStaysInv
<1>2. env.configured \in (SUBSET Node) \ {{}}
  BY EnvironmentFacts DEF TypeOK
<1> QED
  BY <1>1, <1>2, PlacementFacts DEF Primary, Buddy, Home, Second

\* A client alone is the only user.
LEMMA SoloUser ==
  ASSUME TypeOK, Solo, NEW c \in Users, NEW d \in Users
  PROVE  c = d
<1>1. \E x : Users = {x}
  BY UsersAreClients, FS_Singleton DEF Solo
<1> QED
  BY <1>1

\* To say of the next state that requests lead to a value.
LEMMA LeadsNext ==
  ASSUME NEW c \in Client, NEW n \in Node, NEW k \in Key, NEW m, NEW w, NEW v,
         store'[n] = m, wire'[c][n] = w, Promised(c, n, k)' = v, Leads(m, w, k, v)
  PROVE  Leads(store[n], wire[c][n], k, Promised(c, n, k))'
<1>1. PICK h \in [0..Len(w) -> [Key -> Held]] :
        /\ h[0] = m
        /\ \A i \in 1..Len(w) : h[i] = Do(h[i - 1], w[i])
        /\ h[Len(w)][k] = v
  BY DEF Leads
<1>2. \A i : Do(h[i - 1], wire[c][n][i])' = Do(h[i - 1], w[i])
  BY DEF Do, Map!After
<1> QED
  BY <1>1, <1>2 DEF Leads

\* InStep after a step, from its three parts.
LEMMA InStepNext ==
  ASSUME TypeOK, RingStays, RingStaysInv, NEW c \in Client, NEW k \in Key, place' = place,
         \A n \in Node : n \in {Primary(c, k), Buddy(c, k)} =>
           Leads(store'[n], wire'[c][n], k, Promised(c, n, k)'),
         Reading(c, k)' /\ cmd'[c].rpc = "answered" /\ cmd'[c].at # "migrate"
           => cmd'[c].reply = expect'[k],
         Reading(c, k)' /\ cmd'[c].at = "migrate" => cmd'[c].val = expect'[k]
  PROVE  InStep(c, k)'
<1>1. \A n \in Node : n \in {Primary(c, k), Buddy(c, k)} =>
        Leads(store[n], wire[c][n], k, Promised(c, n, k))'
  BY LeadsNext
<1>2. Primary(c, k)' = Primary(c, k) /\ Buddy(c, k)' = Buddy(c, k)
  BY DEF Primary, Buddy
<1>3. Primary(c, k) \in Node /\ Buddy(c, k) \in Node
  BY SamePlace
<1> QED
  BY <1>1, <1>2, <1>3 DEF InStep

\* When a client makes a request of a replica, what it promises is what the request makes
\* of the map, and nothing changes for the other replica.
LEMMA Requesting ==
  ASSUME CommonInv, NEW c \in Client, ~Idle(c), cmd[c].rpc = "none",
         NEW t \in Node, t = Target(c), NEW k \in Key, ~Idle(c)', cmd'[c].rpc # "none",
         cmd'[c].at = cmd[c].at, cmd'[c].op = cmd[c].op, cmd'[c].key = cmd[c].key,
         cmd'[c].val = cmd[c].val,
         UNCHANGED <<place, expect>>
  PROVE  /\ Promised(c, t, k) = expect[k]
         /\ Promised(c, t, k)' = IF Writing(c, k) THEN Do(expect, RequestOf(c))[k] ELSE expect[k]
         /\ \A n : n # t => Promised(c, n, k)' = Promised(c, n, k)
<1>1. /\ cmd[c] \in Cmd
      /\ cmd[c].at # "primary" => Buddy(c, cmd[c].key) # Primary(c, cmd[c].key)
      /\ cmd[c].at = "migrate" => cmd[c].op = "get"
  BY CommandFacts DEF CommonInv, CommandsMakeSense
<1>2. cmd[c].at \in {"primary", "buddy", "migrate"}
  BY <1>1 DEF Cmd
<1>3. /\ Primary(c, cmd[c].key)' = Primary(c, cmd[c].key)
      /\ Buddy(c, cmd[c].key)' = Buddy(c, cmd[c].key)
      /\ Writing(c, k)' <=> Writing(c, k)
  BY Underway
<1>4. Writing(c, k) => ~Sent(c, t) /\ Sent(c, t)'
  BY <1>1, <1>2, <1>3 DEF Writing, Sent, Target
<1>5. ASSUME NEW n, n # t, Writing(c, k) PROVE Sent(c, n)' <=> Sent(c, n)
  BY <1>1, <1>2, <1>3, <1>5 DEF Writing, Sent, Target
<1>6. With(cmd[c].op, k, cmd[c].val)' = With(cmd[c].op, k, cmd[c].val)
  BY DEF With, Map!After
<1>7. CASE Writing(c, k)
  <2>1. With(cmd[c].op, k, cmd[c].val) = Do(expect, RequestOf(c))[k]
    BY <1>7 DEF With, Do, RequestOf, Writing
  <2>2. ASSUME NEW n, n # t PROVE Promised(c, n, k)' = Promised(c, n, k)
    BY <1>3, <1>5, <1>6, <1>7, <2>2 DEF Promised
  <2> QED
    BY <1>3, <1>4, <1>6, <1>7, <2>1, <2>2 DEF Promised
<1>8. CASE ~Writing(c, k)
  BY <1>3, <1>8 DEF Promised
<1> QED
  BY <1>7, <1>8

\* ... and what a replica in step will have is what the request makes of it.
LEMMA Asking ==
  ASSUME CommonInv, NEW c \in Client, ~Idle(c), cmd[c].rpc = "none",
         NEW t \in Node, t = Target(c), NEW k \in Key, InStep(c, k), ~Idle(c)', cmd'[c].rpc # "none",
         cmd'[c].at = cmd[c].at, cmd'[c].op = cmd[c].op, cmd'[c].key = cmd[c].key,
         cmd'[c].val = cmd[c].val,
         UNCHANGED <<place, expect>>
  PROVE  /\ Promised(c, t, k) = expect[k]
         /\ Promised(c, t, k)' = Do(expect, RequestOf(c))[k]
         /\ \A n : n # t => Promised(c, n, k)' = Promised(c, n, k)
<1>1. /\ RequestOf(c) \in Request
      /\ cmd[c].at = "migrate" => cmd[c].op = "get" /\ cmd[c].val \in Value
      /\ expect \in [Key -> Held]
  BY CommandFacts DEF CommonInv, CommandsMakeSense, TypeOK, Held
<1>2. ASSUME ~Writing(c, k) PROVE Do(expect, RequestOf(c))[k] = expect[k]
  <2>1. CASE cmd[c].key # k
    BY <1>1, <2>1, DoFacts DEF RequestOf
  <2>2. CASE cmd[c].key = k /\ cmd[c].at # "migrate"
    BY <1>1, <1>2, <2>2, DoFacts DEF RequestOf, Writing
  <2>3. CASE cmd[c].key = k /\ cmd[c].at = "migrate"
    <3>1. expect[k] \in Value /\ RequestOf(c).kind = "insert" /\ RequestOf(c).key = k
      BY <1>1, <2>3 DEF InStep, Reading, RequestOf
    <3>2. Do(expect, RequestOf(c)) = expect
      BY <3>1, KVAssumption DEF Do, Map!After
    <3> QED
      BY <3>2
  <2> QED
    BY <2>1, <2>2, <2>3
<1> QED
  BY <1>2, Requesting

\* A command that begins has asked nobody yet.
LEMMA SoloBegin ==
  ASSUME TypeOK, NEW c \in Client, NEW k \in Key, InStep(c, k),
         NEW op \in Op, NEW l \in Key, NEW v \in Held, Begin(c, op, l, v)
  PROVE  InStep(c, k)'
<1>1. /\ Idle(c) /\ cmd'[c].at = "primary" /\ cmd'[c].rpc = "none"
      /\ UNCHANGED <<store, place, wire, expect>>
  BY BeginFacts
<1>2. \A n : Promised(c, n, k)' = Promised(c, n, k)
  BY <1>1 DEF Promised, Writing, Sent
<1>3. Primary(c, k)' = Primary(c, k) /\ Buddy(c, k)' = Buddy(c, k)
  BY <1>1 DEF Primary, Buddy
<1> QED
  BY <1>1, <1>2, <1>3 DEF InStep, Reading, Leads

\* A request is sent.
LEMMA SoloSend ==
  ASSUME CommonInv, RingStays, RingStaysInv, NEW c \in Client, NEW k \in Key, InStep(c, k), Send(c)
  PROVE  InStep(c, k)'
<1> USE DEF CommonInv
<1>1. /\ ~Idle(c) /\ cmd[c].rpc = "none" /\ Target(c) \in Node
      /\ RequestOf(c) \in Request /\ wire[c][Target(c)] \in Seq(Request)
      /\ ~Idle(c)' /\ cmd'[c].rpc = "sent"
      /\ cmd'[c].at = cmd[c].at /\ cmd'[c].op = cmd[c].op /\ cmd'[c].key = cmd[c].key
      /\ cmd'[c].val = cmd[c].val
      /\ \A n \in Node \ {Target(c)} : wire'[c][n] = wire[c][n]
      /\ UNCHANGED <<store, place, expect>>
  BY SendFacts
<1>2. wire'[c][Target(c)] = Append(wire[c][Target(c)], RequestOf(c))
  BY <1>1, SendFacts DEF RingStaysInv
<1>t. PICK u \in Node : u = Target(c)
  BY <1>1
<1>3. /\ Promised(c, u, k) = expect[k]
      /\ Promised(c, u, k)' = Do(expect, RequestOf(c))[k]
      /\ \A n : n # u => Promised(c, n, k)' = Promised(c, n, k)
  BY <1>1, <1>t, Asking
<1>4. Primary(c, k)' = Primary(c, k) /\ Buddy(c, k)' = Buddy(c, k) /\ (Reading(c, k)' <=> Reading(c, k))
  BY <1>1, Underway
<1>5. ASSUME NEW n \in Node, n \in {Primary(c, k), Buddy(c, k)}
      PROVE  Leads(store'[n], wire'[c][n], k, Promised(c, n, k)')
  <2>1. Leads(store[n], wire[c][n], k, Promised(c, n, k))
    BY <1>5 DEF InStep
  <2>2. CASE n # u
    BY <1>1, <1>t, <1>3, <2>1, <2>2
  <2>3. CASE n = u
    <3>1. store[n] \in [Key -> Held] /\ expect \in [Key -> Held]
      BY <2>1 DEF TypeOK, Held
    <3>2. Leads(store[n], Append(wire[c][n], RequestOf(c)), k, Do(expect, RequestOf(c))[k])
      BY <1>1, <1>t, <1>3, <2>1, <2>3, <3>1, LeadsAppend
    <3> QED
      BY <1>1, <1>t, <1>2, <1>3, <2>3, <3>2
  <2> QED
    BY <2>2, <2>3
<1> QED
  BY <1>1, <1>4, <1>5, InStepNext DEF InStep

\* On its own node a client works on the store it attached to, without a connection.
LEMMA LocalTarget ==
  ASSUME TypeOK, LocalIsCut, ~Estranged, NEW c \in Users, AtLocalNode(c), Target(c) \in Node
  PROVE  Target(c) = First /\ wire[c][First] = <<>>
<1>1. env.local[c] \in {-1, First} /\ c \in Client
  BY UsersAreClients DEF Estranged
<1>2. Target(c) = First
  BY <1>1, KVAssumption DEF AtLocalNode
<1> QED
  BY <1>1, <1>2, KVAssumption DEF LocalIsCut, AtLocalNode

\* A request is executed at once on the client's own node.
LEMMA SoloDirect ==
  ASSUME CommonInv, RingStays, RingStaysInv, NEW c \in Users, NEW k \in Key, InStep(c, k),
         Direct(c)
  PROVE  InStep(c, k)'
<1> USE DEF CommonInv
<1>0. c \in Client
  BY UsersAreClients
<1>1. /\ ~Idle(c) /\ cmd[c].rpc = "none" /\ AtLocalNode(c) /\ Target(c) \in Node
      /\ RequestOf(c) \in Request
      /\ store' = Executed(First, RequestOf(c))
      /\ ~Idle(c)' /\ cmd'[c].rpc = "answered"
      /\ cmd'[c].reply = IF RequestOf(c).kind = "fetch" THEN store[First][cmd[c].key] ELSE Missing
      /\ cmd'[c].at = cmd[c].at /\ cmd'[c].op = cmd[c].op /\ cmd'[c].key = cmd[c].key
      /\ cmd'[c].val = cmd[c].val
      /\ UNCHANGED <<place, wire, expect>>
  BY <1>0, DirectFacts
<1>2. First \in Node /\ First = Target(c) /\ wire[c][First] = <<>>
  BY <1>1, LocalTarget DEF RingStays
<1>3. /\ Promised(c, First, k) = expect[k]
      /\ Promised(c, First, k)' = Do(expect, RequestOf(c))[k]
      /\ \A n : n # First => Promised(c, n, k)' = Promised(c, n, k)
  BY <1>0, <1>1, <1>2, Asking
<1>4. /\ store \in [Node -> [Key -> Held]] /\ expect \in [Key -> Held]
      /\ store' = [store EXCEPT ![First] = Do(store[First], RequestOf(c))]
      /\ Do(store[First], RequestOf(c)) \in [Key -> Held]
  <2>1. store \in [Node -> [Key -> Held]] /\ expect \in [Key -> Held]
    BY DEF TypeOK, Held
  <2> QED
    BY <1>1, <1>2, <2>1, ExecutedIsDo, DoFacts
<1>5. First \in {Primary(c, k), Buddy(c, k)} => store[First][k] = expect[k]
  BY <1>2, <1>3, <1>4, LeadsEmpty DEF InStep
<1>6. ASSUME NEW n \in Node, n \in {Primary(c, k), Buddy(c, k)}
      PROVE  Leads(store'[n], wire'[c][n], k, Promised(c, n, k)')
  <2>1. CASE n # First
    BY <1>1, <1>3, <1>4, <1>6, <2>1 DEF InStep
  <2>2. CASE n = First
    <3>1. store'[First] = Do(store[First], RequestOf(c))
      BY <1>2, <1>4
    <3>2. Do(store[First], RequestOf(c))[k] = Do(expect, RequestOf(c))[k]
      BY <1>1, <1>2, <1>4, <1>5, <1>6, <2>2, DoFacts
    <3>3. Leads(store'[First], <<>>, k, Promised(c, First, k)')
      BY <1>3, <1>4, <3>1, <3>2, LeadsEmpty
    <3> QED
      BY <1>1, <1>2, <2>2, <3>3
  <2> QED
    BY <2>1, <2>2
<1>7. Reading(c, k)' <=> Reading(c, k)
  BY <1>0, <1>1, Underway
<1>8. Reading(c, k) /\ cmd[c].at # "migrate" => cmd'[c].reply = expect[k]
  <2> SUFFICES ASSUME Reading(c, k), cmd[c].at # "migrate" PROVE cmd'[c].reply = expect[k]
    OBVIOUS
  <2>1. RequestOf(c).kind = "fetch" /\ cmd[c].key = k
    BY DEF Reading, RequestOf
  <2>2. First \in {Primary(c, k), Buddy(c, k)}
    BY <1>2, <2>1 DEF Target
  <2> QED
    BY <1>1, <1>5, <2>1, <2>2
<1> QED
  BY <1>0, <1>1, <1>6, <1>7, <1>8, InStepNext DEF InStep

\* A server executes a request, which leads where it led.
LEMMA SoloHandle ==
  ASSUME CommonInv, RingStays, RingStaysInv, NEW c \in Users, NEW k \in Key, InStep(c, k),
         NEW m \in Node, Handle(c, m)
  PROVE  InStep(c, k)'
<1> USE DEF CommonInv
<1> DEFINE w == wire[c][m]
<1>0. c \in Client
  BY UsersAreClients
<1>1. /\ w # <<>> /\ w \in Seq(Request)
      /\ store' = Executed(m, Head(w)) /\ wire'[c][m] = Tail(w)
      /\ \A n \in Node \ {m} : wire'[c][n] = wire[c][n]
      /\ ~Awaited(c, m) => cmd'[c] = cmd[c]
      /\ Awaited(c, m) =>
           /\ ~Idle(c) /\ ~Idle(c)' /\ cmd'[c].rpc = "answered"
           /\ cmd'[c].reply = IF Head(w).kind = "fetch" THEN store[m][Head(w).key] ELSE Missing
           /\ cmd'[c].at = cmd[c].at /\ cmd'[c].op = cmd[c].op
           /\ cmd'[c].key = cmd[c].key /\ cmd'[c].val = cmd[c].val
      /\ UNCHANGED <<env, place, expect>>
  BY <1>0, HandleFacts
<1>2. Head(w) \in Request
  BY <1>1, TailFacts
<1> HIDE DEF w
<1>3. /\ store \in [Node -> [Key -> Held]]
      /\ store' = [store EXCEPT ![m] = Do(store[m], Head(w))]
  <2>1. store \in [Node -> [Key -> Held]]
    BY DEF TypeOK, Held
  <2> QED
    BY <1>1, <1>2, <2>1, ExecutedIsDo
<1>4. \A n : Promised(c, n, k)' = Promised(c, n, k)
  <2>1. CASE ~Awaited(c, m)
    <3>1. \A n : Sent(c, n)' <=> Sent(c, n)
      BY <1>0, <1>1, <2>1, Frame
    <3>2. Writing(c, k)' <=> Writing(c, k)
      BY <1>0, <1>1, <2>1, Frame
    <3> QED
      BY <1>1, <2>1, <3>1, <3>2 DEF Promised, With, Map!After
  <2>2. CASE Awaited(c, m)
    <3>1. cmd[c].rpc = "sent"
      BY <2>2 DEF Awaited
    <3>2. Writing(c, k)' <=> Writing(c, k)
      BY <1>0, <1>1, <2>2, Underway
    <3>3. \A n : Sent(c, n)' <=> Sent(c, n)
      BY <1>1, <2>2, <3>1 DEF Sent, Primary, Buddy
    <3> QED
      BY <1>1, <2>2, <3>2, <3>3 DEF Promised, With, Map!After
  <2> QED
    BY <2>1, <2>2
<1>5. ASSUME NEW n \in Node, n \in {Primary(c, k), Buddy(c, k)}
      PROVE  Leads(store'[n], wire'[c][n], k, Promised(c, n, k)')
  <2>1. Leads(store[n], wire[c][n], k, Promised(c, n, k))
    BY <1>5 DEF InStep
  <2>2. CASE n # m
    BY <1>1, <1>3, <1>4, <2>1, <2>2
  <2>3. CASE n = m
    <3>1. Leads(store[m], w, k, Promised(c, m, k))
      BY <2>1, <2>3 DEF w
    <3>2. Leads(Do(store[m], Head(w)), Tail(w), k, Promised(c, m, k))
      BY <1>1, <1>3, <3>1, LeadsTail
    <3> QED
      BY <1>1, <1>3, <1>4, <2>3, <3>2
  <2> QED
    BY <2>2, <2>3
<1>6. ASSUME Awaited(c, m), Reading(c, k), cmd[c].at # "migrate" PROVE cmd'[c].reply = expect[k]
  <2>1. ~Idle(c) /\ cmd[c].rpc = "sent" /\ Target(c) = m /\ Len(w) = 1
    BY <1>1, <1>6 DEF Awaited, w
  <2>2. w[1] = RequestOf(c)
    BY <1>0, <1>1, <2>1 DEF AwaitedIsLast, w
  <2>3. Head(w) = RequestOf(c) /\ Len(Tail(w)) = 0 /\ Tail(w) \in Seq(Request)
    BY <1>1, <2>1, <2>2, TailFacts
  <2>5. RequestOf(c).kind = "fetch" /\ RequestOf(c).key = k /\ m \in {Primary(c, k), Buddy(c, k)}
    BY <1>6, <2>1 DEF Reading, RequestOf, Target
  <2>6. Do(store[m], Head(w)) = store[m] /\ store[m] \in [Key -> Held]
    BY <1>2, <1>3, <2>3, <2>5, DoFacts
  <2>7. Promised(c, m, k) = expect[k]
    BY <1>6 DEF Promised, Writing, Reading
  <2>8. Leads(store[m], w, k, expect[k])
    BY <2>5, <2>7 DEF InStep, w
  <2>9. Leads(store[m], Tail(w), k, expect[k])
    BY <1>1, <2>6, <2>8, LeadsTail
  <2> DEFINE u == Tail(w)
  <2>10. Len(u) = 0 /\ Leads(store[m], u, k, expect[k])
    BY <2>3, <2>9
  <2> HIDE DEF u
  <2>11. store[m][k] = expect[k]
    BY <2>6, <2>10, LeadsEmpty
  <2> QED
    BY <1>1, <1>6, <2>3, <2>5, <2>11
<1>7. Reading(c, k)' <=> Reading(c, k)
  BY <1>0, <1>1, Frame, Underway
<1>8. Reading(c, k)' /\ cmd'[c].rpc = "answered" /\ cmd'[c].at # "migrate" => cmd'[c].reply = expect'[k]
  BY <1>1, <1>6, <1>7 DEF InStep
<1>9. Reading(c, k)' /\ cmd'[c].at = "migrate" => cmd'[c].val = expect'[k]
  BY <1>1, <1>7 DEF InStep
<1> QED
  BY <1>0, <1>1, <1>5, <1>8, <1>9, InStepNext

\* A command goes on or ends: it has been asked of both replicas when it takes effect
\* in expect.
LEMMA SoloGoesOn ==
  ASSUME CommonInv, RingStays, RingStaysInv, NEW c \in Client, NEW k \in Key, InStep(c, k),
         GoesOn(c)
  PROVE  InStep(c, k)'
<1> USE DEF CommonInv
<1>1. ~Idle(c) /\ cmd[c].rpc # "none"
  BY GoesOnFacts
<1>2. PICK reply \in Held \cup {Failed} :
        /\ Continue(c, reply)
        /\ reply = Failed \/ (cmd[c].rpc = "answered" /\ reply = cmd[c].reply)
  BY GoesOnFacts
<1>3. UNCHANGED <<store, place, wire>>
  BY <1>1, <1>2, ContinueCases
<1>4. ASSUME \A n \in Node : n \in {Primary(c, k), Buddy(c, k)} =>
               Promised(c, n, k)' = Promised(c, n, k)
      PROVE  \A n \in Node : n \in {Primary(c, k), Buddy(c, k)} =>
               Leads(store'[n], wire'[c][n], k, Promised(c, n, k)')
  BY <1>3, <1>4 DEF InStep
<1>5. ASSUME NEW result, Finish(c, result),
             cmd[c].op # "get" => cmd[c].at = "buddy" \/ Buddy(c, cmd[c].key) = Primary(c, cmd[c].key)
      PROVE  InStep(c, k)'
  <2>1. Idle(c)' /\ expect' = Map!After(expect, cmd[c].op, cmd[c].key, cmd[c].val)
    BY <1>5, FinishFacts
  <2>2. ASSUME NEW n, n \in {Primary(c, k), Buddy(c, k)} PROVE Promised(c, n, k)' = Promised(c, n, k)
    <3>1. Promised(c, n, k)' = expect'[k]
      BY <2>1 DEF Promised, Writing
    <3>2. CASE Writing(c, k)
      <4>1. Sent(c, n)
        BY <1>1, <1>5, <2>2, <3>2 DEF Sent, Writing
      <4> QED
        BY <2>1, <3>1, <3>2, <4>1 DEF Promised, With, Writing
    <3>3. CASE ~Writing(c, k) /\ cmd[c].key # k
      <4>1. expect'[k] = expect[k]
        BY <1>1, <2>1, <3>3, CommandFacts DEF Map!After, TypeOK, Cmd
      <4> QED
        BY <3>1, <3>3, <4>1 DEF Promised
    <3>4. CASE ~Writing(c, k) /\ cmd[c].key = k
      <4>1. expect' = expect
        BY <1>1, <2>1, <3>4 DEF Map!After, Writing
      <4> QED
        BY <3>1, <3>4, <4>1 DEF Promised
    <3> QED
      BY <3>2, <3>3, <3>4
  <2> QED
    BY <1>3, <1>4, <2>1, <2>2, InStepNext DEF Reading
<1>6. ASSUME NEW at \in {"buddy", "migrate"}, NEW v, Proceed(c, at, v), expect' = expect,
             \/ cmd[c].op = "get" /\ (at = "migrate" /\ cmd[c].key = k => v = expect[k])
             \/ /\ cmd[c].op # "get" /\ at = "buddy" /\ v = cmd[c].val
                /\ cmd[c].at = "primary" /\ Buddy(c, cmd[c].key) # Primary(c, cmd[c].key)
      PROVE  InStep(c, k)'
  <2>1. /\ cmd'[c].at = at /\ cmd'[c].val = v /\ cmd'[c].rpc = "none"
        /\ cmd'[c].op = cmd[c].op /\ cmd'[c].key = cmd[c].key /\ ~Idle(c)'
    BY <1>1, <1>6, ProceedFacts
  <2>2. (Writing(c, k)' <=> Writing(c, k)) /\ (Reading(c, k)' <=> Reading(c, k))
    BY <1>1, <2>1 DEF Writing, Reading
  <2>3. ASSUME NEW n, n \in {Primary(c, k), Buddy(c, k)} PROVE Promised(c, n, k)' = Promised(c, n, k)
    <3>1. CASE ~Writing(c, k)
      BY <1>6, <2>2, <3>1 DEF Promised
    <3>2. CASE Writing(c, k)
      <4>1. Sent(c, n)' <=> Sent(c, n)
        BY <1>1, <1>3, <1>6, <2>1, <2>3, <3>2 DEF Sent, Writing, Primary, Buddy
      <4> QED
        BY <1>6, <2>1, <2>2, <3>2, <4>1 DEF Promised, With, Map!After, Writing
    <3> QED
      BY <3>1, <3>2
  <2> QED
    BY <1>3, <1>4, <1>6, <2>1, <2>2, <2>3, InStepNext DEF Reading, Writing
<1>7. CASE /\ \E result \in Held \cup {Failed} : Finish(c, result)
           /\ cmd[c].op # "get" =>
                cmd[c].at = "buddy" \/ Buddy(c, cmd[c].key) = Primary(c, cmd[c].key)
  BY <1>5, <1>7
<1>8. CASE /\ cmd[c].at = "primary" /\ Buddy(c, cmd[c].key) # Primary(c, cmd[c].key)
           /\ cmd[c].op = "get" /\ Proceed(c, "buddy", Missing) /\ expect' = expect
  BY <1>6, <1>8
<1>9. CASE /\ cmd[c].at = "primary" /\ Buddy(c, cmd[c].key) # Primary(c, cmd[c].key)
           /\ cmd[c].op # "get" /\ Proceed(c, "buddy", cmd[c].val) /\ expect' = expect
  BY <1>6, <1>9
<1>10. CASE /\ cmd[c].at = "buddy" /\ cmd[c].op = "get" /\ ~IsMissOrError(reply)
            /\ Proceed(c, "migrate", reply) /\ expect' = expect
  <2>1. cmd[c].key = k => reply = expect[k]
    BY <1>1, <1>2, <1>10 DEF InStep, Reading, IsMissOrError
  <2> QED
    BY <1>6, <1>10, <2>1
<1> QED
  BY <1>1, <1>2, <1>7, <1>8, <1>9, <1>10, ContinueCases

\* SoloInv holds at the start: the stores are empty.
LEMMA SoloInit == Init => SoloInv
<1> SUFFICES ASSUME Init, Solo, NEW c \in Users, NEW k \in Key PROVE InStep(c, k)
  BY DEF SoloInv
<1>1. TypeOK /\ RingStays /\ RingStaysInv /\ c \in Client
  BY InitType, RingStaysInit, UsersAreClients DEF Solo
<1>2. Idle(c) /\ expect = Empty
  BY <1>1 DEF Init, Idle, Resting
<1>3. ASSUME NEW n \in Node PROVE Leads(store[n], wire[c][n], k, Promised(c, n, k))
  <2>1. store[n] = Empty /\ wire[c][n] = <<>> /\ Promised(c, n, k) = Empty[k]
    BY <1>1, <1>2 DEF Init, Promised, Writing
  <2>2. Empty \in [Key -> Held]
    BY DEF Empty, Held
  <2> QED
    BY <2>1, <2>2, LeadsEmpty
<1> QED
  BY <1>1, <1>2, <1>3, SamePlace DEF InStep, Reading

\* SoloInv is kept.
LEMMA SoloStep ==
  ASSUME CommonInv, RingStaysInv, SoloInv, [Next]_vars
  PROVE  SoloInv'
<1> USE DEF CommonInv
<1> SUFFICES ASSUME Solo, NEW c \in Users, NEW k \in Key PROVE InStep(c, k)'
  BY EnvironmentStays DEF SoloInv
<1>1. InStep(c, k) /\ RingStays /\ c \in Client
  BY UsersAreClients DEF SoloInv, Solo
<1>2. \A d \in Users : d = c
  BY SoloUser
<1>3. ASSUME NEW op \in Op, NEW l \in Key, NEW v \in Held, Begin(c, op, l, v) PROVE InStep(c, k)'
  BY <1>1, <1>3, SoloBegin
<1>4. ASSUME Send(c) PROVE InStep(c, k)'
  BY <1>1, <1>4, SoloSend
<1>5. ASSUME Direct(c) PROVE InStep(c, k)'
  BY <1>1, <1>5, SoloDirect
<1>6. ASSUME GoesOn(c) PROVE InStep(c, k)'
  BY <1>1, <1>6, SoloGoesOn
<1>7. ASSUME NEW n \in Node, Handle(c, n) PROVE InStep(c, k)'
  BY <1>1, <1>7, SoloHandle
<1>8. CASE UNCHANGED vars
  <2>1. UNCHANGED <<store, place, cmd, wire, expect>>
    BY <1>8 DEF vars
  <2>2. /\ \A n : Promised(c, n, k)' = Promised(c, n, k)
        /\ Reading(c, k)' <=> Reading(c, k)
    BY <2>1 DEF Promised, With, Map!After, Writing, Reading, Sent, Idle, Primary, Buddy
  <2>3. /\ \A n \in {Primary(c, k), Buddy(c, k)} : Leads(store[n], wire[c][n], k, Promised(c, n, k))
        /\ Reading(c, k) /\ cmd[c].rpc = "answered" /\ cmd[c].at # "migrate" => cmd[c].reply = expect[k]
        /\ Reading(c, k) /\ cmd[c].at = "migrate" => cmd[c].val = expect[k]
    BY <1>1 DEF InStep
  <2> QED
    BY <1>1, <2>1, <2>2, <2>3, InStepNext
<1> QED
  BY <1>1, <1>2, <1>3, <1>4, <1>5, <1>6, <1>7, <1>8, StaysCases

\* A client alone is always in step with both replicas.
LEMMA SoloInvariance == Spec => [](RingStaysInv /\ SoloInv)
<1>1. Init => RingStaysInv /\ SoloInv
  BY RingStaysInit, SoloInit
<1>2. CommonInv /\ RingStaysInv /\ SoloInv /\ [Next]_vars => (RingStaysInv /\ SoloInv)'
  BY RingStaysStep, SoloStep DEF CommonInv
<1> QED
  BY <1>1, <1>2, CommonInvariance, PTL DEF Spec

\* A client alone, whose requests may be executed after it gave them up: once its
\* connections are empty both replicas hold what its commands would have left.
THEOREM LateSettle == Spec => []LateRequestsSettle
<1>1. CommonInv /\ RingStaysInv /\ SoloInv => LateRequestsSettle
  <2> SUFFICES ASSUME CommonInv, RingStaysInv, SoloInv, Quiet, Solo, NEW k \in Key, NEW c \in Users
               PROVE  /\ store[Primary(c, k)][k] = expect[k]
                      /\ store[Buddy(c, k)][k] = expect[k]
    BY DEF LateRequestsSettle, Solo
  <2>1. c \in Client /\ TypeOK /\ RingStays
    BY UsersAreClients DEF CommonInv, Solo
  <2>2. ASSUME NEW n \in {Primary(c, k), Buddy(c, k)} PROVE store[n][k] = expect[k]
    <3>1. n \in Node
      BY <2>1, SamePlace
    <3>2. wire[c][n] = <<>> /\ Promised(c, n, k) = expect[k]
      BY <2>1, <3>1 DEF Quiet, Promised, Writing
    <3>3. Leads(store[n], wire[c][n], k, Promised(c, n, k))
      BY DEF SoloInv, InStep
    <3>4. store[n] \in [Key -> Held]
      BY <2>1, <3>1 DEF TypeOK, Held
    <3> QED
      BY <3>2, <3>3, <3>4, LeadsEmpty
  <2> QED
    BY <2>2
<1> QED
  BY <1>1, CommonInvariance, SoloInvariance, PTL

-----------------------------------------------------------------------------
(* What a step does to a client's command *)

\* Where the request of the command is executed.
Reached(d) == IF AtLocalNode(d) THEN First ELSE Target(d)

Starts(d) ==
  /\ Idle(d) /\ ~Idle(d)' /\ cmd'[d].at = "primary" /\ cmd'[d].rpc = "none"
  /\ \E o \in env.load : o.op = cmd'[d].op

\* It makes a request or is answered.
Advances(d) ==
  /\ ~Idle(d) /\ ~Idle(d)'
  /\ cmd'[d].at = cmd[d].at /\ cmd'[d].op = cmd[d].op /\ cmd'[d].key = cmd[d].key
  /\ cmd'[d].val = cmd[d].val /\ cmd'[d].rpc # "none"
  /\ cmd[d].rpc = "sent" \/ (cmd[d].rpc = "none" /\ (Send(d) \/ Direct(d)))
  /\ RequestOf(d).kind = "fetch" /\ cmd'[d].rpc = "answered" =>
       cmd'[d].reply = store[Reached(d)][cmd[d].key]

Ends(d) ==
  /\ ~Idle(d) /\ Idle(d)' /\ cmd[d].rpc # "none"
  /\ cmd[d].op # "get" => cmd[d].at = "buddy" \/ Buddy(d, cmd[d].key) = Primary(d, cmd[d].key)

\* It is ready for its next request.
MovesOn(d) ==
  /\ ~Idle(d) /\ ~Idle(d)' /\ cmd[d].rpc # "none" /\ cmd'[d].rpc = "none"
  /\ cmd'[d].op = cmd[d].op /\ cmd'[d].key = cmd[d].key
  /\ Buddy(d, cmd[d].key) # Primary(d, cmd[d].key)
  /\ \/ cmd[d].at = "primary" /\ cmd'[d].at = "buddy"
     \/ /\ cmd[d].at = "buddy" /\ cmd[d].op = "get" /\ cmd'[d].at = "migrate"
        /\ cmd[d].rpc = "answered" /\ cmd[d].reply # Missing

\* A command starts, advances, moves on to its next request, or ends.
LEMMA Moves ==
  ASSUME CommonInv, [Next]_vars, NEW d \in Client
  PROVE  /\ place'[d] = place[d] \/ (Idle(d) /\ cmd'[d] = cmd[d])
         /\ cmd'[d] = cmd[d] \/ Starts(d) \/ Advances(d) \/ Ends(d) \/ MovesOn(d)
<1> USE DEF CommonInv
<1> DEFINE Kept == place'[d] = place[d]
           Goal == cmd'[d] = cmd[d] \/ Starts(d) \/ Advances(d) \/ Ends(d) \/ MovesOn(d)
<1>1. ASSUME NEW c \in Client, NEW op \in Op, NEW k \in Key, NEW v \in Held, Begin(c, op, k, v)
      PROVE  Kept /\ Goal
  BY <1>1, BeginFacts DEF Starts
<1>2. ASSUME NEW c \in Client, Send(c) PROVE Kept /\ Goal
  BY <1>2, SendFacts DEF Advances
<1>3. ASSUME NEW c \in Client, Direct(c) PROVE Kept /\ Goal
  BY <1>3, DirectFacts DEF Advances, Reached
<1>4. ASSUME NEW c \in Client, GoesOn(c) PROVE Kept /\ Goal
  <2>2. ~Idle(c) /\ cmd[c].rpc # "none"
    BY <1>4, GoesOnFacts
  <2>3. PICK reply \in Held \cup {Failed} :
          /\ Continue(c, reply)
          /\ reply = Failed \/ (cmd[c].rpc = "answered" /\ reply = cmd[c].reply)
    BY <1>4, GoesOnFacts
  <2>k. Kept
    BY <2>2, <2>3, ContinueCases
  <2>4. CASE c # d
    BY <2>2, <2>3, <2>4, <2>k, ContinueCases, FinishFacts, ProceedFacts
  <2>5. CASE c = d
    <3> SUFFICES Goal
      BY <2>k
    <3>1. CASE /\ \E result \in Held \cup {Failed} : Finish(d, result)
               /\ cmd[d].op # "get" =>
                    cmd[d].at = "buddy" \/ Buddy(d, cmd[d].key) = Primary(d, cmd[d].key)
      BY <2>2, <2>5, <3>1, FinishFacts DEF Ends
    <3>2. ASSUME NEW v, Proceed(d, "buddy", v), cmd[d].at = "primary",
                 Buddy(d, cmd[d].key) # Primary(d, cmd[d].key)
          PROVE  Goal
      BY <2>2, <2>5, <3>2, ProceedFacts DEF MovesOn
    <3>3. CASE cmd[d].at = "buddy" /\ cmd[d].op = "get" /\ ~IsMissOrError(reply)
               /\ Proceed(d, "migrate", reply)
      <4>1. cmd[d].rpc = "answered" /\ cmd[d].reply # Missing
        BY <2>3, <2>5, <3>3 DEF IsMissOrError
      <4>2. Buddy(d, cmd[d].key) # Primary(d, cmd[d].key)
        BY <2>2, <2>5, <3>3 DEF CommandsMakeSense
      <4> QED
        BY <2>2, <2>5, <3>3, <4>1, <4>2, ProceedFacts DEF MovesOn
    <3> HIDE DEF Goal
    <3> QED
      BY <2>2, <2>3, <2>5, <3>1, <3>2, <3>3, ContinueCases
  <2> QED
    BY <2>4, <2>5
<1>5. ASSUME NEW c \in Client, NEW n \in Node, Handle(c, n) PROVE Kept /\ Goal
  <2>2. CASE c # d \/ ~Awaited(c, n)
    BY <1>5, <2>2, HandleFacts
  <2>3. CASE c = d /\ Awaited(c, n)
    <3>1. /\ ~Idle(c) /\ cmd[c].rpc = "sent" /\ Target(c) = n /\ Len(wire[c][n]) = 1
          /\ wire[c][n] # <<>> /\ wire[c][n] \in Seq(Request)
      BY <1>5, <2>3, HandleFacts DEF Awaited
    <3>2. Head(wire[c][n]) = RequestOf(c)
      <4>1. wire[c][n][1] = RequestOf(c)
        BY <3>1 DEF AwaitedIsLast
      <4> QED
        BY <3>1, <4>1, TailFacts
    <3>3. RequestOf(c).key = cmd[c].key
      BY DEF RequestOf
    <3>4. Reached(c) = n
      BY <3>1 DEF Reached, LocalIsCut, AtLocalNode
    <3> QED
      BY <1>5, <2>3, <3>1, <3>2, <3>3, <3>4, HandleFacts DEF Advances
  <2> QED
    BY <2>2, <2>3
<1>6. ASSUME NEW c \in Client, Refresh(c) PROVE (Kept \/ Idle(d)) /\ cmd'[d] = cmd[d]
  BY <1>6, OtherFacts
<1>7. ASSUME NEW c \in Client, NEW live \in SUBSET Node, Ask(c, live) PROVE Kept /\ cmd'[d] = cmd[d]
  BY <1>7, OtherFacts
<1>8. ASSUME NEW n \in Node, Crash(n) \/ Restart(n) PROVE Kept /\ cmd'[d] = cmd[d]
  BY <1>8, OtherFacts
<1>9. ASSUME UNCHANGED vars PROVE Kept /\ cmd'[d] = cmd[d]
  BY <1>9 DEF vars
<1> HIDE DEF Goal, Kept
<1>10. (Kept /\ Goal) \/ ((Kept \/ Idle(d)) /\ cmd'[d] = cmd[d])
  BY <1>1, <1>2, <1>3, <1>4, <1>5, <1>6, <1>7, <1>8, <1>9, StepCases
<1> QED
  BY <1>10 DEF Goal, Kept

\* ... in its place, while the ring stays.
LEMMA CommandMoves ==
  ASSUME CommonInv, RingStays, RingStaysInv, [Next]_vars, NEW d \in Client
  PROVE  /\ place' = place
         /\ ~Idle(d) => Reached(d) = Target(d)
         /\ cmd'[d] = cmd[d] \/ Starts(d) \/ Advances(d) \/ Ends(d) \/ MovesOn(d)
<1>1. TypeOK
  BY DEF CommonInv
<1>2. place' = place
  <2>1. UNCHANGED <<env, up, view, place, news>>
    BY <1>1, StaysCases
  <2> QED
    BY <2>1
<1>3. ASSUME ~Idle(d) PROVE Reached(d) = Target(d)
  <2>1. d \in Users /\ Target(d) \in Node
    BY <1>1, <1>3, CommandFacts DEF RingStaysInv
  <2> QED
    BY <1>1, <2>1, LocalTarget DEF Reached, CommonInv, RingStays
<1> QED
  BY <1>2, <1>3, Moves

-----------------------------------------------------------------------------
(* A key that nobody deletes *)

\* What is on n for a key stays there when something else than a delete is executed.
LEMMA DoKeeps ==
  ASSUME NEW m \in [Key -> Held], NEW r \in Request, r.kind # "delete",
         r.kind \in {"insert", "update"} => r.val \in Value, NEW k \in Key
  PROVE  /\ m[k] # Missing => Do(m, r)[k] # Missing
         /\ r.kind = "insert" /\ r.key = k => Do(m, r)[k] # Missing
         /\ Do(m, r)[k] # Missing => m[k] # Missing \/ (r.kind = "insert" /\ r.key = k)
<1>1. r.key \in Key /\ r.kind \in {"fetch", "insert", "update", "delete"}
  BY DEF Request, Writes
<1>2. Missing \notin Value
  BY KVAssumption
<1>3. CASE r.kind = "fetch"
  BY <1>3, DoFacts
<1>4. CASE r.kind = "insert"
  BY <1>1, <1>2, <1>4 DEF Do, Map!After
<1>5. CASE r.kind = "update"
  BY <1>1, <1>2, <1>5 DEF Do, Map!After
<1> QED
  BY <1>1, <1>3, <1>4, <1>5

\* Where no delete is ordered, none is made.
LEMMA KeepsStep ==
  ASSUME CommonInv, Undeleted, KeepsKeys, [Next]_vars
  PROVE  KeepsKeys'
<1> USE DEF CommonInv
<1>1. \A o \in env.load : o.op # "delete"
  BY DEF Undeleted
<1>2. ASSUME NEW c \in Client, ~Idle(c)' PROVE cmd'[c].op # "delete"
  <2>1. CASE cmd'[c] = cmd[c]
    BY <1>2, <2>1 DEF KeepsKeys, Idle
  <2>2. CASE Starts(c)
    BY <1>1, <2>2 DEF Starts
  <2>3. CASE Advances(c) \/ MovesOn(c)
    BY <2>3 DEF Advances, MovesOn, KeepsKeys
  <2>4. CASE Ends(c)
    BY <1>2, <2>4 DEF Ends
  <2> QED
    BY <1>1, <2>1, <2>2, <2>3, <2>4, Moves
<1>3. ASSUME NEW c \in Client, NEW n \in Node, NEW i \in 1..Len(wire'[c][n])
      PROVE  wire'[c][n][i].kind # "delete"
  <2>1. CASE \E j \in 1..Len(wire[c][n]) : wire'[c][n][i] = wire[c][n][j]
    BY <2>1 DEF KeepsKeys
  <2>2. CASE Send(c) /\ wire'[c][n][i] = RequestOf(c)
    BY <2>2, SendFacts DEF KeepsKeys, RequestOf
  <2> QED
    BY <2>1, <2>2, RequestsStep
<1> QED
  BY <1>2, <1>3 DEF KeepsKeys

\* A client asks n to insert k.
Inserting(c, n, k) ==
  (Send(c) \/ Direct(c)) /\ Target(c) = n /\ RequestOf(c).kind = "insert" /\ cmd[c].key = k

\* The last request of an insert that is asked for.
LEMMA RequestFacts ==
  ASSUME CommonInv, KeepsKeys, NEW c \in Client, ~Idle(c)
  PROVE  /\ RequestOf(c) \in Request /\ RequestOf(c).kind # "delete" /\ RequestOf(c).key = cmd[c].key
         /\ RequestOf(c).kind \in {"insert", "update"} => RequestOf(c).val \in Value
<1>1. RequestOf(c) \in Request
  BY CommandFacts DEF CommonInv
<1> QED
  BY <1>1 DEF CommonInv, CommandsMakeSense, KeepsKeys, RequestOf

\* Whether a connection holds an insert, when a request comes or goes.
LEMMA InsertsFacts ==
  ASSUME NEW w \in Seq(Request), NEW k \in Key
  PROVE  /\ \A r \in Request : Inserts(Append(w, r), k) <=> Inserts(w, k) \/ (r.kind = "insert" /\ r.key = k)
         /\ w # <<>> => (Inserts(w, k) <=> \/ Inserts(Tail(w), k)
                                           \/ Head(w).kind = "insert" /\ Head(w).key = k)
<1>1. ASSUME NEW r \in Request
      PROVE  Inserts(Append(w, r), k) <=> Inserts(w, k) \/ (r.kind = "insert" /\ r.key = k)
  <2> DEFINE u == Append(w, r)
             L == Len(w)
  <2>1. L \in Nat /\ Len(u) = L + 1 /\ u[L + 1] = r /\ \A i \in 1..L : u[i] = w[i]
    BY AppendFacts
  <2>2. (Inserts(u, k) <=> \E i \in 1..Len(u) : u[i].kind = "insert" /\ u[i].key = k)
        /\ (Inserts(w, k) <=> \E i \in 1..L : w[i].kind = "insert" /\ w[i].key = k)
    BY DEF Inserts
  <2> HIDE DEF u, L
  <2>3. \A i \in 1..(L + 1) : i \in 1..L \/ i = L + 1
    BY <2>1
  <2>4. L + 1 \in 1..(L + 1) /\ \A i \in 1..L : i \in 1..(L + 1)
    BY <2>1
  <2>5. Inserts(u, k) <=> Inserts(w, k) \/ (r.kind = "insert" /\ r.key = k)
    BY <2>1, <2>2, <2>3, <2>4
  <2> QED
    BY <2>5 DEF u
<1>2. ASSUME w # <<>>
      PROVE  Inserts(w, k) <=> Inserts(Tail(w), k) \/ (Head(w).kind = "insert" /\ Head(w).key = k)
  <2> DEFINE u == Tail(w)
             L == Len(w)
             r == Head(w)
  <2>1. L \in Nat \ {0} /\ Len(u) = L - 1 /\ r = w[1] /\ \A i \in 1..(L - 1) : u[i] = w[i + 1]
    BY <1>2, TailFacts
  <2>2. (Inserts(u, k) <=> \E i \in 1..Len(u) : u[i].kind = "insert" /\ u[i].key = k)
        /\ (Inserts(w, k) <=> \E i \in 1..L : w[i].kind = "insert" /\ w[i].key = k)
    BY DEF Inserts
  <2> HIDE DEF u, L, r
  <2>3. 1 \in 1..L /\ \A i \in 1..(L - 1) : i + 1 \in 1..L
    BY <2>1
  <2>4. \A i \in 1..L : i = 1 \/ (i - 1 \in 1..(L - 1) /\ u[i - 1] = w[i])
    BY <2>1
  <2>5. Inserts(u, k) \/ (r.kind = "insert" /\ r.key = k) => Inserts(w, k)
    BY <2>1, <2>2, <2>3
  <2>6. Inserts(w, k) => Inserts(u, k) \/ (r.kind = "insert" /\ r.key = k)
    BY <2>1, <2>2, <2>4
  <2> QED
    BY <2>5, <2>6 DEF u, r
<1> QED
  BY <1>1, <1>2

\* A key that is on a node, or on its way there, stays so; it comes there by an insert.
LEMMA PresenceGrows ==
  ASSUME CommonInv, RingStaysInv, NoDeletes, KeepsKeys, [Next]_vars, NEW n \in Node, NEW k \in Key
  PROVE  /\ Present(n, k) => Present(n, k)'
         /\ \A c \in Client : Inserting(c, n, k) => Present(n, k)'
         /\ Present(n, k)' => Present(n, k) \/ \E c \in Client : Inserting(c, n, k)
<1> USE DEF CommonInv
<1> DEFINE Goal == /\ Present(n, k) => Present(n, k)'
                   /\ Present(n, k)' => Present(n, k) \/ \E c \in Client : Inserting(c, n, k)
<1>0. RingStays /\ up = Node /\ store \in [Node -> [Key -> Held]]
      /\ \A c \in Client : wire[c][n] \in Seq(Request)
  BY DEF NoDeletes, RingStaysInv, TypeOK, Held
<1>1. ASSUME store' = store, wire' = wire PROVE Goal
  BY <1>1 DEF Present, Inserts
<1>2. ASSUME NEW c \in Client, Send(c)
      PROVE  Goal /\ (Target(c) = n /\ RequestOf(c).kind = "insert" /\ cmd[c].key = k => Present(n, k)')
  <2> DEFINE r == RequestOf(c)
  <2>1. /\ store' = store /\ r \in Request /\ r.key = cmd[c].key
        /\ \A d \in Client \ {c} : wire'[d] = wire[d]
        /\ Target(c) # n => wire'[c][n] = wire[c][n]
        /\ Target(c) = n => wire'[c][n] = Append(wire[c][n], r)
    BY <1>0, <1>2, SendFacts, RequestFacts
  <2>2. Target(c) = n => (Inserts(wire'[c][n], k) <=>
                            Inserts(wire[c][n], k) \/ (r.kind = "insert" /\ r.key = k))
    <3>1. wire[c][n] \in Seq(Request) /\ r \in Request
      BY <1>0, <2>1
    <3> HIDE DEF r
    <3>2. Inserts(Append(wire[c][n], r), k) <=> Inserts(wire[c][n], k) \/ (r.kind = "insert" /\ r.key = k)
      BY <3>1, InsertsFacts
    <3> QED
      BY <2>1, <3>2 DEF r
  <2>3. Target(c) = n /\ r.kind = "insert" /\ r.key = k => Inserting(c, n, k)
    BY <1>2, <2>1 DEF Inserting
  <2>4. Target(c) # n => UNCHANGED wire[c][n]
    BY <2>1
  <2>5. \A d \in Client \ {c} : Inserts(wire'[d][n], k) <=> Inserts(wire[d][n], k)
    BY <2>1
  <2>6. Present(n, k)' <=> store'[n][k] # Missing \/ \E d \in Client : Inserts(wire'[d][n], k)
    BY DEF Present, Inserts
  <2> HIDE DEF r
  <2>7. Present(n, k)' <=> Present(n, k) \/ (Target(c) = n /\ r.kind = "insert" /\ r.key = k)
    BY <2>1, <2>2, <2>4, <2>5, <2>6 DEF Present
  <2> QED
    BY <2>1, <2>3, <2>7 DEF r
<1>3. ASSUME NEW c \in Client, NEW m \in Node, NEW r \in Request, r.kind # "delete",
             r.kind \in {"insert", "update"} => r.val \in Value,
             store' = Executed(m, r), m = n
      PROVE  /\ store[n][k] # Missing => store'[n][k] # Missing
             /\ r.kind = "insert" /\ r.key = k => store'[n][k] # Missing
             /\ store'[n][k] # Missing => store[n][k] # Missing \/ (r.kind = "insert" /\ r.key = k)
  <2>1. store'[n] = Do(store[n], r) /\ store[n] \in [Key -> Held]
    BY <1>0, <1>3, ExecutedIsDo
  <2> QED
    BY <1>3, <2>1, DoKeeps
<1>4. ASSUME NEW m \in Node, NEW r \in Request, store' = Executed(m, r), m # n PROVE store'[n] = store[n]
  BY <1>0, <1>4, ExecutedIsDo
<1>5. ASSUME NEW c \in Users, Direct(c)
      PROVE  Goal /\ (Target(c) = n /\ RequestOf(c).kind = "insert" /\ cmd[c].key = k => Present(n, k)')
  <2> DEFINE r == RequestOf(c)
  <2>0. c \in Client
    BY UsersAreClients
  <2>1. /\ ~Idle(c) /\ Target(c) = First /\ First \in Node /\ store' = Executed(First, r) /\ wire' = wire
    BY <1>0, <1>5, <2>0, DirectFacts, LocalTarget DEF CommonInv, NoDeletes, RingStays
  <2>2. /\ r \in Request /\ r.kind # "delete" /\ r.key = cmd[c].key
        /\ r.kind \in {"insert", "update"} => r.val \in Value
    BY <2>0, <2>1, RequestFacts
  <2>3. Target(c) = n /\ r.kind = "insert" /\ r.key = k => Inserting(c, n, k)
    BY <1>5, <2>2 DEF Inserting
  <2> HIDE DEF r
  <2>4. (\E d \in Client : Inserts(wire[d][n], k)') <=> (\E d \in Client : Inserts(wire[d][n], k))
    BY <2>1 DEF Inserts
  <2>5. CASE First # n
    <3>1. store'[n] = store[n]
      BY <1>4, <2>1, <2>2, <2>5
    <3> QED
      BY <2>1, <2>4, <2>5, <3>1 DEF Present
  <2>6. CASE First = n
    <3>1. /\ store[n][k] # Missing => store'[n][k] # Missing
          /\ r.kind = "insert" /\ r.key = k => store'[n][k] # Missing
          /\ store'[n][k] # Missing => store[n][k] # Missing \/ (r.kind = "insert" /\ r.key = k)
      BY <1>3, <2>0, <2>1, <2>2, <2>6
    <3> QED
      BY <2>0, <2>1, <2>2, <2>3, <2>4, <2>6, <3>1 DEF Present, r
  <2> QED
    BY <2>5, <2>6
<1>6. ASSUME NEW c \in Users, NEW m \in Node, Handle(c, m) PROVE Goal
  <2> DEFINE w == wire[c][m]
             r == Head(w)
  <2>0. c \in Client
    BY UsersAreClients
  <2>1. /\ w # <<>> /\ w \in Seq(Request) /\ store' = Executed(m, r)
        /\ \A d \in Client \ {c} : wire'[d] = wire[d]
        /\ wire'[c][m] = Tail(w)
        /\ \A l \in Node \ {m} : wire'[c][l] = wire[c][l]
    BY <1>6, <2>0, HandleFacts
  <2>2. /\ r \in Request /\ r.kind # "delete"
        /\ r.kind \in {"insert", "update"} => r.val \in Value
    <3>1. r \in Request /\ r = w[1] /\ 1 \in 1..Len(w)
      BY <2>1, TailFacts
    <3> QED
      BY <2>0, <3>1 DEF KeepsKeys, WritesHaveValues
  <2>3. Inserts(w, k) <=> Inserts(Tail(w), k) \/ (r.kind = "insert" /\ r.key = k)
    BY <2>1, InsertsFacts
  <2>4. Present(n, k)' <=> store'[n][k] # Missing \/ \E d \in Client : Inserts(wire'[d][n], k)
    BY DEF Present, Inserts
  <2>5. \A d \in Client \ {c} : Inserts(wire'[d][n], k) <=> Inserts(wire[d][n], k)
    BY <2>1
  <2>6. CASE m # n
    <3>1. store'[n] = store[n] /\ wire'[c][n] = wire[c][n]
      BY <1>4, <2>1, <2>2, <2>6
    <3>2. Present(n, k)' <=> Present(n, k)
      BY <2>4, <2>5, <3>1 DEF Present
    <3> QED
      BY <3>2
  <2>7. CASE m = n
    <3>1. /\ store[n][k] # Missing => store'[n][k] # Missing
          /\ r.kind = "insert" /\ r.key = k => store'[n][k] # Missing
          /\ store'[n][k] # Missing => store[n][k] # Missing \/ (r.kind = "insert" /\ r.key = k)
      BY <1>3, <2>0, <2>1, <2>2, <2>7
    <3>2. w = wire[c][n] /\ Tail(w) = wire'[c][n]
      BY <2>1, <2>7
    <3> HIDE DEF w, r
    <3>3. Present(n, k)' <=> Present(n, k)
      BY <2>0, <2>3, <2>4, <2>5, <3>1, <3>2 DEF Present
    <3> QED
      BY <3>3
  <2> QED
    BY <2>6, <2>7
<1>7. ASSUME NEW c \in Client, GoesOn(c) PROVE store' = store /\ wire' = wire
  BY <1>7, GoesOnFacts, ContinueCases
<1>8. ASSUME NEW c \in Client, NEW op \in Op, NEW l \in Key, NEW v \in Held, Begin(c, op, l, v)
      PROVE  store' = store /\ wire' = wire
  BY <1>8, BeginFacts
<1>9. ASSUME UNCHANGED vars PROVE store' = store /\ wire' = wire
  BY <1>9 DEF vars
<1> HIDE DEF Goal
<1>10. Goal
  BY <1>0, <1>1, <1>2, <1>5, <1>6, <1>7, <1>8, <1>9, StaysCases, UsersAreClients
<1>11. ASSUME NEW c \in Client, Inserting(c, n, k) PROVE Present(n, k)'
  <2>1. c \in Users
    BY <1>0, <1>11, SendFacts, DirectFacts DEF Inserting, RingStaysInv
  <2> QED
    BY <1>2, <1>5, <1>11, <2>1 DEF Inserting
<1> QED
  BY <1>10, <1>11 DEF Goal

\* Evidence is kept: a key that is present stays so.
LEMMA EvidenceStep ==
  ASSUME CommonInv, RingStaysInv, NoDeletes, KeepsKeys, [Next]_vars,
         NEW c \in Client, NEW k \in Key, Evidence(c, k)
  PROVE  Evidence(c, k)'
<1> USE DEF CommonInv
<1>0. /\ RingStays /\ Home(k) \in Node /\ Second(k) \in Node
      /\ Home(k)' = Home(k) /\ Second(k)' = Second(k)
      /\ Primary(c, k) = Home(k) /\ Buddy(c, k) = Second(k)
      /\ place' = place /\ (~Idle(c) => Reached(c) = Target(c))
  BY EnvironmentStays, SamePlace, CommandMoves DEF NoDeletes
<1>1. PICK h \in Node, s \in Node : h = Home(k) /\ s = Second(k)
  BY <1>0
<1>2. /\ Present(h, k) => Present(h, k)'
      /\ Present(s, k) => Present(s, k)'
      /\ Inserting(c, h, k) => Present(h, k)'
  BY PresenceGrows
<1>3. /\ Writing(c, k) /\ cmd[c].op = "insert" /\ Sent(c, h) => Present(h, k)
      /\ Reading(c, k) /\ cmd[c].at = "buddy" /\ cmd[c].rpc = "answered"
           /\ cmd[c].reply # Missing => Present(s, k)
      /\ Reading(c, k) /\ cmd[c].at = "migrate" => Present(s, k)
  BY <1>1 DEF Evidence
<1>4. /\ Home(k)' = h /\ Second(k)' = s
      /\ Primary(c, k)' = h /\ Buddy(c, k)' = s
  BY <1>0, <1>1 DEF Primary, Buddy
<1> DEFINE Goal == /\ Writing(c, k)' /\ cmd'[c].op = "insert" /\ Sent(c, h)' => Present(h, k)'
                   /\ Reading(c, k)' /\ cmd'[c].at = "buddy" /\ cmd'[c].rpc = "answered"
                        /\ cmd'[c].reply # Missing => Present(s, k)'
                   /\ Reading(c, k)' /\ cmd'[c].at = "migrate" => Present(s, k)'
<1>5. ASSUME cmd'[c] = cmd[c] PROVE Goal
  <2>1. (Writing(c, k)' <=> Writing(c, k)) /\ (Reading(c, k)' <=> Reading(c, k))
    BY <1>5 DEF Writing, Reading, Idle
  <2>2. Sent(c, h)' <=> Sent(c, h)
    BY <1>0, <1>5, Frame DEF Sent, Primary, Buddy
  <2> QED
    BY <1>2, <1>3, <1>5, <2>1, <2>2
<1>6. ASSUME Starts(c) PROVE Goal
  BY <1>6 DEF Starts, Sent, Reading
<1>7. ASSUME Advances(c) PROVE Goal
  <2>1. (Writing(c, k)' <=> Writing(c, k)) /\ (Reading(c, k)' <=> Reading(c, k))
    BY <1>7 DEF Advances, Writing, Reading
  <2>2. ASSUME Writing(c, k), cmd[c].op = "insert", Sent(c, h)' PROVE Present(h, k)'
    <3>1. CASE Sent(c, h)
      BY <1>2, <1>3, <2>2, <3>1
    <3>2. CASE ~Sent(c, h)
      <4>1. cmd[c].key = k /\ Primary(c, k) = h /\ Buddy(c, k) = s
        BY <1>0, <1>1, <2>2 DEF Writing
      <4>2. cmd[c].at = "primary" /\ cmd[c].rpc = "none"
        BY <1>4, <1>7, <2>2, <3>2, <4>1 DEF Sent, Advances
      <4>3. Target(c) = h /\ RequestOf(c).kind = "insert" /\ (Send(c) \/ Direct(c))
        BY <1>7, <2>2, <4>1, <4>2 DEF Target, RequestOf, Advances
      <4> QED
        BY <1>2, <4>1, <4>3 DEF Inserting
    <3> QED
      BY <3>1, <3>2
  <2>3. ASSUME Reading(c, k), cmd[c].at = "buddy", cmd'[c].rpc = "answered", cmd'[c].reply # Missing
        PROVE  Present(s, k)'
    <3>1. cmd'[c].reply = store[s][k]
      BY <1>0, <1>1, <1>7, <2>3 DEF Advances, RequestOf, Reading, Target
    <3> QED
      BY <1>2, <2>3, <3>1 DEF Present
  <2> QED
    BY <1>2, <1>3, <1>7, <2>1, <2>2, <2>3 DEF Advances
<1>8. ASSUME Ends(c) PROVE Goal
  BY <1>8 DEF Ends, Writing, Reading
<1>9. ASSUME MovesOn(c) PROVE Goal
  <2>1. (Writing(c, k)' <=> Writing(c, k)) /\ (Reading(c, k)' <=> Reading(c, k))
    BY <1>9 DEF MovesOn, Writing, Reading
  <2>2. ASSUME Writing(c, k) PROVE Sent(c, h)
    BY <1>0, <1>1, <1>9, <2>2 DEF MovesOn, Writing, Sent
  <2> QED
    BY <1>2, <1>3, <1>9, <2>1, <2>2 DEF MovesOn
<1> HIDE DEF Goal
<1>10. Goal
  BY <1>0, <1>5, <1>6, <1>7, <1>8, <1>9, CommandMoves
<1>11. (Sent(c, Home(k)))' <=> Sent(c, h)'
  BY <1>4 DEF Sent
<1>12. (Present(Home(k), k)' <=> Present(h, k)') /\ (Present(Second(k), k)' <=> Present(s, k)')
  BY <1>4 DEF Present, Inserts
<1> QED
  BY <1>10, <1>11, <1>12 DEF Goal, Evidence

\* Paired is kept: a key comes to the first node before the second.
LEMMA PairedStep ==
  ASSUME CommonInv, RingStaysInv, NoDeletes, KeepsKeys, [Next]_vars,
         NEW k \in Key, \A c \in Client : Evidence(c, k), Paired(k)
  PROVE  Paired(k)'
<1> USE DEF CommonInv
<1>0. /\ RingStays /\ Home(k) \in Node /\ Second(k) \in Node
      /\ Home(k)' = Home(k) /\ Second(k)' = Second(k)
      /\ \A c \in Client : Primary(c, k) = Home(k) /\ Buddy(c, k) = Second(k)
  <2>1. RingStays
    BY DEF NoDeletes
  <2>2. env.configured \in (SUBSET Node) \ {{}}
    BY EnvironmentFacts DEF TypeOK
  <2>3. Home(k) \in Node /\ Second(k) \in Node
    BY <2>2, PlacementFacts DEF Home, Second
  <2> QED
    BY <2>1, <2>3, EnvironmentStays, SamePlace
<1>1. PICK h \in Node, s \in Node : h = Home(k) /\ s = Second(k)
  BY <1>0
<1>2. /\ Present(h, k) => Present(h, k)'
      /\ Present(s, k) => Present(s, k)'
      /\ \A c \in Client : Inserting(c, h, k) => Present(h, k)'
      /\ \A c \in Client : Inserting(c, s, k) => Present(s, k)'
      /\ Present(h, k)' => Present(h, k) \/ \E c \in Client : Inserting(c, h, k)
      /\ Present(s, k)' => Present(s, k) \/ \E c \in Client : Inserting(c, s, k)
  BY PresenceGrows
<1>3. /\ Present(h, k) => Present(s, k) \/ Coming(s, k)
      /\ Present(s, k) => Present(h, k)
      /\ \A c \in Client :
           /\ Writing(c, k) /\ cmd[c].op = "insert" /\ Sent(c, h) => Present(h, k)
           /\ Reading(c, k) /\ cmd[c].at = "migrate" => Present(s, k)
  BY <1>1 DEF Paired, Evidence
<1>4. \A c \in Client : /\ Primary(c, k)' = h /\ Buddy(c, k)' = s
                        /\ Primary(c, k) = h /\ Buddy(c, k) = s
  BY <1>0, <1>1, CommandMoves DEF Primary, Buddy
\* A client that asks for an insert writes the key, or migrates it to the first node.
<1>5. ASSUME NEW c \in Client, NEW n \in Node, Inserting(c, n, k)
      PROVE  /\ ~Idle(c) /\ cmd[c].key = k /\ cmd[c].rpc = "none"
             /\ \/ cmd[c].op = "insert" /\ cmd[c].at \in {"primary", "buddy"}
                \/ cmd[c].op = "get" /\ cmd[c].at = "migrate"
             /\ n = IF cmd[c].at = "buddy" THEN s ELSE h
  <2>1. ~Idle(c) /\ cmd[c].rpc = "none" /\ cmd[c].key = k
    BY <1>5, SendFacts, DirectFacts DEF Inserting
  <2>2. cmd[c].at \in {"primary", "buddy", "migrate"}
    BY <2>1, CommandFacts DEF Cmd
  <2> QED
    BY <1>4, <1>5, <2>1, <2>2 DEF Inserting, RequestOf, Target, CommandsMakeSense
<1>6. Present(s, k)' => Present(h, k)'
  <2> SUFFICES ASSUME Present(s, k)', ~Present(s, k), h # s PROVE Present(h, k)'
    BY <1>2, <1>3
  <2>1. PICK c \in Client : Inserting(c, s, k)
    BY <1>2
  <2>2. cmd[c].at = "buddy" /\ cmd[c].op = "insert" /\ Writing(c, k)
    BY <1>5, <2>1 DEF Writing
  <2>3. Sent(c, h)
    BY <1>4, <2>2 DEF Sent, Writing
  <2> QED
    BY <1>2, <1>3, <2>2, <2>3
<1>7. Present(h, k)' => Present(s, k)' \/ Coming(s, k)'
  <2> SUFFICES ASSUME Present(h, k)', ~Present(s, k)' PROVE Coming(s, k)'
    OBVIOUS
  <2>0. h # s /\ ~Present(s, k)
    BY <1>2
  <2>1. ASSUME NEW c \in Client, Writing(c, k)', cmd'[c].op = "insert", ~Sent(c, s)'
        PROVE  Coming(s, k)'
    BY <2>1 DEF Coming
  <2>2. CASE Present(h, k)
    <3>1. PICK c \in Client : Writing(c, k) /\ cmd[c].op = "insert" /\ ~Sent(c, s)
      BY <1>3, <2>0, <2>2 DEF Coming
    <3>2. CASE cmd'[c] = cmd[c]
      <4>1. Writing(c, k)' /\ ~Sent(c, s)'
        BY <1>4, <3>1, <3>2 DEF Writing, Sent, Idle
      <4> QED
        BY <2>1, <3>1, <3>2, <4>1
    <3>3. CASE Advances(c)
      <4>1. Writing(c, k)' /\ cmd'[c].op = "insert"
        BY <3>1, <3>3 DEF Advances, Writing
      <4>2. ASSUME Sent(c, s)' PROVE FALSE
        <5>1. cmd[c].key = k /\ cmd[c].at = "buddy" /\ cmd[c].rpc = "none"
          BY <1>4, <2>0, <3>1, <3>3, <4>2 DEF Sent, Advances, Writing
        <5>2. Inserting(c, s, k)
          BY <1>4, <3>1, <3>3, <5>1 DEF Inserting, Advances, RequestOf, Target
        <5> QED
          BY <1>2, <5>2
      <4> QED
        BY <2>1, <4>1, <4>2
    <3>4. CASE Ends(c)
      BY <1>4, <2>0, <3>1, <3>4 DEF Ends, Writing, Sent
    <3>5. CASE MovesOn(c)
      <4>1. Writing(c, k)' /\ cmd'[c].op = "insert"
        BY <3>1, <3>5 DEF MovesOn, Writing
      <4>2. ~Sent(c, s)'
        BY <1>4, <2>0, <3>1, <3>5 DEF Sent, MovesOn, Writing
      <4> QED
        BY <2>1, <4>1, <4>2
    <3> QED
      BY <1>0, <3>1, <3>2, <3>3, <3>4, <3>5, CommandMoves DEF Starts, Writing
  <2>3. CASE ~Present(h, k)
    <3>1. PICK c \in Client : Inserting(c, h, k)
      BY <1>2, <2>3
    <3>2. /\ ~Idle(c) /\ cmd[c].key = k /\ cmd[c].rpc = "none"
          /\ cmd[c].op = "insert" /\ cmd[c].at = "primary"
      BY <1>3, <1>5, <2>0, <3>1 DEF Reading
    <3>3. /\ ~Idle(c)' /\ cmd'[c].key = k /\ cmd'[c].op = "insert" /\ cmd'[c].at = "primary"
      BY <3>1, <3>2, SendFacts, DirectFacts DEF Inserting
    <3>4. Writing(c, k)' /\ ~Sent(c, s)'
      BY <1>4, <2>0, <3>3 DEF Writing, Sent
    <3> QED
      BY <2>1, <3>3, <3>4
  <2> QED
    BY <2>2, <2>3
<1>8. (Present(Home(k), k)' <=> Present(h, k)') /\ (Present(Second(k), k)' <=> Present(s, k)')
      /\ (Coming(Second(k), k)' <=> Coming(s, k)')
  BY <1>0, <1>1 DEF Present, Inserts, Coming, Sent
<1> QED
  BY <1>6, <1>7, <1>8 DEF Paired

\* No key is anywhere at the start.
LEMMA PresenceInit == Init => PresenceInv
<1> SUFFICES ASSUME Init, NoDeletes PROVE PresenceInv
  BY DEF PresenceInv
<1>1. TypeOK /\ RingStays /\ RingStaysInv
  BY InitType, RingStaysInit DEF NoDeletes
<1>2. \A c \in Client : Idle(c) /\ \A n \in Node : wire[c][n] = <<>>
  BY DEF Init, Resting, Idle
<1>3. KeepsKeys
  BY <1>2 DEF KeepsKeys
<1>4. ASSUME NEW k \in Key, NEW n \in Node PROVE ~Present(n, k)
  <2>1. store[n][k] = Missing
    BY DEF Init, Empty
  <2> QED
    BY <1>2, <2>1 DEF Present, Inserts
<1>5. ASSUME NEW k \in Key PROVE Paired(k)
  <2>1. env.configured \in (SUBSET Node) \ {{}}
    BY <1>1, EnvironmentFacts DEF TypeOK
  <2>2. Home(k) \in Node /\ Second(k) \in Node
    BY <2>1, PlacementFacts DEF Home, Second
  <2> QED
    BY <1>4, <2>2 DEF Paired
<1>6. ASSUME NEW k \in Key, NEW c \in Client PROVE Evidence(c, k)
  BY <1>2 DEF Evidence, Writing, Reading
<1> QED
  BY <1>3, <1>5, <1>6 DEF PresenceInv

\* PresenceInv is kept.
LEMMA PresenceStep ==
  ASSUME CommonInv, RingStaysInv, PresenceInv, [Next]_vars
  PROVE  PresenceInv'
<1> SUFFICES ASSUME NoDeletes
             PROVE  /\ KeepsKeys'
                    /\ \A k \in Key : Paired(k)' /\ \A c \in Client : Evidence(c, k)'
  BY EnvironmentStays DEF PresenceInv
<1>1. KeepsKeys /\ \A k \in Key : Paired(k) /\ \A c \in Client : Evidence(c, k)
  BY DEF PresenceInv
<1> QED
  BY <1>1, KeepsStep, PairedStep, EvidenceStep DEF NoDeletes

\* While nobody deletes, a key at one of its nodes is at the other, or will be.
LEMMA PresenceInvariance == Spec => []PresenceInv
<1>1. CommonInv /\ RingStaysInv /\ PresenceInv /\ [Next]_vars => PresenceInv'
  BY PresenceStep
<1> QED
  BY <1>1, PresenceInit, CommonInvariance, SoloInvariance, PTL DEF Spec

\* Once the connections are empty a key is on both of its nodes or on none, when nobody
\* deletes it, and when the client that deletes it is alone.
THEOREM BothHold == Spec => []BothHoldTheKey
<1>1. CommonInv /\ RingStaysInv /\ LateRequestsSettle /\ PresenceInv => BothHoldTheKey
  <2> SUFFICES ASSUME CommonInv, RingStaysInv, LateRequestsSettle, PresenceInv,
                      Quiet, RingStays, ~Contended, NEW k \in Key, NEW c \in Client
               PROVE  store[Primary(c, k)][k] = Missing <=> store[Buddy(c, k)][k] = Missing
    BY DEF BothHoldTheKey
  <2>0. /\ TypeOK /\ Home(k) \in Node /\ Second(k) \in Node
        /\ \A d \in Client : Primary(d, k) = Home(k) /\ Buddy(d, k) = Second(k)
    BY SamePlace DEF CommonInv
  <2>1. CASE \E o \in env.load : o.op = "delete"
    <3>1. PICK u \in Users : TRUE
      BY <2>1 DEF Users
    <3>2. Cardinality(Users) = 1
      <4>1. Cardinality(Users) \in Nat /\ ~(Cardinality(Users) > 1)
        BY <2>0, <2>1, UsersAreClients, FS_CardinalityType DEF Contended
      <4>2. Cardinality(Users) # 0
        BY <2>0, <3>1, UsersAreClients, FS_EmptySet
      <4> QED
        BY <4>1, <4>2
    <3>3. u \in Client
      BY <2>0, UsersAreClients
    <3>4. store[Primary(u, k)][k] = expect[k] /\ store[Buddy(u, k)][k] = expect[k]
      BY <3>1, <3>2 DEF LateRequestsSettle
    <3> QED
      BY <2>0, <3>3, <3>4
  <2>2. CASE ~\E o \in env.load : o.op = "delete"
    <3>1. NoDeletes
      BY <2>2 DEF NoDeletes, Undeleted
    <3>2. Paired(k)
      BY <3>1 DEF PresenceInv
    <3>3. ASSUME NEW n \in Node PROVE Present(n, k) <=> store[n][k] # Missing
      BY DEF Present, Inserts, Quiet
    <3>4. ~Coming(Second(k), k)
      BY DEF Coming, Writing, Quiet
    <3> QED
      BY <2>0, <3>2, <3>3, <3>4 DEF Paired
  <2> QED
    BY <2>1, <2>2
<1> QED
  BY <1>1, CommonInvariance, SoloInvariance, LateSettle, PresenceInvariance, PTL

-----------------------------------------------------------------------------
(* A client alone on servers that answer *)

\* What an undisturbed environment is.
LEMMA UndisturbedFacts ==
  ASSUME TypeOK, Undisturbed
  PROVE  /\ RingStays /\ Solo
         /\ \A reply \in Held : IsMissOrError(reply) <=> reply = Missing
<1>1. ~Estranged
  BY DEF Undisturbed, Estranged
<1>2. \A reply \in Held : IsMissOrError(reply) <=> reply = Missing
  BY KVAssumption DEF Undisturbed, IsMissOrError, Held
<1> QED
  BY <1>1, <1>2 DEF Undisturbed, RingStays, Solo

\* No request times out, and an answer to a get() is what the map holds.
LEMMA NoTimeOut ==
  ASSUME CommonInv, RingStaysInv, SoloInv, OneRequest, Undisturbed, NEW c \in Users, GoesOn(c)
  PROVE  /\ ~Idle(c) /\ cmd[c].rpc = "answered" /\ cmd[c].reply \in Held
         /\ Continue(c, cmd[c].reply)
         /\ cmd[c].op = "get" => cmd[c].at # "migrate" /\ cmd[c].reply = expect[cmd[c].key]
<1> USE DEF CommonInv
<1>1. c \in Client /\ RingStays /\ Solo
  BY UsersAreClients, UndisturbedFacts
<1>2. ~Idle(c) /\ cmd[c].rpc # "none"
  BY <1>1, GoesOnFacts
<1>3. cmd[c] \in Cmd /\ Target(c) \in Node /\ RequestOf(c) \in Request
  BY <1>1, <1>2, CommandFacts
<1>4. ~TimeOut(c)
  <2>1. ~env.slow /\ Target(c) \in up
    BY <1>1, <1>3 DEF Undisturbed, RingStaysInv
  <2>2. cmd[c].rpc = "sent" => wire[c][Target(c)] = <<RequestOf(c)>>
    BY <1>2, <1>3 DEF OneRequest
  <2>3. <<RequestOf(c)>> # <<>>
    OBVIOUS
  <2>4. cmd[c].rpc = "sent" => wire[c][Target(c)] # <<>>
    BY <2>2, <2>3
  <2> QED
    BY <2>1, <2>4 DEF TimeOut, Lost
<1>5. cmd[c].rpc = "answered" /\ Continue(c, cmd[c].reply)
  BY <1>4 DEF GoesOn, Answer
<1>6. cmd[c].reply \in Held /\ cmd[c].key \in Key
  BY <1>3 DEF Cmd, Held
<1>7. cmd[c].op = "get" => cmd[c].at # "migrate" /\ Reading(c, cmd[c].key)
  BY <1>2 DEF OneRequest, Reading
<1>8. cmd[c].op = "get" => cmd[c].reply = expect[cmd[c].key]
  BY <1>1, <1>5, <1>6, <1>7 DEF SoloInv, InStep
<1> QED
  BY <1>2, <1>5, <1>6, <1>7, <1>8

\* What a request that is executed is.
LEMMA OneHandled ==
  ASSUME CommonInv, OneRequest, Undisturbed, NEW c \in Users, NEW n \in Node, Handle(c, n)
  PROVE  /\ Awaited(c, n) /\ ~Idle(c) /\ Target(c) = n /\ cmd[c].rpc = "sent"
         /\ wire[c][n] = <<RequestOf(c)>> /\ Head(wire[c][n]) = RequestOf(c)
         /\ wire'[c][n] = <<>>
<1>1. c \in Client
  BY UsersAreClients DEF CommonInv
<1>2. wire[c][n] # <<>> /\ wire'[c][n] = Tail(wire[c][n])
  BY <1>1, HandleFacts DEF CommonInv
<1>3. ~Idle(c) /\ cmd[c].rpc = "sent" /\ Target(c) = n /\ wire[c][n] = <<RequestOf(c)>>
  BY <1>2 DEF OneRequest
<1>4. Len(<<RequestOf(c)>>) = 1 /\ Head(<<RequestOf(c)>>) = RequestOf(c) /\ Tail(<<RequestOf(c)>>) = <<>>
  OBVIOUS
<1> QED
  BY <1>2, <1>3, <1>4 DEF Awaited

\* OneRequest is kept: nothing is abandoned on a connection.
LEMMA OneRequestStep ==
  ASSUME CommonInv, RingStaysInv, SoloInv, OneRequest, [Next]_vars
  PROVE  OneRequest'
<1> USE DEF CommonInv
<1> DEFINE Due(c, n) == ~Idle(c) /\ cmd[c].rpc = "sent" /\ Target(c) = n
           Gets(c) == ~Idle(c) /\ cmd[c].op = "get" =>
                        cmd[c].at # "migrate" /\ (cmd[c].at = "buddy" => expect[cmd[c].key] = Missing)
<1> SUFFICES ASSUME Undisturbed, NEW c \in Users
             PROVE  /\ \A n \in Node : wire'[c][n] = IF Due(c, n)' THEN <<RequestOf(c)'>> ELSE <<>>
                    /\ Gets(c)'
  BY EnvironmentStays DEF OneRequest
<1>0. /\ c \in Client /\ RingStays /\ Solo /\ \A d \in Users : d = c
      /\ up = Node /\ place' = place
  <2>1. c \in Client /\ RingStays /\ Solo
    BY UsersAreClients, UndisturbedFacts
  <2> QED
    BY <2>1, SoloUser, CommandMoves DEF RingStaysInv
<1>1. /\ \A n \in Node : wire[c][n] = IF Due(c, n) THEN <<RequestOf(c)>> ELSE <<>>
      /\ Gets(c)
  BY DEF OneRequest
<1> DEFINE Goal == /\ \A n \in Node : wire'[c][n] = IF Due(c, n)' THEN <<RequestOf(c)'>> ELSE <<>>
                   /\ Gets(c)'
<1>2. ASSUME NEW op \in Op, NEW k \in Key, NEW v \in Held, Begin(c, op, k, v) PROVE Goal
  BY <1>0, <1>1, <1>2, BeginFacts
<1>3. ASSUME Send(c) PROVE Goal
  <2>1. /\ ~Idle(c) /\ ~Idle(c)' /\ cmd[c].rpc = "none" /\ cmd'[c].rpc = "sent"
        /\ cmd'[c].at = cmd[c].at /\ cmd'[c].op = cmd[c].op /\ cmd'[c].key = cmd[c].key
        /\ Target(c)' = Target(c) /\ RequestOf(c)' = RequestOf(c) /\ expect' = expect
    BY <1>0, <1>3, SendFacts, Underway
  <2>2. \A n \in Node : wire[c][n] = <<>>
    BY <1>1, <2>1
  <2>3. PICK t \in Node : t = Target(c)
    BY <1>0, <1>3, SendFacts
  <2>4. /\ \A n \in Node \ {t} : wire'[c][n] = <<>>
        /\ wire'[c][t] = Append(wire[c][t], RequestOf(c))
    <3>1. \A n \in Node \ {t} : wire'[c][n] = wire[c][n]
      BY <1>0, <1>3, <2>3, SendFacts
    <3>2. wire'[c][t] = Append(wire[c][t], RequestOf(c))
      BY <1>0, <1>3, <2>3, SendFacts
    <3> QED
      BY <2>2, <3>1, <3>2
  <2>5. Append(<<>>, RequestOf(c)) = <<RequestOf(c)>>
    OBVIOUS
  <2>6. wire'[c][t] = <<RequestOf(c)>>
    BY <2>2, <2>4, <2>5
  <2>7. \A n \in Node : Due(c, n)' <=> n = t
    BY <2>1, <2>3
  <2>8. Gets(c)'
    BY <1>1, <2>1
  <2> QED
    BY <2>1, <2>4, <2>6, <2>7, <2>8
<1>4. ASSUME Direct(c) PROVE Goal
  BY <1>0, <1>1, <1>4, DirectFacts
<1>5. ASSUME GoesOn(c) PROVE Goal
  <2>1. /\ ~Idle(c) /\ cmd[c].rpc = "answered" /\ cmd[c].reply \in Held
        /\ Continue(c, cmd[c].reply)
        /\ cmd[c].op = "get" => cmd[c].at # "migrate" /\ cmd[c].reply = expect[cmd[c].key]
    BY <1>5, NoTimeOut
  <2>2. wire' = wire /\ \A n \in Node : wire[c][n] = <<>>
    BY <1>0, <1>1, <2>1, ContinueCases
  <2>3. ASSUME Idle(c)' PROVE Goal
    BY <2>2, <2>3
  <2>4. ASSUME NEW at \in {"buddy", "migrate"}, NEW v, Proceed(c, at, v), expect' = expect,
               cmd[c].op = "get" => at = "buddy" /\ cmd[c].reply = Missing
        PROVE  Goal
    BY <1>0, <2>1, <2>2, <2>4, ProceedFacts
  <2>5. IsMissOrError(cmd[c].reply) <=> cmd[c].reply = Missing
    BY <2>1, UndisturbedFacts
  <2>6. CASE \E result \in Held \cup {Failed} : Finish(c, result)
    BY <1>0, <2>3, <2>6, FinishFacts
  <2>7. CASE /\ cmd[c].op = "get" /\ IsMissOrError(cmd[c].reply) /\ Proceed(c, "buddy", Missing)
             /\ expect' = expect
    BY <2>4, <2>5, <2>7
  <2>8. CASE /\ cmd[c].op # "get" /\ Proceed(c, "buddy", cmd[c].val) /\ expect' = expect
    BY <2>4, <2>8
  <2>9. CASE cmd[c].at = "buddy" /\ cmd[c].op = "get" /\ ~IsMissOrError(cmd[c].reply)
    BY <1>1, <2>1, <2>5, <2>9
  <2> HIDE DEF Goal
  <2> QED
    BY <1>0, <2>1, <2>6, <2>7, <2>8, <2>9, ContinueCases
<1>6. ASSUME NEW n \in Node, Handle(c, n) PROVE Goal
  <2>1. ~Idle(c) /\ Target(c) = n /\ wire'[c][n] = <<>> /\ Awaited(c, n)
    BY <1>6, OneHandled
  <2>2. \A m \in Node \ {n} : wire'[c][m] = <<>>
    BY <1>0, <1>1, <1>6, <2>1, HandleFacts
  <2>3. /\ ~Idle(c)' /\ cmd'[c].rpc = "answered" /\ expect' = expect
        /\ cmd'[c].at = cmd[c].at /\ cmd'[c].op = cmd[c].op /\ cmd'[c].key = cmd[c].key
    BY <1>0, <1>6, <2>1, HandleFacts
  <2> QED
    BY <1>1, <2>1, <2>2, <2>3
<1>7. ASSUME UNCHANGED vars PROVE Goal
  BY <1>1, <1>7 DEF vars, Idle, Target, RequestOf, Primary, Buddy
<1> HIDE DEF Goal
<1>8. Goal
  BY <1>0, <1>2, <1>3, <1>4, <1>5, <1>6, <1>7, StaysCases
<1> QED
  BY <1>8 DEF Goal

\* A client alone on servers that answer has one request at a time.
LEMMA OneRequestInvariance == Spec => []OneRequest
<1>1. Init => OneRequest
  <2> SUFFICES ASSUME Init PROVE OneRequest
    OBVIOUS
  <2>1. \A c \in Client : Idle(c) /\ \A n \in Node : wire[c][n] = <<>>
    BY DEF Init, Resting, Idle
  <2> QED
    BY <2>1, InitType, UsersAreClients DEF OneRequest
<1>2. CommonInv /\ RingStaysInv /\ SoloInv /\ OneRequest /\ [Next]_vars => OneRequest'
  BY OneRequestStep
<1> QED
  BY <1>1, <1>2, CommonInvariance, SoloInvariance, PTL DEF Spec

-----------------------------------------------------------------------------
(* Refinement *)

\* content and call of KeyValueMap, as the INSTANCE maps them.
Content == [k \in Key |-> IF Undisturbed THEN store[Home(k)][k] ELSE Missing]
Calls == [c \in Client |-> MappedCall(c)]

\* Initial states map to initial states.
LEMMA MapInit == Init => Map!Init
<1> SUFFICES ASSUME Init PROVE Map!Init
  OBVIOUS
<1>1. TypeOK
  BY InitType
<1>2. \A k \in Key : Home(k) \in Node
  <2>1. env.configured \in (SUBSET Node) \ {{}}
    BY <1>1, EnvironmentFacts DEF TypeOK
  <2> QED
    BY <2>1, PlacementFacts DEF Home
<1>3. Content = [k \in Key |-> Missing]
  BY <1>2 DEF Content, Init, Empty
<1>4. Calls = [c \in Client |-> [stage |-> "resting", result |-> Missing]]
  BY KVAssumption DEF Calls, MappedCall, Init, Idle, Resting
<1> QED
  BY <1>3, <1>4 DEF Map!Init, Map!Resting, Content, Calls

\* What a command is for the map, stage by stage.
LEMMA MappedFacts ==
  ASSUME TypeOK, Undisturbed, NEW c \in Client
  PROVE  /\ Idle(c) => MappedCall(c) =
              [stage |-> "resting", result |-> IF cmd[c].val = Failed THEN Missing ELSE cmd[c].val]
         /\ ~Idle(c) /\ cmd[c].at = "primary" /\ cmd[c].rpc # "answered" => MappedCall(c) =
              [stage |-> "called", op |-> cmd[c].op, key |-> cmd[c].key, val |-> cmd[c].val]
         /\ ~Idle(c) /\ (cmd[c].at # "primary" \/ cmd[c].rpc = "answered") =>
              MappedCall(c) = [stage |-> "done", result |-> ResultSoFar(c)]
BY DEF MappedCall

\* The same of the next state.
LEMMA MappedNext ==
  ASSUME TypeOK', Undisturbed', NEW c \in Client
  PROVE  /\ Idle(c)' => MappedCall(c)' =
              [stage |-> "resting", result |-> IF cmd'[c].val = Failed THEN Missing ELSE cmd'[c].val]
         /\ ~Idle(c)' /\ cmd'[c].at = "primary" /\ cmd'[c].rpc # "answered" => MappedCall(c)' =
              [stage |-> "called", op |-> cmd'[c].op, key |-> cmd'[c].key, val |-> cmd'[c].val]
         /\ ~Idle(c)' /\ (cmd'[c].at # "primary" \/ cmd'[c].rpc = "answered") =>
              MappedCall(c)' = [stage |-> "done", result |-> ResultSoFar(c)']
BY DEF MappedCall

\* When the command of one client changes, so does its call and no other.
LEMMA CallsStep ==
  ASSUME Undisturbed, Undisturbed', NEW c \in Client, place' = place,
         \A d \in Client \ {c} : cmd'[d] = cmd[d]
  PROVE  /\ Calls[c] = MappedCall(c)
         /\ Calls' = [Calls EXCEPT ![c] = MappedCall(c)']
<1>1. ASSUME NEW d \in Client \ {c} PROVE MappedCall(d)' = MappedCall(d)
  BY <1>1 DEF MappedCall, Idle, ResultSoFar
<1> QED
  BY <1>1 DEF Calls

\* The request that a command has made is executed: on the first node it takes effect.
LEMMA Executes ==
  ASSUME CommonInv, RingStaysInv, Undisturbed, Undisturbed', NEW c \in Client, ~Idle(c),
         NEW n \in Node, n = Target(c), cmd[c].at # "migrate",
         store' = Executed(n, RequestOf(c)),
         \A k \in Key : Home(k)' = Home(k)
  PROVE  Content' = IF cmd[c].at = "primary"
                    THEN Map!After(Content, cmd[c].op, cmd[c].key, cmd[c].val) ELSE Content
<1> DEFINE r == RequestOf(c)
           key == cmd[c].key
<1>1. /\ r \in Request /\ r.key = key /\ key \in Key /\ cmd[c] \in Cmd
      /\ store \in [Node -> [Key -> Held]] /\ r.val = cmd[c].val /\ r.val \in Held
      /\ r.kind = IF cmd[c].op = "get" THEN "fetch" ELSE cmd[c].op
  BY CommandFacts DEF CommonInv, TypeOK, RequestOf, Cmd, Held
<1>2. /\ \A k \in Key : Home(k) \in Node
      /\ n = IF cmd[c].at = "buddy" THEN Second(key) ELSE Home(key)
      /\ cmd[c].at = "buddy" => Home(key) # Second(key)
  BY <1>1, SamePlace, UndisturbedFacts DEF CommonInv, Target, CommandsMakeSense
<1> HIDE DEF r, key
<1>3. store' = [store EXCEPT ![n] = Do(store[n], r)]
  BY <1>1, ExecutedIsDo DEF CommonInv, r
<1>4. Content \in [Key -> Held] /\ \A k \in Key : Content[k] = store[Home(k)][k]
  BY <1>1, <1>2 DEF Content
<1>5. Content' = [k \in Key |-> store'[Home(k)][k]]
  BY DEF Content
<1>6. \A k \in Key : store'[Home(k)][k] = IF Home(k) = n THEN Do(store[n], r)[k] ELSE store[Home(k)][k]
  BY <1>1, <1>2, <1>3
<1>7. store[n] \in [Key -> Held]
  BY <1>1
<1>8. CASE cmd[c].at = "primary"
  <2>1. n = Home(key)
    BY <1>2, <1>8
  <2>2. Do(Content, r) \in [Key -> Held]
    BY <1>1, <1>4, DoFacts
  <2>3. ASSUME NEW k \in Key PROVE store'[Home(k)][k] = Do(Content, r)[k]
    <3>1. CASE Home(k) = n
      BY <1>1, <1>4, <1>6, <1>7, <3>1, DoFacts
    <3>2. CASE Home(k) # n
      <4>1. key # k
        BY <2>1, <3>2
      <4> QED
        BY <1>1, <1>4, <1>6, <3>2, <4>1, DoFacts
    <3> QED
      BY <3>1, <3>2
  <2>4. Content' = Do(Content, r)
    BY <1>5, <2>2, <2>3
  <2>5. Do(Content, r) = Map!After(Content, cmd[c].op, cmd[c].key, cmd[c].val)
    BY <1>1 DEF Do, Map!After, key
  <2> QED
    BY <1>8, <2>4, <2>5
<1>9. CASE cmd[c].at # "primary"
  <2>1. cmd[c].at = "buddy" /\ n # Home(key)
    BY <1>1, <1>2, <1>9 DEF Cmd
  <2>2. ASSUME NEW k \in Key PROVE store'[Home(k)][k] = Content[k]
    <3>1. CASE Home(k) = n
      <4>1. key # k
        BY <2>1, <3>1
      <4> QED
        BY <1>1, <1>4, <1>6, <1>7, <3>1, <4>1, DoFacts
    <3>2. CASE Home(k) # n
      BY <1>4, <1>6, <3>2
    <3> QED
      BY <3>1, <3>2
  <2>3. Content' = Content
    BY <1>4, <1>5, <2>2
  <2> QED
    BY <1>9, <2>3
<1> QED
  BY <1>8, <1>9

\* ... and the abstract operation takes effect with it, or nothing happens.
LEMMA TakesEffect ==
  ASSUME CommonInv, TypeOK', RingStaysInv, Undisturbed, Undisturbed', NEW c \in Client,
         ~Idle(c), ~Idle(c)',
         NEW n \in Node, n = Target(c), cmd[c].at # "migrate", cmd[c].rpc # "answered",
         cmd'[c].at = cmd[c].at, cmd'[c].op = cmd[c].op, cmd'[c].key = cmd[c].key,
         cmd'[c].val = cmd[c].val, cmd'[c].rpc = "answered",
         cmd'[c].reply = IF RequestOf(c).kind = "fetch" THEN store[n][cmd[c].key] ELSE Missing,
         \A d \in Client \ {c} : cmd'[d] = cmd[d],
         place' = place, store' = Executed(n, RequestOf(c)), \A k \in Key : Home(k)' = Home(k)
  PROVE  Map!TakeEffect(c) \/ UNCHANGED <<Content, Calls>>
<1> USE DEF CommonInv
<1>1. cmd[c] \in Cmd /\ cmd[c].key \in Key /\ cmd[c].op \in Op
  BY CommandFacts DEF Cmd
<1>2. /\ Calls[c] = MappedCall(c)
      /\ Calls' = [Calls EXCEPT ![c] = MappedCall(c)']
  BY CallsStep
<1>3. MappedCall(c)' = [stage |-> "done", result |-> ResultSoFar(c)']
  BY MappedNext
<1>4. Content' = IF cmd[c].at = "primary"
                 THEN Map!After(Content, cmd[c].op, cmd[c].key, cmd[c].val) ELSE Content
  BY Executes
<1>5. CASE cmd[c].at = "primary"
  <2>1. Calls[c] = [stage |-> "called", op |-> cmd[c].op, key |-> cmd[c].key, val |-> cmd[c].val]
    BY <1>2, <1>5, MappedFacts
  <2>2. ResultSoFar(c)' = IF cmd[c].op = "get" THEN Content[cmd[c].key] ELSE Missing
    <3>1. n = Home(cmd[c].key)
      BY <1>1, <1>5, SamePlace, UndisturbedFacts DEF Target
    <3>2. Content[cmd[c].key] = store[n][cmd[c].key]
      BY <1>1, <3>1 DEF Content
    <3>3. RequestOf(c).kind = "fetch" <=> cmd[c].op = "get"
      BY <1>1, <1>5 DEF RequestOf, Op, Writes
    <3> QED
      BY <1>5, <3>2, <3>3 DEF ResultSoFar
  <2> HIDE DEF CommonInv
  <2>3. Calls[c].stage = "called" /\ Calls[c].op = cmd[c].op /\ Calls[c].key = cmd[c].key
        /\ Calls[c].val = cmd[c].val
    BY <2>1
  <2>4. Content' = Map!After(Content, Calls[c].op, Calls[c].key, Calls[c].val)
    BY <1>4, <1>5, <2>3
  <2>5. Calls' = [Calls EXCEPT ![c] =
          [stage |-> "done", result |-> IF Calls[c].op = "get" THEN Content[Calls[c].key] ELSE Missing]]
    BY <1>2, <1>3, <2>2, <2>3
  <2>6. Map!TakeEffect(c)
    BY <2>3, <2>4, <2>5, Zenon DEF Map!TakeEffect, Calls, Content
  <2> QED
    BY <2>6
<1>6. CASE cmd[c].at # "primary"
  <2>1. MappedCall(c) = [stage |-> "done", result |-> ResultSoFar(c)]
    BY <1>6, MappedFacts
  <2>2. ResultSoFar(c)' = ResultSoFar(c)
    BY <1>6 DEF ResultSoFar
  <2>3. Calls' = [Calls EXCEPT ![c] = Calls[c]]
    BY <1>2, <1>3, <2>1, <2>2
  <2>4. Calls' = Calls
    <3>1. \E S : Calls \in [Client -> S]
      <4>1. Calls \in [Client -> {MappedCall(d) : d \in Client}]
        BY DEF Calls
      <4> QED
        BY <4>1
    <3> QED
      BY <2>3, <3>1
  <2> QED
    BY <1>4, <1>6, <2>4
<1> QED
  BY <1>5, <1>6

\* A command that goes on returns, or nothing happens for the map.
LEMMA ReturnsOrRests ==
  ASSUME CommonInv, TypeOK', RingStaysInv, SoloInv, OneRequest, Undisturbed, Undisturbed',
         NEW c \in Users, GoesOn(c), \A k \in Key : Home(k)' = Home(k)
  PROVE  Map!Return(c) \/ UNCHANGED <<Content, Calls>>
<1> USE DEF CommonInv
<1>0. c \in Client
  BY UsersAreClients
<1>1. /\ ~Idle(c) /\ cmd[c].rpc = "answered" /\ cmd[c].reply \in Held
      /\ Continue(c, cmd[c].reply)
      /\ cmd[c].op = "get" => cmd[c].at # "migrate"
  BY NoTimeOut
<1>2. place' = place /\ store' = store
  BY <1>0, <1>1, ContinueCases
<1>3. Content' = Content
  BY <1>2 DEF Content
<1>4. MappedCall(c) = [stage |-> "done", result |-> ResultSoFar(c)]
  BY <1>0, <1>1, MappedFacts
<1>5. IsMissOrError(cmd[c].reply) <=> cmd[c].reply = Missing
  BY <1>1, UndisturbedFacts
<1>6. cmd[c].op = "get" => cmd[c].val = Missing
  BY <1>0, <1>1 DEF CommandsMakeSense
<1>7. ASSUME NEW result \in Held \cup {Failed}, Finish(c, result),
             ResultSoFar(c) = IF result = Failed THEN Missing ELSE result
      PROVE  Map!Return(c)
  <2>1. /\ cmd'[c] = Resting(result) /\ Idle(c)' /\ \A d \in Client \ {c} : cmd'[d] = cmd[d]
    BY <1>0, <1>7, FinishFacts
  <2>2. cmd'[c].val = result
    BY <2>1 DEF Resting
  <2>3. MappedCall(c)' = [stage |-> "resting", result |-> ResultSoFar(c)]
    BY <1>0, <1>7, <2>1, <2>2, MappedNext
  <2>4. /\ Calls[c] = MappedCall(c)
        /\ Calls' = [Calls EXCEPT ![c] = MappedCall(c)']
    BY <1>0, <1>2, <2>1, CallsStep
  <2>5. Calls[c].stage = "done"
    BY <1>4, <2>4
  <2>6. Calls' = [Calls EXCEPT ![c] = [stage |-> "resting", result |-> Calls[c].result]]
    BY <1>4, <2>3, <2>4
  <2> HIDE DEF CommonInv
  <2> QED
    BY <1>3, <2>5, <2>6, Zenon DEF Map!Return, Map!Resting, Calls, Content
<1>8. ASSUME NEW v, Proceed(c, "buddy", v), ResultSoFar(c) = Missing, cmd[c].op = "get" => v = Missing
      PROVE  UNCHANGED <<Content, Calls>>
  <2>1. /\ cmd'[c].at = "buddy" /\ cmd'[c].val = v /\ cmd'[c].op = cmd[c].op /\ ~Idle(c)'
        /\ \A d \in Client \ {c} : cmd'[d] = cmd[d]
    BY <1>0, <1>1, <1>8, ProceedFacts
  <2>2. MappedCall(c)' = [stage |-> "done", result |-> ResultSoFar(c)']
    BY <1>0, <2>1, MappedNext
  <2>3. ResultSoFar(c)' = Missing
    BY <1>8, <2>1 DEF ResultSoFar
  <2>4. Calls[c] = MappedCall(c) /\ Calls' = [Calls EXCEPT ![c] = MappedCall(c)']
    BY <1>0, <1>2, <2>1, CallsStep
  <2>5. Calls' = [Calls EXCEPT ![c] = Calls[c]]
    BY <1>4, <1>8, <2>2, <2>3, <2>4
  <2>6. Calls \in [Client -> {MappedCall(d) : d \in Client}]
    BY DEF Calls
  <2> QED
    BY <1>3, <2>5, <2>6
<1>9. CASE cmd[c].op = "get"
  <2>1. cmd[c].at \in {"primary", "buddy"}
    BY <1>0, <1>1, <1>9, CommandFacts DEF Cmd
  <2>2. cmd[c].at = "primary" => ResultSoFar(c) = cmd[c].reply
    BY <1>9 DEF ResultSoFar
  <2>3. cmd[c].at = "buddy" => ResultSoFar(c) = Missing /\ cmd[c].reply = Missing
    <3>1. cmd[c].at = "buddy" => expect[cmd[c].key] = Missing
      BY <1>1, <1>9 DEF OneRequest
    <3> QED
      BY <1>6, <1>9, <3>1, NoTimeOut DEF ResultSoFar
  <2>4. \/ Finish(c, cmd[c].reply) /\ cmd[c].at = "primary"
        \/ Finish(c, Failed) /\ cmd[c].reply = Missing
        \/ Proceed(c, "buddy", Missing) /\ cmd[c].reply = Missing
    BY <1>1, <1>5, <1>9, <2>1, <2>3 DEF Continue, GetContinues
  <2>5. cmd[c].reply \in Held /\ cmd[c].reply # Failed
    BY <1>1, KVAssumption DEF Held
  <2> QED
    BY <1>7, <1>8, <2>1, <2>2, <2>3, <2>4, <2>5
<1>10. CASE cmd[c].op # "get"
  <2>1. ResultSoFar(c) = Missing /\ Missing \in Held /\ Missing # Failed
    BY <1>10, KVAssumption DEF ResultSoFar, Held
  <2>2. Finish(c, Missing) \/ Proceed(c, "buddy", cmd[c].val)
    BY <1>1, <1>10 DEF Continue, WriteContinues
  <2> QED
    BY <1>7, <1>8, <1>10, <2>1, <2>2
<1> QED
  BY <1>9, <1>10

\* Every step is one of the map, or none.
LEMMA MapNext ==
  ASSUME CommonInv, RingStaysInv, SoloInv, OneRequest, [Next]_vars
  PROVE  [Map!Next]_<<Content, Calls>>
<1> USE DEF CommonInv
<1>1. TypeOK' /\ (Undisturbed' <=> Undisturbed) /\ \A k \in Key : Home(k)' = Home(k)
  BY TypeStep, EnvironmentStays
<1>2. CASE ~Undisturbed
  BY <1>1, <1>2 DEF Content, Calls, MappedCall
<1>3. CASE Undisturbed
  <2> DEFINE Goal == Map!Next \/ UNCHANGED <<Content, Calls>>
  <2>0. Undisturbed /\ Undisturbed' /\ RingStays /\ Users \subseteq Client
    BY <1>1, <1>3, UndisturbedFacts, UsersAreClients
  <2>1. ASSUME NEW c \in Users, NEW op \in Op, NEW k \in Key, NEW v \in Held, Begin(c, op, k, v),
               op \in {"insert", "update"} => v \in Value, op \in {"get", "delete"} => v = Missing
        PROVE  Map!Next
    <3>0. c \in Client
      BY <2>0
    <3>1. /\ Idle(c) /\ ~Idle(c)' /\ cmd'[c].at = "primary" /\ cmd'[c].op = op /\ cmd'[c].key = k
          /\ cmd'[c].val = v /\ cmd'[c].rpc = "none"
          /\ \A d \in Client \ {c} : cmd'[d] = cmd[d]
          /\ UNCHANGED <<store, place>>
      BY <2>1, <3>0, BeginFacts
    <3>2. MappedCall(c).stage = "resting"
      BY <2>0, <3>0, <3>1, MappedFacts
    <3>3. MappedCall(c)' = [stage |-> "called", op |-> op, key |-> k, val |-> v]
      BY <1>1, <2>0, <3>0, <3>1, MappedNext
    <3>4. Calls[c] = MappedCall(c) /\ Calls' = [Calls EXCEPT ![c] = MappedCall(c)']
      BY <2>0, <3>0, <3>1, CallsStep
    <3>5. Content' = Content
      BY <1>1, <2>0, <3>1 DEF Content
    <3>6. Calls[c].stage = "resting"
      BY <3>2, <3>4
    <3>7. Calls' = [Calls EXCEPT ![c] = [stage |-> "called", op |-> op, key |-> k, val |-> v]]
      BY <3>3, <3>4
    <3> HIDE DEF CommonInv
    <3>8. Map!Call(c, op, k, v)
      BY <3>5, <3>6, <3>7, Zenon DEF Map!Call, Map!Called, Calls, Content
    <3>9. op \in {"get", "insert", "update", "delete"}
      BY DEF Op, Writes
    <3> QED
      BY <2>1, <3>0, <3>8, <3>9 DEF Map!Next
  <2>2. ASSUME NEW c \in Users, Send(c) PROVE UNCHANGED <<Content, Calls>>
    <3>0. c \in Client
      BY <2>0
    <3>1. /\ ~Idle(c) /\ ~Idle(c)' /\ cmd[c].rpc = "none" /\ cmd'[c].rpc = "sent"
          /\ cmd'[c].at = cmd[c].at /\ cmd'[c].op = cmd[c].op /\ cmd'[c].key = cmd[c].key
          /\ cmd'[c].val = cmd[c].val
          /\ \A d \in Client \ {c} : cmd'[d] = cmd[d]
          /\ UNCHANGED <<store, place>>
      BY <2>2, <3>0, SendFacts
    <3>2. MappedCall(c)' = MappedCall(c)
      <4>1. CASE cmd[c].at = "primary"
        BY <1>1, <2>0, <3>0, <3>1, <4>1, MappedFacts, MappedNext
      <4>2. CASE cmd[c].at # "primary"
        <5>1. ResultSoFar(c)' = ResultSoFar(c)
          BY <3>1, <4>2 DEF ResultSoFar
        <5> QED
          BY <1>1, <2>0, <3>0, <3>1, <4>2, <5>1, MappedFacts, MappedNext
      <4> QED
        BY <4>1, <4>2
    <3>3. Calls[c] = MappedCall(c) /\ Calls' = [Calls EXCEPT ![c] = MappedCall(c)']
      BY <2>0, <3>0, <3>1, CallsStep
    <3>4. Calls \in [Client -> {MappedCall(d) : d \in Client}]
      BY DEF Calls
    <3>5. Calls' = Calls
      BY <3>2, <3>3, <3>4
    <3> QED
      BY <1>1, <2>0, <3>1, <3>5 DEF Content
  <2>3. ASSUME NEW c \in Users, Direct(c) PROVE Goal
    <3>0. c \in Client
      BY <2>0
    <3>1. /\ ~Idle(c) /\ ~Idle(c)' /\ cmd[c].rpc = "none" /\ cmd'[c].rpc = "answered"
          /\ AtLocalNode(c) /\ Target(c) \in Node
          /\ store' = Executed(First, RequestOf(c))
          /\ cmd'[c].reply = IF RequestOf(c).kind = "fetch" THEN store[First][cmd[c].key] ELSE Missing
          /\ cmd'[c].at = cmd[c].at /\ cmd'[c].op = cmd[c].op /\ cmd'[c].key = cmd[c].key
          /\ cmd'[c].val = cmd[c].val
          /\ \A d \in Client \ {c} : cmd'[d] = cmd[d]
          /\ place' = place
      BY <2>3, <3>0, DirectFacts
    <3>2. First = Target(c) /\ First \in Node
      BY <2>0, <3>1, LocalTarget DEF CommonInv, RingStays, Solo, Undisturbed
    <3>3. cmd[c].at # "migrate"
      BY <2>0, <3>0, <3>1 DEF OneRequest, CommandsMakeSense
    <3>4. Map!TakeEffect(c) \/ UNCHANGED <<Content, Calls>>
      BY <1>1, <2>0, <3>0, <3>1, <3>2, <3>3, TakesEffect
    <3> QED
      BY <3>0, <3>4 DEF Map!Next
  <2>4. ASSUME NEW c \in Users, NEW n \in Node, Handle(c, n) PROVE Goal
    <3>0. c \in Client
      BY <2>0
    <3>1. Awaited(c, n) /\ Target(c) = n /\ cmd[c].rpc = "sent" /\ Head(wire[c][n]) = RequestOf(c)
      BY <2>0, <2>4, OneHandled
    <3>2. RequestOf(c).key = cmd[c].key
      BY DEF RequestOf
    <3>3. /\ ~Idle(c) /\ ~Idle(c)' /\ cmd'[c].rpc = "answered"
          /\ store' = Executed(n, RequestOf(c))
          /\ cmd'[c].reply = IF RequestOf(c).kind = "fetch" THEN store[n][cmd[c].key] ELSE Missing
          /\ cmd'[c].at = cmd[c].at /\ cmd'[c].op = cmd[c].op /\ cmd'[c].key = cmd[c].key
          /\ cmd'[c].val = cmd[c].val
          /\ \A d \in Client \ {c} : cmd'[d] = cmd[d]
          /\ place' = place
      BY <2>4, <3>0, <3>1, <3>2, HandleFacts
    <3>4. cmd[c].at # "migrate"
      BY <2>0, <3>0, <3>3 DEF OneRequest, CommandsMakeSense
    <3>5. Map!TakeEffect(c) \/ UNCHANGED <<Content, Calls>>
      BY <1>1, <2>0, <3>0, <3>1, <3>3, <3>4, TakesEffect
    <3> QED
      BY <3>0, <3>5 DEF Map!Next
  <2>5. ASSUME NEW c \in Users, GoesOn(c) PROVE Goal
    <3>1. Map!Return(c) \/ UNCHANGED <<Content, Calls>>
      BY <1>1, <2>0, <2>5, ReturnsOrRests
    <3> QED
      BY <2>0, <3>1 DEF Map!Next
  <2>6. ASSUME UNCHANGED vars PROVE UNCHANGED <<Content, Calls>>
    <3>1. UNCHANGED <<store, place, cmd>>
      BY <2>6 DEF vars
    <3>2. Content' = Content
      BY <1>1, <2>0, <3>1 DEF Content
    <3>3. \A c \in Client : MappedCall(c)' = MappedCall(c)
      BY <2>0, <3>1 DEF MappedCall, Idle, ResultSoFar
    <3> QED
      BY <3>2, <3>3 DEF Calls
  <2>7. Goal
    <3> HIDE DEF CommonInv, Content, Calls
    <3> QED
      BY <2>0, <2>1, <2>2, <2>3, <2>4, <2>5, <2>6, StaysCases DEF CommonInv
  <2> QED
    BY <2>7
<1> QED
  BY <1>2, <1>3

\* With one client on a ring that stays and servers that answer in time, the stores of
\* the two nodes of every key are one atomic map (get, insert, update, deleteKey).
THEOREM MapImplemented == Spec => ReplicasImplementMap
<1>1. Init => Map!Init
  BY MapInit
<1>2. CommonInv /\ RingStaysInv /\ SoloInv /\ OneRequest /\ [Next]_vars => [Map!Next]_<<Content, Calls>>
  BY MapNext
<1> QED
  BY <1>1, <1>2, CommonInvariance, SoloInvariance, OneRequestInvariance, PTL
     DEF Spec, ReplicasImplementMap, Map!Spec, Content, Calls

=============================================================================
