------------------------------- MODULE KvStore -------------------------------
(***************************************************************************)
(* The storage of one node (KVStore.cpp): a map in a shared memory segment *)
(* or in a mapped file, found by name, and a named mutex that guards it.   *)
(*                                                                         *)
(* A server process creates or reopens the storage, serves, and cleans up  *)
(* when it is shut down; it may also die at any point and be started again *)
(* as a new process.  A client process attaches to the same storage and,   *)
(* when its configuration makes the node its local one, works on it too.   *)
(* Removing a name leaves the object to the processes that have it open.   *)
(*                                                                         *)
(* The size check of an insert or update (hasEnoughMemory) and the failure *)
(* of an allocation are a free choice to refuse the write.                 *)
(***************************************************************************)
EXTENDS FiniteSets

CONSTANTS
  Server,        \* the server processes of this node, one incarnation each
  Client,        \* client processes on the same machine
  Key, Value, Missing,
  Nothing,       \* no segment, no map, no mutex or no process
  Environments   \* what the world may do, one of these in each behaviour

Process == Server \cup Client

\* mode: storage_config.mode, the same for every process of the node; servers, clients,
\* values: the processes that are started and the values they write; mayCrash: those
\* that may die at any point; mayClose: the servers that may be shut down cleanly;
\* hasty: a server may be started while its predecessor cleans up; eager: a client may
\* be started while the server starts.
Environment ==
  [mode : {"MEMORY", "PERSISTENT"}, servers : SUBSET Server, clients : SUBSET Client,
   values : SUBSET Value, mayCrash : SUBSET Process, mayClose : SUBSET Server,
   hasty : BOOLEAN, eager : BOOLEAN]

ASSUME StoreAssumption ==
  /\ Server \cap Client = {} /\ Nothing \notin Process
  /\ Missing \notin Value
  /\ Nothing \notin [Key -> Value \cup {Missing}]
  /\ Environments \subseteq Environment

\* A segment or file is known by the server that created it, a mutex by the process
\* that created it: each process creates at most one of each.
VARIABLES
  env,        \* the environment, chosen once
  name,       \* the segment or file that shm_name or persistent_file_path leads to
  map,        \* map[s]: the object "SharedMap" in the segment s created
  mutexName,  \* the mutex that mutex_name leads to
  holder,     \* holder[m]: the process that has locked m
  stage,      \* stage[p]: where p is in its life
  seg,        \* seg[p]: the segment p has mapped (memory_storage, file_storage)
  task        \* task[p]: the operation p is executing, or its last result

vars == <<env, name, map, mutexName, holder, stage, seg, task>>

Stages == {"off", "created", "stored", "ready", "closing", "unlinking", "gone"}

Resting(result) == [at |-> "resting", result |-> result]

Tasks ==
  [at : {"resting"}, result : Value \cup {Missing}]
    \cup [at : {"locking", "finding", "working", "unlocking"},
          op : {"get", "insert", "update", "delete"}, key : Key,
          val : Value \cup {Missing}, mutex : Process, found : Value \cup {Missing}]

Idle(p) == task[p].at = "resting"

Empty == [k \in Key |-> Missing]

Persistent == env.mode = "PERSISTENT"

Init ==
  /\ env \in Environments
  /\ name = Nothing
  /\ map = [s \in Server |-> Nothing]
  /\ mutexName = Nothing
  /\ holder = [m \in Process |-> Nothing]
  /\ stage = [p \in Process |-> "off"]
  /\ seg = [p \in Process |-> Nothing]
  /\ task = [p \in Process |-> Resting(Missing)]

-----------------------------------------------------------------------------
(* Construction *)

\* The engine of main_server.cpp has the port: no other server has it, and a patient
\* operator waits for the old process to end.
MayStart(s) ==
  /\ s \in env.servers /\ stage[s] = "off"
  /\ \A t \in Server \ {s} :
       stage[t] \in {"off", "gone"} \cup (IF env.hasty THEN {"closing", "unlinking"} ELSE {})

\* createPersistentStorage() finds a file, and the map in it.
FindsMap == Persistent /\ name # Nothing /\ map[name] # Nothing

CreateAnew(s) ==                   \* mutant: an existing file is not reopened
  /\ MayStart(s)
  /\ stage' = [stage EXCEPT ![s] = "created"]
  /\ name' = s /\ seg' = [seg EXCEPT ![s] = s]
  /\ UNCHANGED <<env, map, mutexName, holder, task>>

\* The constructor up to :76: createMemoryStorage() removes the segment of that name
\* and makes a new one; createPersistentStorage() reopens a file that has a map, and
\* removes one that has none.
CreateStorage(s) ==
  /\ MayStart(s)
  /\ \/ /\ FindsMap
        /\ seg' = [seg EXCEPT ![s] = name]
        /\ stage' = [stage EXCEPT ![s] = "stored"]
        /\ UNCHANGED name
     \/ /\ ~FindsMap
        /\ name' = s
        /\ seg' = [seg EXCEPT ![s] = s]
        /\ stage' = [stage EXCEPT ![s] = "created"]
  /\ UNCHANGED <<env, map, mutexName, holder, task>>

\* ... and "SharedMap" is constructed in what is new.
ConstructMap(s) ==
  /\ stage[s] = "created"
  /\ stage' = [stage EXCEPT ![s] = "stored"]
  /\ map' = [map EXCEPT ![s] = Empty]
  /\ UNCHANGED <<env, name, mutexName, holder, seg, task>>

KeepMutex(s) ==                    \* mutant: the old mutex is not removed
  /\ stage[s] = "stored"
  /\ stage' = [stage EXCEPT ![s] = "ready"]
  /\ mutexName' = IF mutexName = Nothing THEN s ELSE mutexName
  /\ UNCHANGED <<env, name, map, holder, seg, task>>

\* The constructor from :79: the mutex is removed, whoever holds it, and made anew.
CreateMutex(s) ==
  /\ stage[s] = "stored"
  /\ stage' = [stage EXCEPT ![s] = "ready"]
  /\ mutexName' = s
  /\ UNCHANGED <<env, name, map, holder, seg, task>>

\* A client's constructor: connectToMemoryStorage() or connectToPersistentStorage(),
\* which throw when there is no map, and open_or_create on the mutex.
Attach(c) ==
  /\ c \in env.clients /\ stage[c] = "off"
  /\ name # Nothing /\ map[name] # Nothing
  /\ env.eager \/ \A s \in Server : stage[s] \notin {"created", "stored"}
  /\ stage' = [stage EXCEPT ![c] = "ready"]
  /\ seg' = [seg EXCEPT ![c] = name]
  /\ mutexName' = IF mutexName = Nothing THEN c ELSE mutexName
  /\ UNCHANGED <<env, name, map, holder, task>>

-----------------------------------------------------------------------------
(* Insert, Update, Delete and Find *)

Step(p, at) == task' = [task EXCEPT ![p].at = at]

BeginUnchecked(p, op, k, v) ==     \* mutant: the mutex is taken to be there
  /\ stage[p] = "ready" /\ Idle(p)
  /\ task' = [task EXCEPT ![p] =
       [at |-> "locking", op |-> op, key |-> k, val |-> v, mutex |-> mutexName,
        found |-> Missing]]
  /\ UNCHANGED <<env, name, map, mutexName, holder, stage, seg>>

\* The mutex is opened by its name.  When there is none the operation ends with an
\* error, which is no step.
Begin(p, op, k, v) ==
  /\ stage[p] = "ready" /\ Idle(p)
  /\ mutexName # Nothing
  /\ task' = [task EXCEPT ![p] =
       [at |-> "locking", op |-> op, key |-> k, val |-> v, mutex |-> mutexName,
        found |-> Missing]]
  /\ UNCHANGED <<env, name, map, mutexName, holder, stage, seg>>

LockUnguarded(p) ==                \* mutant: scoped_lock is left out
  /\ task[p].at = "locking"
  /\ holder' = [holder EXCEPT ![task[p].mutex] = p]
  /\ Step(p, "finding")
  /\ UNCHANGED <<env, name, map, mutexName, stage, seg>>

Lock(p) ==
  /\ task[p].at = "locking"
  /\ holder[task[p].mutex] = Nothing
  /\ holder' = [holder EXCEPT ![task[p].mutex] = p]
  /\ Step(p, "finding")
  /\ UNCHANGED <<env, name, map, mutexName, stage, seg>>

\* find(key) in the map that p has mapped.  A map that the server has destroyed is
\* read through a dangling pointer and may yield anything; what else that could do to
\* the segment, which no server uses any more, is left out.
Find(p) ==
  LET readable == IF map[seg[p]] = Nothing THEN Value \cup {Missing}
                  ELSE {map[seg[p]][task[p].key]}
  IN
  /\ task[p].at = "finding"
  /\ \E v \in readable :
       task' = [task EXCEPT ![p].at = "working", ![p].found = v]
  /\ UNCHANGED <<env, name, map, mutexName, holder, stage, seg>>

Result(t) == IF t.op = "get" THEN t.found ELSE Missing

\* Whether the operation changes the map, after what find() returned.
Changes(t) ==
  \/ t.op = "insert" /\ t.found = Missing
  \/ t.op \in {"update", "delete"} /\ t.found # Missing

\* A write may be refused for lack of memory; a delete or a find may not.
Work(p) ==
  LET t == task[p] IN
  /\ t.at = "working"
  /\ \/ /\ Changes(t) /\ map[seg[p]] # Nothing
        /\ map' = [map EXCEPT ![seg[p]][t.key] = IF t.op = "delete" THEN Missing ELSE t.val]
     \/ /\ ~Changes(t) \/ t.op # "delete" \/ map[seg[p]] = Nothing
        /\ UNCHANGED map
  /\ Step(p, "unlocking")
  /\ UNCHANGED <<env, name, mutexName, holder, stage, seg>>

\* scoped_lock is left and the operation returns.
Unlock(p) ==
  /\ task[p].at = "unlocking"
  /\ holder' = [holder EXCEPT ![task[p].mutex] = Nothing]
  /\ task' = [task EXCEPT ![p] = Resting(Result(task[p]))]
  /\ UNCHANGED <<env, name, map, mutexName, stage, seg>>

-----------------------------------------------------------------------------
(* Destruction *)

\* Shutdown: the engine is finalized and the port is free.
Close(s) ==
  /\ s \in env.mayClose
  /\ stage[s] = "ready" /\ Idle(s)
  /\ stage' = [stage EXCEPT ![s] = "closing"]
  /\ UNCHANGED <<env, name, map, mutexName, holder, seg, task>>

\* ~KvStore() of a server: the map is destroyed, and in memory mode cleanupStorage()
\* removes the name, whatever it leads to now.
DestroyMap(s) ==
  /\ stage[s] = "closing"
  /\ stage' = [stage EXCEPT ![s] = "unlinking"]
  /\ map' = [map EXCEPT ![seg[s]] = Nothing]
  /\ name' = IF Persistent THEN name ELSE Nothing
  /\ UNCHANGED <<env, mutexName, holder, seg, task>>

\* ... and then the mutex is removed.
RemoveMutex(s) ==
  /\ stage[s] = "unlinking"
  /\ stage' = [stage EXCEPT ![s] = "gone"]
  /\ mutexName' = Nothing
  /\ UNCHANGED <<env, name, map, holder, seg, task>>

DetachAsServer(c) ==               \* mutant: a client's destructor cleans up too
  /\ stage[c] = "ready" /\ Idle(c)
  /\ stage' = [stage EXCEPT ![c] = "gone"]
  /\ map' = [map EXCEPT ![seg[c]] = Nothing]
  /\ UNCHANGED <<env, name, mutexName, holder, seg, task>>

\* ~KvStore() of a client leaves the shared resources intact.
Detach(c) ==
  /\ stage[c] = "ready" /\ Idle(c)
  /\ stage' = [stage EXCEPT ![c] = "gone"]
  /\ UNCHANGED <<env, name, map, mutexName, holder, seg, task>>

\* The process dies (or leaves by _exit(0) on a second signal): names, map and mutex
\* stay as they are, a mutex it holds stays locked.
Crash(p) ==
  /\ p \in env.mayCrash
  /\ stage[p] \notin {"off", "gone"}
  /\ stage' = [stage EXCEPT ![p] = "gone"]
  /\ task' = [task EXCEPT ![p] = Resting(Missing)]
  /\ UNCHANGED <<env, name, map, mutexName, holder, seg>>

ServerLife(s) ==
  CreateStorage(s) \/ ConstructMap(s) \/ CreateMutex(s) \/ Close(s) \/ DestroyMap(s) \/ RemoveMutex(s)

Operation(p) ==
  \/ \E k \in Key : \/ Begin(p, "get", k, Missing) \/ Begin(p, "delete", k, Missing)
                    \/ \E op \in {"insert", "update"}, v \in env.values : Begin(p, op, k, v)
  \/ Lock(p) \/ Find(p) \/ Work(p) \/ Unlock(p)

Next ==
  \/ \E s \in Server : ServerLife(s)
  \/ \E c \in Client : Attach(c) \/ Detach(c)
  \/ \E p \in Process : Operation(p) \/ Crash(p)

Spec == Init /\ [][Next]_vars

\* Processes run on, and a mutex that is free again and again is got in the end.
Fairness ==
  \A p \in Process : /\ SF_vars(Lock(p))
                     /\ WF_vars(Find(p)) /\ WF_vars(Work(p)) /\ WF_vars(Unlock(p))

FairSpec == Spec /\ Fairness

-----------------------------------------------------------------------------
(* Properties *)

\* Every variable keeps its type: in particular no operation waits for a mutex that
\* is not there (Insert, Update, Delete, Find open it by name).
TypeOK ==
  /\ env \in Environments
  /\ name \in Server \cup {Nothing}
  /\ map \in [Server -> [Key -> Value \cup {Missing}] \cup {Nothing}]
  /\ mutexName \in Process \cup {Nothing}
  /\ holder \in [Process -> Process \cup {Nothing}]
  /\ stage \in [Process -> Stages]
  /\ seg \in [Process -> Server \cup {Nothing}]
  /\ task \in [Process -> Tasks]

InSection(p) == task[p].at \in {"finding", "working", "unlocking"}

\* In memory mode nobody works on a server's map while the server does, whatever
\* clients its predecessors left behind with the old segment, the old mutex or both, as
\* long as servers and clients are started one after the other (createMemoryStorage,
\* the removal of the mutex, scoped_lock on it).
ServerWorksAlone ==
  ~Persistent /\ ~env.eager /\ ~env.hasty => \A s \in Server, p \in Process :
    InSection(s) /\ InSection(p) /\ p # s => seg[p] # seg[s]

\* KeyValueMap for one server that stays and clients that come and go once it is ready;
\* elsewhere nothing is promised.
Undisturbed == env.mayCrash = {} /\ env.mayClose = {} /\ ~env.eager /\ ~env.hasty

MappedCall(t) ==
  CASE t.at = "resting" -> [stage |-> "resting", result |-> t.result]
    [] t.at \in {"locking", "finding", "working"} ->
         [stage |-> "called", op |-> t.op, key |-> t.key, val |-> t.val]
    [] t.at = "unlocking" -> [stage |-> "done", result |-> Result(t)]

Map == INSTANCE KeyValueMap WITH
  Client <- Process,
  MayBeFull <- TRUE,
  content <- IF Undisturbed /\ name # Nothing /\ map[name] # Nothing THEN map[name] ELSE Empty,
  call <- [p \in Process |-> MappedCall(IF Undisturbed THEN task[p] ELSE Resting(Missing))]

\* The operations of the server and of the attached clients are atomic operations on
\* one map, though each looks up before it writes (Insert, Update, Delete, Find).
ImplementsMap == Map!Spec

\* A server that serves has its storage under the names the clients use: nothing that
\* its predecessors left behind, nor any client that comes, goes or dies, removes its
\* map, its segment or its mutex, as long as it is started after its predecessor has
\* ended (constructor and destructor of KvStore).
ServerStorageIntact ==
  ~env.hasty => \A s \in Server : stage[s] = "ready" =>
    /\ name # Nothing /\ name = seg[s] /\ map[name] # Nothing
    /\ mutexName = s

-----------------------------------------------------------------------------
(* The inductive invariant: why the storage is a server's own *)

\* Only a process that is ready works, and it has a segment.
Working ==
  \A p \in Process :
    /\ ~Idle(p) => stage[p] = "ready"
    /\ stage[p] \notin {"off", "gone"} => seg[p] \in Server

\* Who is in its critical section holds the mutex it has opened.
LockHeld == \A p \in Process : InSection(p) => holder[task[p].mutex] = p

Lives(s) == stage[s] \notin {"off", "gone"}

\* Servers follow one another, and the names lead to what the living one has made.
StorageInv ==
  ~env.hasty =>
    /\ \A s, t \in Server : Lives(s) /\ Lives(t) => s = t
    /\ \A s \in Server :
         /\ stage[s] = "created" => seg[s] = s
         /\ stage[s] \in {"created", "stored", "ready"} => name = seg[s]
         /\ stage[s] \in {"stored", "ready"} => map[seg[s]] # Nothing
         /\ stage[s] = "ready" => mutexName = s

\* In memory mode every server has a segment of its own, which nobody else has mapped
\* before it is ready, and whoever works on it then has opened its mutex.
SegmentInv ==
  ~Persistent /\ ~env.eager /\ ~env.hasty =>
    \A s \in Server :
      /\ Lives(s) => seg[s] = s
      /\ stage[s] = "off" => name # s
      /\ \A p \in Process \ {s} : seg[p] = s => stage[s] \notin {"off", "created", "stored"}
      /\ \A p \in Process : stage[s] = "ready" /\ seg[p] = s /\ ~Idle(p) => task[p].mutex = s

\* A server that stays: every process that is ready works on its map, has opened its
\* mutex, and before it writes it knows what the map still holds.
MapInv ==
  Undisturbed =>
    /\ \A s \in Server : stage[s] \in {"off", "created", "stored", "ready"}
    /\ \A s \in Server : stage[s] \in {"off", "created"} => map[s] = Nothing
    /\ name # Nothing => \E s \in Server : stage[s] # "off"
    /\ \A p \in Process : stage[p] = "ready" =>
         \E s \in Server : /\ stage[s] = "ready" /\ seg[p] = seg[s]
                           /\ ~Idle(p) => task[p].mutex = s
    /\ \A p \in Process : task[p].at = "working" => task[p].found = map[seg[p]][task[p].key]

\* In every environment: a map is constructed where none has been, and what is written
\* is a value.
DataInv ==
  /\ \A s \in Server : stage[s] \in {"off", "created"} => map[s] = Nothing
  /\ \A p \in Process : ~Idle(p) /\ task[p].op \in {"insert", "update"} => task[p].val \in Value

Inv == TypeOK /\ Working /\ LockHeld /\ StorageInv /\ SegmentInv /\ MapInv /\ DataInv

-----------------------------------------------------------------------------
(* More properties *)

\* The keys in the storage that a process of this node would open now.
Stored == {k \in Key : name # Nothing /\ map[name] # Nothing /\ map[name][k] # Missing}

\* A server or client deletes k.
DeletesKey(k) ==
  \E p \in Process : /\ task[p].at = "working" /\ task'[p].at = "unlocking"
                     /\ task[p].op = "delete" /\ task[p].key = k

\* In persistent mode a key leaves the file by a delete, or because a server that is
\* shut down destroys the map: no crash of a server or a client, at any point of an
\* operation or of a shutdown, and no restart loses it (createPersistentStorage).
DataSurvivesCrashes ==
  [][Persistent => \A k \in Stored \ Stored' :
       DeletesKey(k) \/ \E s \in Server : stage[s] = "closing" /\ stage'[s] = "unlinking"]_vars

\* "Data survives restarts" (start_nodes.sh:107), "Data will persist across server
\* restarts" (start_nodes.sh:243): in persistent mode a key leaves the file by a
\* delete only.
DataSurvivesRestarts ==
  [][Persistent => \A k \in Stored \ Stored' : DeletesKey(k)]_vars

\* An operation of a server returns, unless a client died with the server's mutex in
\* its hands: a process that died with the mutex of an earlier incarnation does not
\* block it (the constructor removes the mutex, scoped_lock).
ServerOperationReturns ==
  \A s \in Server :
    ~Idle(s) ~> Idle(s) \/ \E c \in Client : holder[task[s].mutex] = c /\ stage[c] = "gone"

=============================================================================
