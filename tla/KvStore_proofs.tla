---------------------------- MODULE KvStore_proofs ----------------------------
(***************************************************************************)
(* Proofs about KvStore for every set of processes, keys and values and    *)
(* every environment.                                                      *)
(***************************************************************************)
EXTENDS KvStore, TLAPS

USE DEF Process

\* Nothing is neither a process nor a map, and an environment is a record.
LEMMA Facts ==
  /\ Nothing \notin Server /\ Nothing \notin Client
  /\ \A m \in [Key -> Value \cup {Missing}] : m # Nothing
  /\ \A e \in Environments : e \in Environment
BY StoreAssumption

\* The operations a process may begin are well typed, whatever the environment.
LEMMA OperationCases ==
  ASSUME TypeOK, NEW p \in Process, Operation(p)
  PROVE  \/ \E op \in {"get", "insert", "update", "delete"}, k \in Key,
               v \in Value \cup {Missing} : Begin(p, op, k, v)
         \/ Lock(p) \/ Find(p) \/ Work(p) \/ Unlock(p)
<1>1. env.values \subseteq Value
  BY Facts DEF TypeOK, Environment
<1> QED
  BY <1>1 DEF Operation

-----------------------------------------------------------------------------
(* Type correctness *)

\* Types, and who works and who holds which mutex, at the start.
LEMMA InitType == Init => TypeOK /\ Working /\ LockHeld
BY StoreAssumption
   DEF Init, TypeOK, Working, LockHeld, Stages, Tasks, Resting, Idle, InSection

\* Every step keeps the types; Find and Work need that a process that works has a
\* segment.
LEMMA TypeStep ==
  ASSUME TypeOK, Working, [Next]_vars
  PROVE  TypeOK'
<1> USE DEF TypeOK
<1>1. ASSUME NEW s \in Server, CreateStorage(s) PROVE TypeOK'
  BY <1>1 DEF CreateStorage, FindsMap, Stages
<1>2. ASSUME NEW s \in Server, ConstructMap(s) PROVE TypeOK'
  BY <1>2 DEF ConstructMap, Empty, Stages
<1>3. ASSUME NEW s \in Server, CreateMutex(s) PROVE TypeOK'
  BY <1>3 DEF CreateMutex, Stages
<1>4. ASSUME NEW s \in Server, Close(s) PROVE TypeOK'
  BY <1>4 DEF Close, Stages
<1>5. ASSUME NEW s \in Server, DestroyMap(s) PROVE TypeOK'
  BY <1>5 DEF DestroyMap, Stages
<1>6. ASSUME NEW s \in Server, RemoveMutex(s) PROVE TypeOK'
  BY <1>6 DEF RemoveMutex, Stages
<1>7. ASSUME NEW c \in Client, Attach(c) PROVE TypeOK'
  BY <1>7 DEF Attach, Stages
<1>8. ASSUME NEW c \in Client, Detach(c) PROVE TypeOK'
  BY <1>8 DEF Detach, Stages
<1>9. ASSUME NEW p \in Process, NEW op \in {"get", "insert", "update", "delete"},
             NEW k \in Key, NEW v \in Value \cup {Missing}, Begin(p, op, k, v)
      PROVE  TypeOK'
  BY <1>9 DEF Begin, Tasks
<1>10. ASSUME NEW p \in Process, Lock(p) PROVE TypeOK'
  BY <1>10 DEF Lock, Step, Tasks
<1>11. ASSUME NEW p \in Process, Find(p) PROVE TypeOK'
  <2>1. seg[p] \in Server /\ task[p] \in Tasks /\ task[p].key \in Key
    BY <1>11 DEF Find, Working, Idle, Tasks
  <2> QED
    BY <1>11, <2>1 DEF Find, Tasks
<1>12. ASSUME NEW p \in Process, Work(p) PROVE TypeOK'
  <2>1. /\ seg[p] \in Server /\ task[p].key \in Key /\ task[p].val \in Value \cup {Missing}
        /\ task' = [task EXCEPT ![p].at = "unlocking"]
    BY <1>12 DEF Work, Step, Working, Idle, Tasks
  <2>2. map' \in [Server -> [Key -> Value \cup {Missing}] \cup {Nothing}]
    BY <1>12, <2>1 DEF Work
  <2>3. task' \in [Process -> Tasks]
    BY <1>12, <2>1 DEF Work, Tasks
  <2> QED
    BY <1>12, <2>2, <2>3 DEF Work
<1>13. ASSUME NEW p \in Process, Unlock(p) PROVE TypeOK'
  <2>1. Result(task[p]) \in Value \cup {Missing}
    BY <1>13 DEF Unlock, Result, Tasks
  <2> QED
    BY <1>13, <2>1 DEF Unlock, Resting, Tasks
<1>14. ASSUME NEW p \in Process, Crash(p) PROVE TypeOK'
  BY <1>14 DEF Crash, Resting, Tasks, Stages
<1>15. CASE UNCHANGED vars
  BY <1>15 DEF vars
<1> QED
  BY <1>1, <1>2, <1>3, <1>4, <1>5, <1>6, <1>7, <1>8, <1>9, <1>10, <1>11, <1>12, <1>13,
     <1>14, <1>15, OperationCases DEF Next, ServerLife

-----------------------------------------------------------------------------
(* Mutual exclusion *)

\* What a process works on and the mutex it holds change by its own steps only.
LEMMA WorkingStep ==
  ASSUME TypeOK, Working, [Next]_vars
  PROVE  Working'
<1> USE DEF TypeOK, Working, Idle
<1>1. ASSUME NEW s \in Server, CreateStorage(s) PROVE Working'
  BY <1>1, Facts DEF CreateStorage, MayStart, FindsMap, Stages
<1>2. ASSUME NEW s \in Server, ConstructMap(s) PROVE Working'
  BY <1>2 DEF ConstructMap
<1>3. ASSUME NEW s \in Server, CreateMutex(s) PROVE Working'
  BY <1>3 DEF CreateMutex
<1>4. ASSUME NEW s \in Server, Close(s) PROVE Working'
  BY <1>4 DEF Close
<1>5. ASSUME NEW s \in Server, DestroyMap(s) PROVE Working'
  BY <1>5 DEF DestroyMap
<1>6. ASSUME NEW s \in Server, RemoveMutex(s) PROVE Working'
  BY <1>6 DEF RemoveMutex
<1>7. ASSUME NEW c \in Client, Attach(c) PROVE Working'
  BY <1>7 DEF Attach
<1>8. ASSUME NEW c \in Client, Detach(c) PROVE Working'
  BY <1>8 DEF Detach
<1>9. ASSUME NEW p \in Process, NEW op \in {"get", "insert", "update", "delete"},
             NEW k \in Key, NEW v \in Value \cup {Missing}, Begin(p, op, k, v)
      PROVE  Working'
  BY <1>9 DEF Begin
<1>10. ASSUME NEW p \in Process, Lock(p) PROVE Working'
  BY <1>10 DEF Lock, Step
<1>11. ASSUME NEW p \in Process, Find(p) PROVE Working'
  <2>1. PICK v : task' = [task EXCEPT ![p].at = "working", ![p].found = v]
    BY <1>11 DEF Find
  <2> QED
    BY <1>11, <2>1 DEF Find
<1>12. ASSUME NEW p \in Process, Work(p) PROVE Working'
  BY <1>12 DEF Work, Step
<1>13. ASSUME NEW p \in Process, Unlock(p) PROVE Working'
  BY <1>13 DEF Unlock, Resting
<1>14. ASSUME NEW p \in Process, Crash(p) PROVE Working'
  BY <1>14 DEF Crash, Resting
<1>15. CASE UNCHANGED vars
  BY <1>15 DEF vars
<1> QED
  BY <1>1, <1>2, <1>3, <1>4, <1>5, <1>6, <1>7, <1>8, <1>9, <1>10, <1>11, <1>12, <1>13,
     <1>14, <1>15, OperationCases DEF Next, ServerLife

\* A mutex is taken when it is free and released by who holds it.
LEMMA LockStep ==
  ASSUME TypeOK, Working, LockHeld, [Next]_vars
  PROVE  LockHeld'
<1> USE DEF TypeOK, LockHeld, InSection
<1>1. CASE UNCHANGED <<holder, task>>
  BY <1>1
<1>2. ASSUME NEW p \in Process, NEW op \in {"get", "insert", "update", "delete"},
             NEW k \in Key, NEW v \in Value \cup {Missing}, Begin(p, op, k, v)
      PROVE  LockHeld'
  BY <1>2 DEF Begin
<1>3. ASSUME NEW p \in Process, Lock(p) PROVE LockHeld'
  <2>1. task[p].mutex \in Process
    BY <1>3 DEF Lock, Tasks
  <2> QED
    BY <1>3, <2>1, Facts DEF Lock, Step
<1>4. ASSUME NEW p \in Process, Find(p) PROVE LockHeld'
  <2>1. PICK v : task' = [task EXCEPT ![p].at = "working", ![p].found = v]
    BY <1>4 DEF Find
  <2> QED
    BY <1>4, <2>1 DEF Find, Tasks
<1>5. ASSUME NEW p \in Process, Work(p) PROVE LockHeld'
  BY <1>5 DEF Work, Step, Tasks
<1>6. ASSUME NEW p \in Process, Unlock(p) PROVE LockHeld'
  <2>1. task[p].mutex \in Process
    BY <1>6 DEF Unlock, Tasks
  <2> QED
    BY <1>6, <2>1 DEF Unlock, Resting
<1>7. ASSUME NEW p \in Process, Crash(p) PROVE LockHeld'
  BY <1>7 DEF Crash, Resting
<1> QED
  BY <1>1, <1>2, <1>3, <1>4, <1>5, <1>6, <1>7, OperationCases
     DEF Next, ServerLife, CreateStorage, ConstructMap, CreateMutex, Close, DestroyMap,
         RemoveMutex, Attach, Detach, vars

-----------------------------------------------------------------------------
(* Whose the names are *)

\* While servers follow one another, what one has made and named stays so until it
\* closes; no client and no crash touches it.
LEMMA StorageStep ==
  ASSUME TypeOK, Working, StorageInv, [Next]_vars
  PROVE  StorageInv'
<1> USE DEF TypeOK, StorageInv, Lives
<1>1. ASSUME NEW s \in Server, CreateStorage(s) PROVE StorageInv'
  <2>1. ~env.hasty => \A t \in Server \ {s} : stage[t] \in {"off", "gone"}
    BY <1>1 DEF CreateStorage, MayStart
  <2>2. CASE FindsMap
    <3>1. /\ name \in Server /\ map[name] # Nothing
          /\ seg' = [seg EXCEPT ![s] = name] /\ stage' = [stage EXCEPT ![s] = "stored"]
          /\ UNCHANGED <<env, name, map, mutexName>>
      BY <1>1, <2>2 DEF CreateStorage, FindsMap
    <3> QED
      BY <2>1, <3>1
  <2>3. CASE ~FindsMap
    <3>1. /\ seg' = [seg EXCEPT ![s] = s] /\ stage' = [stage EXCEPT ![s] = "created"]
          /\ name' = s
          /\ UNCHANGED <<env, map, mutexName>>
      BY <1>1, <2>3 DEF CreateStorage
    <3> QED
      BY <2>1, <3>1
  <2> QED
    BY <2>2, <2>3
<1>2. ASSUME NEW s \in Server, ConstructMap(s) PROVE StorageInv'
  <2>1. Empty # Nothing
    BY Facts DEF Empty
  <2> QED
    BY <1>2, <2>1 DEF ConstructMap
<1>3. ASSUME NEW s \in Server, CreateMutex(s) PROVE StorageInv'
  BY <1>3 DEF CreateMutex
<1>4. ASSUME NEW s \in Server, Close(s) PROVE StorageInv'
  BY <1>4 DEF Close
<1>5. ASSUME NEW s \in Server, DestroyMap(s) PROVE StorageInv'
  BY <1>5 DEF DestroyMap
<1>6. ASSUME NEW s \in Server, RemoveMutex(s) PROVE StorageInv'
  BY <1>6 DEF RemoveMutex
<1>7. ASSUME NEW c \in Client, Attach(c) PROVE StorageInv'
  BY <1>7, Facts, StoreAssumption DEF Attach
<1>8. ASSUME NEW c \in Client, Detach(c) PROVE StorageInv'
  BY <1>8, StoreAssumption DEF Detach
<1>9. ASSUME NEW p \in Process, Crash(p) PROVE StorageInv'
  BY <1>9 DEF Crash
<1>10. ASSUME NEW p \in Process, Work(p) PROVE StorageInv'
  <2>1. \A s \in Server : map[s] # Nothing => map'[s] # Nothing
    <3>1. map' \in [Server -> [Key -> Value \cup {Missing}] \cup {Nothing}]
      BY TypeStep
    <3>2. seg[p] \in Server
      BY <1>10 DEF Work, Working, Idle
    <3>3. CASE UNCHANGED map
      BY <3>3
    <3>4. CASE map[seg[p]] # Nothing
               /\ map' = [map EXCEPT ![seg[p]][task[p].key] =
                            IF task[p].op = "delete" THEN Missing ELSE task[p].val]
      <4>1. map'[seg[p]] = [map[seg[p]] EXCEPT ![task[p].key] =
                              IF task[p].op = "delete" THEN Missing ELSE task[p].val]
        BY <3>2, <3>4
      <4>2. task[p].key \in Key /\ task[p].val \in Value \cup {Missing}
        BY <1>10 DEF Work, Tasks
      <4>3. map'[seg[p]] \in [Key -> Value \cup {Missing}]
        BY <3>2, <3>4, <4>1, <4>2
      <4> QED
        BY <3>2, <3>4, <4>3, Facts
    <3> QED
      BY <1>10, <3>3, <3>4 DEF Work
  <2>2. \A s \in Server : stage[s] \in {"stored", "ready"} => seg[s] \in Server
    BY DEF Working
  <2> QED
    BY <1>10, <2>1, <2>2 DEF Work
<1>11. CASE UNCHANGED <<env, name, map, mutexName, stage, seg>>
  BY <1>11
<1> QED
  BY <1>1, <1>2, <1>3, <1>4, <1>5, <1>6, <1>7, <1>8, <1>9, <1>10, <1>11, OperationCases
     DEF Next, ServerLife, Begin, Lock, Find, Unlock, vars

\* In memory mode a server's segment is its own, and a process that maps it has come
\* when the server was ready, so it opens the server's mutex.
LEMMA SegmentStep ==
  ASSUME TypeOK, Working, StorageInv, SegmentInv, [Next]_vars
  PROVE  SegmentInv'
<1> SUFFICES ASSUME ~Persistent', ~env'.eager, ~env'.hasty
             PROVE  SegmentInv'
  BY DEF SegmentInv
<1>env. env' = env
  BY DEF Next, ServerLife, Operation, CreateStorage, ConstructMap, CreateMutex, Close,
         DestroyMap, RemoveMutex, Attach, Detach, Begin, Lock, Find, Work, Unlock, Crash, vars
<1>mem. ~Persistent /\ ~env.eager /\ ~env.hasty
  BY <1>env DEF Persistent
<1> USE <1>env, <1>mem DEF TypeOK, SegmentInv, Lives
<1>1. ASSUME NEW s \in Server, CreateStorage(s) PROVE SegmentInv'
  <2>1. /\ stage[s] = "off" /\ seg' = [seg EXCEPT ![s] = s] /\ name' = s
        /\ stage' = [stage EXCEPT ![s] = "created"] /\ UNCHANGED task
    BY <1>1 DEF CreateStorage, FindsMap, MayStart
  <2>2. Idle(s)
    BY <2>1 DEF Working
  <2> QED
    BY <2>1, <2>2 DEF Idle
<1>2. ASSUME NEW s \in Server, ConstructMap(s) PROVE SegmentInv'
  BY <1>2 DEF ConstructMap, Idle
<1>3. ASSUME NEW s \in Server, CreateMutex(s) PROVE SegmentInv'
  <2>1. Idle(s)
    BY <1>3 DEF CreateMutex, Working
  <2> QED
    BY <1>3, <2>1 DEF CreateMutex, Idle
<1>4. ASSUME NEW s \in Server, Close(s) PROVE SegmentInv'
  BY <1>4 DEF Close, Idle
<1>5. ASSUME NEW s \in Server, DestroyMap(s) PROVE SegmentInv'
  BY <1>5, Facts DEF DestroyMap, Idle
<1>6. ASSUME NEW s \in Server, RemoveMutex(s) PROVE SegmentInv'
  BY <1>6 DEF RemoveMutex, Idle
<1>7. ASSUME NEW c \in Client, Attach(c) PROVE SegmentInv'
  <2>1. /\ c \notin Server /\ stage[c] = "off" /\ name \in Server
        /\ \A s \in Server : stage[s] \notin {"created", "stored"}
        /\ stage' = [stage EXCEPT ![c] = "ready"] /\ seg' = [seg EXCEPT ![c] = name]
        /\ UNCHANGED <<name, task>>
    BY <1>7, StoreAssumption DEF Attach
  <2>2. Idle(c) /\ stage[name] # "off"
    BY <2>1 DEF Working
  <2> QED
    BY <2>1, <2>2 DEF Idle
<1>8. ASSUME NEW c \in Client, Detach(c) PROVE SegmentInv'
  BY <1>8, StoreAssumption DEF Detach, Idle
<1>9. ASSUME NEW p \in Process, NEW op \in {"get", "insert", "update", "delete"},
             NEW k \in Key, NEW v \in Value \cup {Missing}, Begin(p, op, k, v)
      PROVE  SegmentInv'
  <2>1. \A s \in Server : stage[s] = "ready" => mutexName = s
    BY DEF StorageInv
  <2> QED
    BY <1>9, <2>1 DEF Begin, Idle
<1>10. ASSUME NEW p \in Process, Lock(p) PROVE SegmentInv'
  BY <1>10 DEF Lock, Step, Idle
<1>11. ASSUME NEW p \in Process, Find(p) PROVE SegmentInv'
  <2>1. PICK v : task' = [task EXCEPT ![p].at = "working", ![p].found = v]
    BY <1>11 DEF Find
  <2> QED
    BY <1>11, <2>1 DEF Find, Idle
<1>12. ASSUME NEW p \in Process, Work(p) PROVE SegmentInv'
  BY <1>12 DEF Work, Step, Idle
<1>13. ASSUME NEW p \in Process, Unlock(p) PROVE SegmentInv'
  BY <1>13 DEF Unlock, Resting, Idle
<1>14. ASSUME NEW p \in Process, Crash(p) PROVE SegmentInv'
  BY <1>14 DEF Crash, Resting, Idle
<1>15. CASE UNCHANGED vars
  BY <1>15 DEF vars, Idle
<1> QED
  BY <1>1, <1>2, <1>3, <1>4, <1>5, <1>6, <1>7, <1>8, <1>9, <1>10, <1>11, <1>12, <1>13,
     <1>14, <1>15, OperationCases DEF Next, ServerLife

-----------------------------------------------------------------------------
(* Atomicity *)

\* With a server that stays, whoever is ready works on its map under its mutex, so what
\* find() has returned is still true when the operation writes.
LEMMA MapStep ==
  ASSUME TypeOK, Working, LockHeld, StorageInv, MapInv, [Next]_vars
  PROVE  MapInv'
<1> SUFFICES ASSUME Undisturbed'
             PROVE  MapInv'
  BY DEF MapInv
<1>env. env' = env
  BY DEF Next, ServerLife, Operation, CreateStorage, ConstructMap, CreateMutex, Close,
         DestroyMap, RemoveMutex, Attach, Detach, Begin, Lock, Find, Work, Unlock, Crash, vars
<1>und. Undisturbed /\ env.mayCrash = {} /\ env.mayClose = {} /\ ~env.eager /\ ~env.hasty
  BY <1>env DEF Undisturbed
<1>a. \A s \in Server : stage[s] \in {"off", "created", "stored", "ready"}
  BY <1>und DEF MapInv
<1>b. \A p \in Process : stage[p] = "ready" =>
        \E s \in Server : /\ stage[s] = "ready" /\ seg[p] = seg[s]
                          /\ ~Idle(p) => task[p].mutex = s
  BY <1>und DEF MapInv
<1>c. \A p \in Process : task[p].at = "working" => task[p].found = map[seg[p]][task[p].key]
  BY <1>und DEF MapInv
<1>d. name # Nothing => \E s \in Server : stage[s] # "off"
  BY <1>und DEF MapInv
<1>e. \A s, t \in Server : stage[s] # "off" /\ stage[t] # "off" => s = t
  BY <1>und, <1>a DEF StorageInv, Lives
<1>f. \A s \in Server :
        /\ stage[s] \in {"created", "stored", "ready"} => name = seg[s]
        /\ stage[s] \in {"stored", "ready"} => map[seg[s]] # Nothing
        /\ stage[s] = "ready" => mutexName = s
  BY <1>und DEF StorageInv
<1>g. \A p \in Process : stage[p] # "ready" => Idle(p)
  BY DEF Working
<1>h. \A s \in Server : stage[s] \in {"off", "created"} => map[s] = Nothing
  BY <1>und DEF MapInv
<1> USE DEF TypeOK, Idle
<1> HIDE DEF MapInv
<1> DEFINE Goal(st, sg, nm, mp, tk) ==
      /\ \A s \in Server : st[s] \in {"off", "created", "stored", "ready"}
      /\ \A s \in Server : st[s] \in {"off", "created"} => mp[s] = Nothing
      /\ nm # Nothing => \E s \in Server : st[s] # "off"
      /\ \A p \in Process : st[p] = "ready" =>
           \E s \in Server : /\ st[s] = "ready" /\ sg[p] = sg[s]
                             /\ tk[p].at # "resting" => tk[p].mutex = s
      /\ \A p \in Process : tk[p].at = "working" => tk[p].found = mp[sg[p]][tk[p].key]
<1>goal. SUFFICES Goal(stage', seg', name', map', task')
  BY DEF MapInv
<1>1. ASSUME NEW s \in Server, CreateStorage(s) PROVE Goal(stage', seg', name', map', task')
  <2>1. \A t \in Server : stage[t] = "off"
    BY <1>1, <1>und, <1>a DEF CreateStorage, MayStart
  <2>2. \A p \in Process : stage[p] # "ready" /\ Idle(p)
    BY <2>1, <1>b, <1>g
  <2>3. /\ stage' \in [Process -> Stages] /\ stage'[s] \in {"created", "stored"}
        /\ \A p \in Process \ {s} : stage'[p] = stage[p]
        /\ task' = task /\ map' = map
    BY <1>1 DEF CreateStorage, Stages
  <2> QED
    BY <2>1, <2>2, <2>3, <1>h
<1>2. ASSUME NEW s \in Server, ConstructMap(s) PROVE Goal(stage', seg', name', map', task')
  <2>1. \A p \in Process : stage[p] # "ready" /\ Idle(p)
    BY <1>2, <1>b, <1>e, <1>g DEF ConstructMap
  <2> QED
    BY <1>2, <1>a, <1>d, <1>h, <2>1 DEF ConstructMap
<1>3. ASSUME NEW s \in Server, CreateMutex(s) PROVE Goal(stage', seg', name', map', task')
  <2>1. \A p \in Process : stage[p] # "ready" /\ Idle(p)
    BY <1>3, <1>b, <1>e, <1>g DEF CreateMutex
  <2> QED
    BY <1>3, <1>a, <1>d, <1>h, <2>1 DEF CreateMutex
<1>4. ASSUME NEW c \in Client, Attach(c) PROVE Goal(stage', seg', name', map', task')
  <2>1. /\ c \notin Server /\ stage[c] = "off" /\ name # Nothing
        /\ \A s \in Server : stage[s] \notin {"created", "stored"}
        /\ stage' = [stage EXCEPT ![c] = "ready"] /\ seg' = [seg EXCEPT ![c] = name]
        /\ UNCHANGED <<name, map, task>>
    BY <1>4, <1>und, StoreAssumption DEF Attach
  <2>2. PICK s \in Server : stage[s] = "ready" /\ name = seg[s]
    BY <2>1, <1>a, <1>d, <1>f
  <2>3. Idle(c)
    BY <2>1, <1>g
  <2> QED
    BY <2>1, <2>2, <2>3, <1>a, <1>b, <1>c, <1>g, <1>h
<1>5. ASSUME NEW c \in Client, Detach(c) PROVE Goal(stage', seg', name', map', task')
  <2>1. c \notin Server
    BY StoreAssumption
  <2> QED
    BY <1>5, <2>1, <1>a, <1>b, <1>c, <1>d, <1>h DEF Detach
<1>6. ASSUME NEW p \in Process, NEW op \in {"get", "insert", "update", "delete"},
             NEW k \in Key, NEW v \in Value \cup {Missing}, Begin(p, op, k, v)
      PROVE  Goal(stage', seg', name', map', task')
  <2>1. /\ task' = [task EXCEPT ![p] = [at |-> "locking", op |-> op, key |-> k, val |-> v,
                                        mutex |-> mutexName, found |-> Missing]]
        /\ UNCHANGED <<stage, seg, name, map>>
    BY <1>6 DEF Begin
  <2> QED
    BY <2>1, <1>a, <1>b, <1>c, <1>d, <1>h, <1>f
<1>7. ASSUME NEW p \in Process, Lock(p) PROVE Goal(stage', seg', name', map', task')
  BY <1>7, <1>a, <1>b, <1>c, <1>d, <1>h DEF Lock, Step
<1>8. ASSUME NEW p \in Process, Find(p) PROVE Goal(stage', seg', name', map', task')
  <2>1. stage[p] = "ready" /\ map[seg[p]] # Nothing
    BY <1>8, <1>b, <1>f, <1>g DEF Find
  <2>2. /\ task' = [task EXCEPT ![p].at = "working", ![p].found = map[seg[p]][task[p].key]]
        /\ UNCHANGED <<stage, seg, name, map>>
    BY <1>8, <2>1 DEF Find
  <2>3. \A q \in Process : /\ task'[q].at # "resting" =>
                                task[q].at # "resting" /\ task'[q].mutex = task[q].mutex
                           /\ q # p => task'[q] = task[q]
    BY <1>8, <2>2 DEF Find, Tasks
  <2>4. task'[p].key = task[p].key /\ task'[p].found = map[seg[p]][task[p].key]
    BY <1>8, <2>2 DEF Find, Tasks
  <2> QED
    BY <2>2, <2>3, <2>4, <1>a, <1>b, <1>c, <1>d, <1>h
<1>9. ASSUME NEW p \in Process, Work(p) PROVE Goal(stage', seg', name', map', task')
  <2>1. \A q \in Process \ {p} : task[q].at # "working"
    <3>1. SUFFICES ASSUME NEW q \in Process, q # p, task[q].at = "working" PROVE FALSE
      OBVIOUS
    <3>2. task[q].mutex = task[p].mutex
      BY <1>9, <3>1, <1>b, <1>e, <1>g DEF Work
    <3> QED
      BY <1>9, <3>1, <3>2 DEF Work, LockHeld, InSection
  <2>2. /\ task' = [task EXCEPT ![p].at = "unlocking"]
        /\ UNCHANGED <<stage, seg, name>>
    BY <1>9 DEF Work, Step
  <2>3. \A q \in Process : /\ task'[q].at # "resting" =>
                                task[q].at # "resting" /\ task'[q].mutex = task[q].mutex
                           /\ task'[q].at # "working"
    BY <1>9, <2>1, <2>2 DEF Work, Tasks
  <2>4. \A s \in Server : map[s] = Nothing => map'[s] = Nothing
    BY <1>9, <1>b, <1>g DEF Work
  <2> QED
    BY <2>2, <2>3, <2>4, <1>a, <1>b, <1>d, <1>h
<1>10. ASSUME NEW p \in Process, Unlock(p) PROVE Goal(stage', seg', name', map', task')
  BY <1>10, <1>a, <1>b, <1>c, <1>d, <1>h DEF Unlock, Resting
<1>11. ASSUME NEW p \in Process,
              Crash(p) \/ (p \in Server /\ (Close(p) \/ DestroyMap(p) \/ RemoveMutex(p)))
       PROVE  FALSE
  BY <1>11, <1>und, <1>a DEF Crash, Close, DestroyMap, RemoveMutex
<1>12. CASE UNCHANGED vars
  BY <1>12, <1>a, <1>b, <1>c, <1>d, <1>h DEF vars
<1> HIDE DEF Goal
<1> QED
  BY <1>1, <1>2, <1>3, <1>4, <1>5, <1>6, <1>7, <1>8, <1>9, <1>10, <1>11, <1>12,
     OperationCases DEF Next, ServerLife

-----------------------------------------------------------------------------
(* The data *)

\* A map appears where its server constructs it, once, and an operation keeps the value
\* it was begun with.
LEMMA DataStep ==
  ASSUME TypeOK, Working, DataInv, [Next]_vars
  PROVE  DataInv'
<1> USE DEF TypeOK, DataInv, Idle
<1>1. CASE UNCHANGED <<map, stage, task>>
  BY <1>1
<1>2. ASSUME NEW s \in Server, ServerLife(s) PROVE DataInv'
  BY <1>2, StoreAssumption
     DEF ServerLife, CreateStorage, MayStart, ConstructMap, CreateMutex, Close, DestroyMap,
         RemoveMutex, Stages
<1>3. ASSUME NEW c \in Client, Attach(c) \/ Detach(c) PROVE DataInv'
  BY <1>3, StoreAssumption DEF Attach, Detach
<1>4. ASSUME NEW p \in Process, Crash(p) PROVE DataInv'
  BY <1>4 DEF Crash, Resting
<1>5. ASSUME NEW p \in Process, NEW op \in {"get", "insert", "update", "delete"}, NEW k \in Key,
             NEW v \in Value \cup {Missing}, Begin(p, op, k, v),
             op \in {"insert", "update"} => v \in Value
      PROVE  DataInv'
  BY <1>5 DEF Begin
<1>6. ASSUME NEW p \in Process, Lock(p) PROVE DataInv'
  BY <1>6 DEF Lock, Step, Tasks
<1>7. ASSUME NEW p \in Process, Find(p) PROVE DataInv'
  <2>1. PICK v : task' = [task EXCEPT ![p].at = "working", ![p].found = v]
    BY <1>7 DEF Find
  <2> QED
    BY <1>7, <2>1 DEF Find, Tasks
<1>8. ASSUME NEW p \in Process, Work(p) PROVE DataInv'
  <2>1. seg[p] \in Server
    BY <1>8 DEF Work, Working
  <2>2. \A s \in Server : map[s] = Nothing => map'[s] = Nothing
    BY <1>8, <2>1 DEF Work
  <2> QED
    BY <1>8, <2>2 DEF Work, Step, Tasks
<1>9. ASSUME NEW p \in Process, Unlock(p) PROVE DataInv'
  BY <1>9 DEF Unlock, Resting
<1>10. ASSUME NEW p \in Process, Operation(p) PROVE DataInv'
  <2>1. env.values \subseteq Value
    BY Facts DEF Environment
  <2> QED
    BY <1>5, <1>6, <1>7, <1>8, <1>9, <1>10, <2>1 DEF Operation
<1> QED
  BY <1>1, <1>2, <1>3, <1>4, <1>10 DEF Next, vars

-----------------------------------------------------------------------------
(* Theorems *)

\* The invariant holds at the start.
LEMMA InitInv == Init => Inv
<1> SUFFICES ASSUME Init PROVE Inv
  OBVIOUS
<1>1. TypeOK /\ Working /\ LockHeld
  BY InitType
<1>2. StorageInv /\ SegmentInv /\ MapInv /\ DataInv
  BY Facts, StoreAssumption
     DEF Init, StorageInv, SegmentInv, MapInv, DataInv, Lives, Idle, Resting
<1> QED
  BY <1>1, <1>2 DEF Inv

\* The invariant is kept by every step.
LEMMA NextInv == Inv /\ [Next]_vars => Inv'
BY TypeStep, WorkingStep, LockStep, StorageStep, SegmentStep, MapStep, DataStep DEF Inv

\* The inductive invariant holds in every reachable state.
THEOREM Invariance == Spec => []Inv
<1> QED
  BY InitInv, NextInv, PTL DEF Spec

\* Type correctness: in particular no operation of any process ever waits for a mutex
\* that is not there (Insert, Update, Delete, Find).
THEOREM TypeCorrect == Spec => []TypeOK
<1>1. Inv => TypeOK
  BY DEF Inv
<1> QED
  BY <1>1, Invariance, PTL

\* A server that serves has its storage under the names the clients use, for every
\* number of incarnations and clients and whenever they come, go or die (constructor
\* and destructor of KvStore).
THEOREM StorageIntact == Spec => []ServerStorageIntact
<1>1. Inv => ServerStorageIntact
  BY Facts DEF Inv, TypeOK, Working, StorageInv, ServerStorageIntact
<1> QED
  BY <1>1, Invariance, PTL

\* In memory mode nobody works on a server's map while the server does, whatever its
\* predecessors left behind (createMemoryStorage, the removal of the mutex).
THEOREM WorksAlone == Spec => []ServerWorksAlone
<1>1. Inv => ServerWorksAlone
  <2> SUFFICES ASSUME Inv, ~Persistent, ~env.eager, ~env.hasty,
                      NEW s \in Server, NEW p \in Process,
                      InSection(s), InSection(p), p # s, seg[p] = seg[s]
               PROVE  FALSE
    BY DEF ServerWorksAlone
  <2>1. stage[s] = "ready" /\ ~Idle(s) /\ ~Idle(p)
    BY DEF Inv, Working, InSection, Idle
  <2>2. seg[s] = s
    BY <2>1 DEF Inv, SegmentInv, Lives
  <2>3. task[s].mutex = s /\ task[p].mutex = s
    BY <2>1, <2>2 DEF Inv, SegmentInv
  <2> QED
    BY <2>3 DEF Inv, LockHeld
<1> QED
  BY <1>1, Invariance, PTL

-----------------------------------------------------------------------------
(* What a step may do to the data *)

\* An operation that does not delete leaves every key in the map it works on, and leaves
\* the other maps alone.
LEMMA WorkKeeps ==
  ASSUME Inv, Inv', NEW p \in Process, Work(p), NEW s \in Server, map[s] # Nothing,
         NEW k \in Key, map[s][k] # Missing
  PROVE  /\ map'[s] # Nothing
         /\ map'[s][k] # Missing \/ DeletesKey(k)
<1> DEFINE t == task[p]
<1>0. TypeOK /\ Working /\ DataInv /\ TypeOK'
  BY DEF Inv
<1>1. /\ t.at = "working" /\ t.key \in Key /\ seg[p] \in Server
      /\ t.op \in {"get", "insert", "update", "delete"}
      /\ t.op \in {"insert", "update"} => t.val \in Value
      /\ task' = [task EXCEPT ![p].at = "unlocking"]
  BY <1>0 DEF Work, Step, TypeOK, Working, DataInv, Idle, Tasks
<1>2. CASE UNCHANGED map
  BY <1>2
<1>3. CASE /\ Changes(t) /\ map[seg[p]] # Nothing
           /\ map' = [map EXCEPT ![seg[p]][t.key] = IF t.op = "delete" THEN Missing ELSE t.val]
  <2>1. CASE s # seg[p]
    BY <1>0, <1>1, <1>3, <2>1 DEF TypeOK
  <2>2. CASE s = seg[p]
    <3>1. map'[s] = [map[s] EXCEPT ![t.key] = IF t.op = "delete" THEN Missing ELSE t.val]
      BY <1>0, <1>1, <1>3, <2>2 DEF TypeOK
    <3>2. map[s] \in [Key -> Value \cup {Missing}]
      BY <1>0 DEF TypeOK
    <3>3. t.op = "delete" \/ t.val \in Value
      BY <1>1, <1>3 DEF Changes
    <3>4. map'[s] \in [Key -> Value \cup {Missing}]
      BY <3>1, <3>2, <3>3
    <3>5. map'[s][k] = Missing => t.op = "delete" /\ t.key = k
      BY <3>1, <3>2, <3>3, <1>1, StoreAssumption
    <3>6. task'[p].at = "unlocking"
      BY <1>0, <1>1 DEF TypeOK, Tasks
    <3> QED
      BY <3>4, <3>5, <3>6, <1>1, Facts DEF DeletesKey
  <2> QED
    BY <2>1, <2>2
<1> QED
  BY <1>2, <1>3 DEF Work

\* In persistent mode a key leaves the file by a delete, or because a server that is
\* shut down destroys the map: no crash of a server or a client, at any point of an
\* operation or of a shutdown, and no restart loses it, for every number of incarnations
\* and clients, even when a server is started while its predecessor cleans up
\* (createPersistentStorage, constructor and destructor of KvStore).
THEOREM DataSurvive == Spec => DataSurvivesCrashes
<1>1. Inv /\ Inv' /\ [Next]_vars =>
        [Persistent => \A k \in Stored \ Stored' :
           DeletesKey(k) \/ \E s \in Server : stage[s] = "closing" /\ stage'[s] = "unlinking"]_vars
  <2> SUFFICES ASSUME Inv, Inv', [Next]_vars, Persistent, NEW k \in Stored, k \notin Stored',
                      ~\E s \in Server : stage[s] = "closing" /\ stage'[s] = "unlinking"
               PROVE  DeletesKey(k)
    OBVIOUS
  <2>0. /\ TypeOK /\ DataInv
        /\ name \in Server /\ map[name] # Nothing /\ k \in Key /\ map[name][k] # Missing
    BY DEF Inv, TypeOK, Stored
  <2>1. CASE UNCHANGED <<name, map>>
    BY <2>1 DEF Stored
  <2>2. ASSUME NEW s \in Server, CreateStorage(s) PROVE FALSE
    BY <2>0, <2>2 DEF CreateStorage, FindsMap, Stored
  <2>3. ASSUME NEW s \in Server, ConstructMap(s) PROVE FALSE
    <3>1. map[s] = Nothing
      BY <2>0, <2>3 DEF ConstructMap, DataInv
    <3>2. name' = name /\ map'[name] = map[name]
      BY <2>0, <2>3, <3>1 DEF ConstructMap, TypeOK
    <3> QED
      BY <2>0, <3>2 DEF Stored
  <2>4. ASSUME NEW s \in Server, DestroyMap(s) PROVE FALSE
    BY <2>0, <2>4 DEF DestroyMap, TypeOK
  <2>5. ASSUME NEW p \in Process, Work(p) PROVE DeletesKey(k)
    <3>1. name' = name
      BY <2>5 DEF Work
    <3> QED
      BY <2>0, <2>5, <3>1, WorkKeeps DEF Stored
  <2> QED
    BY <2>1, <2>2, <2>3, <2>4, <2>5
       DEF Next, ServerLife, Operation, CreateMutex, Close, RemoveMutex, Attach, Detach, Begin,
           Lock, Find, Unlock, Crash, vars
<1> QED
  BY <1>1, Invariance, PTL DEF Spec, DataSurvivesCrashes

-----------------------------------------------------------------------------
(* Refinement *)

\* content and call of KeyValueMap, as the INSTANCE maps them.
Content == IF Undisturbed /\ name # Nothing /\ map[name] # Nothing THEN map[name] ELSE Empty
Calls == [p \in Process |-> MappedCall(IF Undisturbed THEN task[p] ELSE Resting(Missing))]

\* Initial states map to initial states.
LEMMA MapInit == Init => Map!Init
BY DEF Init, Map!Init, Map!Resting, MappedCall, Resting, Idle, Empty

\* The environment is chosen once.
LEMMA EnvStays == [Next]_vars => UNCHANGED env
BY DEF Next, ServerLife, Operation, CreateStorage, ConstructMap, CreateMutex, Close,
       DestroyMap, RemoveMutex, Attach, Detach, Begin, Lock, Find, Work, Unlock, Crash, vars

\* The abstract call of an operation, by where the operation is.
LEMMA MappedFacts ==
  ASSUME NEW t \in Tasks
  PROVE  /\ t.at = "resting" => MappedCall(t) = [stage |-> "resting", result |-> t.result]
         /\ t.at \in {"locking", "finding", "working"} =>
              MappedCall(t) = [stage |-> "called", op |-> t.op, key |-> t.key, val |-> t.val]
         /\ t.at = "unlocking" => MappedCall(t) = [stage |-> "done", result |-> Result(t)]
BY DEF MappedCall, Tasks

\* When one task changes, so does its call.
LEMMA CallsStep ==
  ASSUME TypeOK, TypeOK', Undisturbed, Undisturbed', NEW p \in Process,
         \A q \in Process \ {p} : task'[q] = task[q]
  PROVE  /\ Calls[p] = MappedCall(task[p])
         /\ Calls' = [Calls EXCEPT ![p] = MappedCall(task'[p])]
BY DEF Calls

\* Every step is one of the abstract map, or none: an operation takes effect when it
\* writes.
LEMMA MapNext == Inv /\ [Next]_vars => [Map!Next]_<<Content, Calls>>
<1> SUFFICES ASSUME Inv, [Next]_vars PROVE [Map!Next]_<<Content, Calls>>
  OBVIOUS
<1>env. env' = env
  BY EnvStays
<1>0. CASE ~Undisturbed
  <2>1. ~Undisturbed'
    BY <1>0, <1>env DEF Undisturbed
  <2> QED
    BY <1>0, <2>1 DEF Content, Calls, Empty, MappedCall, Resting
<1>1. CASE Undisturbed
  <2> USE <1>1, <1>env DEF Content, Calls
  <2>und. Undisturbed' /\ env.mayCrash = {} /\ env.mayClose = {} /\ ~env.hasty
    BY DEF Undisturbed
  <2>type. TypeOK /\ TypeOK' /\ Working /\ StorageInv
    BY TypeStep DEF Inv
  <2>calls. \A p \in Process : Calls[p] = MappedCall(task[p]) /\ Calls'[p] = MappedCall(task'[p])
    BY <2>und
  <2>off. \A s \in Server : /\ stage[s] \in {"off", "created", "stored", "ready"}
                            /\ stage[s] \in {"off", "created"} => map[s] = Nothing
    BY DEF Inv, MapInv
  <2>1. CASE UNCHANGED <<task, name, map>>
    BY <2>1, <2>und
  <2>2. ASSUME NEW s \in Server, CreateStorage(s) PROVE UNCHANGED <<Content, Calls>>
    <3>1. \A t \in Server : stage[t] = "off"
      BY <2>2, <2>und, <2>off DEF CreateStorage, MayStart
    <3>2. name = Nothing
      BY <3>1 DEF Inv, MapInv
    <3>3. name' = s /\ map' = map /\ task' = task
      BY <2>2, <3>2 DEF CreateStorage, FindsMap
    <3> QED
      BY <2>und, <2>off, <3>1, <3>2, <3>3
  <2>3. ASSUME NEW s \in Server, ConstructMap(s) PROVE UNCHANGED <<Content, Calls>>
    <3>1. name = s /\ map[s] = Nothing
      BY <2>3, <2>und, <2>type, <2>off DEF ConstructMap, StorageInv
    <3>2. name' = s /\ map'[s] = Empty /\ task' = task
      BY <2>3, <2>type, <3>1 DEF ConstructMap, TypeOK
    <3> QED
      BY <2>und, <3>1, <3>2
  <2>4. ASSUME NEW p \in Process, NEW op \in {"get", "insert", "update", "delete"}, NEW k \in Key,
               NEW v \in Value \cup {Missing}, Begin(p, op, k, v),
               op \in {"get", "delete"} => v = Missing, op \in {"insert", "update"} => v \in Value
        PROVE  Map!Next
    <3>1. Calls[p].stage = "resting"
      BY <2>4, <2>calls DEF Begin, MappedCall, Idle
    <3>2. Calls' = [Calls EXCEPT ![p] =
                      [stage |-> "called", op |-> op, key |-> k, val |-> v]]
      <4>1. task' = [task EXCEPT ![p] = [at |-> "locking", op |-> op, key |-> k, val |-> v,
                                         mutex |-> mutexName, found |-> Missing]]
        BY <2>4 DEF Begin
      <4>2. /\ task'[p] = [at |-> "locking", op |-> op, key |-> k, val |-> v,
                           mutex |-> mutexName, found |-> Missing]
            /\ \A q \in Process \ {p} : task'[q] = task[q]
        BY <4>1, <2>type DEF TypeOK
      <4>3. MappedCall(task'[p]) = [stage |-> "called", op |-> op, key |-> k, val |-> v]
        BY <4>2 DEF MappedCall
      <4> QED
        BY <4>2, <4>3, <2>type, <2>und, CallsStep
    <3>3. Content' = Content
      BY <2>4, <2>und DEF Begin
    <3>4. Map!Call(p, op, k, v)
      BY <3>1, <3>2, <3>3 DEF Map!Call, Map!Called
    <3> QED
      BY <2>4, <3>4 DEF Map!Next
  <2>5. ASSUME NEW p \in Process, Lock(p) \/ Find(p) PROVE UNCHANGED <<Content, Calls>>
    <3>1. \A q \in Process : MappedCall(task'[q]) = MappedCall(task[q])
      BY <2>5, <2>type DEF Lock, Find, Step, MappedCall, TypeOK, Tasks
    <3> QED
      BY <2>5, <2>und, <3>1 DEF Lock, Find
  <2>6. ASSUME NEW p \in Process, Work(p) PROVE Map!Next
    <3> DEFINE t == task[p]
    <3>1. /\ t.at = "working" /\ t.key \in Key /\ t.val \in Value \cup {Missing}
          /\ t.op \in {"get", "insert", "update", "delete"}
          /\ task' = [task EXCEPT ![p].at = "unlocking"] /\ name' = name
      BY <2>6, <2>type DEF Work, Step, TypeOK, Tasks
    <3>2. PICK s \in Server : stage[s] = "ready" /\ seg[p] = seg[s]
      BY <3>1, <2>type DEF Inv, MapInv, Working, Idle
    <3>3. /\ name = seg[p] /\ name \in Server /\ map[name] # Nothing
          /\ map[name] \in [Key -> Value \cup {Missing}] /\ t.found = map[name][t.key]
      BY <3>1, <3>2, <2>und, <2>type DEF Inv, MapInv, StorageInv, TypeOK, Working
    <3>4. Content = map[name] /\ name # Nothing
      BY <3>3, Facts
    <3>5. /\ Calls[p] = [stage |-> "called", op |-> t.op, key |-> t.key, val |-> t.val]
          /\ Calls' = [Calls EXCEPT ![p] = [stage |-> "done", result |-> Result(t)]]
      <4> HIDE DEF Calls, Content
      <4>1. t \in Tasks /\ task'[p] \in Tasks
        BY <2>type DEF TypeOK
      <4>2. /\ task'[p] = [t EXCEPT !.at = "unlocking"]
            /\ \A q \in Process \ {p} : task'[q] = task[q]
        BY <3>1, <2>type DEF TypeOK
      <4>3. task'[p].at = "unlocking" /\ Result(task'[p]) = Result(t)
        BY <4>1, <4>2, <3>1 DEF Tasks, Result
      <4> QED
        BY <4>1, <4>2, <4>3, <3>1, <2>type, <2>und, CallsStep, MappedFacts
    <3>6. \/ Content' = Map!After(Content, t.op, t.key, t.val)
          \/ t.op \in {"insert", "update"} /\ Content' = Content
      <4>1. CASE UNCHANGED map /\ (~Changes(t) \/ t.op # "delete" \/ map[seg[p]] = Nothing)
        <5>1. Content' = Content
          BY <4>1, <3>1, <2>und
        <5>2. CASE t.op \in {"insert", "update"}
          BY <5>1, <5>2
        <5>3. CASE t.op = "get"
          BY <5>1, <5>3 DEF Map!After
        <5>4. CASE t.op = "delete"
          <6>1. map[name][t.key] = Missing
            BY <4>1, <5>4, <3>3 DEF Changes
          <6>2. [Content EXCEPT ![t.key] = Missing] = Content
            BY <6>1, <3>1, <3>3, <3>4
          <6> QED
            BY <5>1, <5>4, <6>2 DEF Map!After
        <5> QED
          BY <3>1, <5>2, <5>3, <5>4
      <4>2. CASE /\ Changes(t)
                 /\ map' = [map EXCEPT ![seg[p]][t.key] = IF t.op = "delete" THEN Missing ELSE t.val]
        <5>1. map'[name] = [map[name] EXCEPT ![t.key] = IF t.op = "delete" THEN Missing ELSE t.val]
          BY <4>2, <3>3, <2>type DEF TypeOK
        <5>2. map'[name] # Nothing
          BY <5>1, <3>1, <3>3, Facts
        <5>3. Content' = [Content EXCEPT ![t.key] = IF t.op = "delete" THEN Missing ELSE t.val]
          BY <5>1, <5>2, <3>1, <3>4, <2>und
        <5>4. \/ t.op = "insert" /\ Content[t.key] = Missing
              \/ t.op = "update" /\ Content[t.key] # Missing
              \/ t.op = "delete"
          BY <4>2, <3>3, <3>4 DEF Changes
        <5> QED
          BY <5>3, <5>4 DEF Map!After
      <4> QED
        BY <2>6, <4>1, <4>2 DEF Work
    <3>7. Result(t) = IF t.op = "get" THEN Content[t.key] ELSE Missing
      BY <3>3, <3>4 DEF Result
    <3>8. Map!TakeEffect(p)
      <4> HIDE DEF Calls, Content
      <4>1. Calls[p].stage = "called" /\ Calls[p].op = t.op /\ Calls[p].key = t.key /\ Calls[p].val = t.val
        BY <3>5
      <4>2. \/ Content' = Map!After(Content, Calls[p].op, Calls[p].key, Calls[p].val)
            \/ TRUE /\ Calls[p].op \in {"insert", "update"} /\ Content' = Content
        BY <4>1, <3>6
      <4>3. Calls' = [Calls EXCEPT ![p] =
              [stage |-> "done",
               result |-> IF Calls[p].op = "get" THEN Content[Calls[p].key] ELSE Missing]]
        BY <4>1, <3>5, <3>7
      <4> QED
        BY <4>1, <4>2, <4>3, Zenon DEF Map!TakeEffect, Calls, Content
    <3> QED
      BY <3>8 DEF Map!Next
  <2>7. ASSUME NEW p \in Process, Unlock(p) PROVE Map!Next
    <3>1. /\ Calls[p] = [stage |-> "done", result |-> Result(task[p])]
          /\ Calls' = [Calls EXCEPT ![p] = [stage |-> "resting", result |-> Result(task[p])]]
      <4>1. task[p] \in Tasks /\ task[p].at = "unlocking"
        BY <2>7, <2>type DEF Unlock, TypeOK
      <4>2. /\ task'[p] = Resting(Result(task[p]))
            /\ \A q \in Process \ {p} : task'[q] = task[q]
        BY <2>7, <2>type DEF Unlock, TypeOK
      <4>3. MappedCall(task'[p]) = [stage |-> "resting", result |-> Result(task[p])]
        BY <4>2 DEF MappedCall, Resting
      <4> QED
        BY <4>1, <4>2, <4>3, <2>type, <2>und, CallsStep, MappedFacts
    <3>2. Content' = Content
      BY <2>7, <2>und DEF Unlock
    <3>3. Map!Return(p)
      <4> HIDE DEF Calls, Content
      <4>1. Calls[p].stage = "done"
        BY <3>1
      <4>2. Calls' = [Calls EXCEPT ![p] = [stage |-> "resting", result |-> Calls[p].result]]
        BY <3>1
      <4> QED
        BY <4>1, <4>2, <3>2, Zenon DEF Map!Return, Map!Resting, Calls, Content
    <3> QED
      BY <3>3 DEF Map!Next
  <2>8. ASSUME NEW p \in Process,
               Crash(p) \/ (p \in Server /\ (Close(p) \/ DestroyMap(p) \/ RemoveMutex(p)))
        PROVE  FALSE
    BY <2>8, <2>und, <2>off DEF Crash, Close, DestroyMap, RemoveMutex
  <2> HIDE DEF Content, Calls
  <2>9. ASSUME NEW p \in Process, Operation(p) PROVE [Map!Next]_<<Content, Calls>>
    <3>1. env.values \subseteq Value
      BY <2>type, Facts DEF TypeOK, Environment
    <3> QED
      BY <2>9, <2>4, <2>5, <2>6, <2>7, <3>1 DEF Operation
  <2> QED
    BY <2>1, <2>2, <2>3, <2>5, <2>8, <2>9
       DEF Next, ServerLife, CreateMutex, Attach, Detach, vars
<1> QED
  BY <1>0, <1>1

\* The storage of a server that stays, with any number of clients that come and go once
\* it is ready, is an atomic map (Insert, Update, Delete, Find).
THEOREM MapImplemented == Spec => ImplementsMap
<1>1. Init => Map!Init
  BY MapInit
<1>2. Inv /\ [Next]_vars => [Map!Next]_<<Content, Calls>>
  BY MapNext
<1> QED
  BY <1>1, <1>2, Invariance, PTL DEF Spec, ImplementsMap, Map!Spec, Content, Calls
=============================================================================
