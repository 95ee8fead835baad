----------------------------- MODULE KeyValueMap -----------------------------
(***************************************************************************)
(* What a store promises its clients: every operation takes effect at one  *)
(* moment between its call and its return, on one map.  An insert of a     *)
(* key that is there and an update or delete of one that is not change     *)
(* nothing, nor does a write that is refused because the store is full; a  *)
(* get returns what the map holds at that moment.                          *)
(*                                                                         *)
(* KvStore.tla and KVDistributor.tla are shown to implement it.            *)
(***************************************************************************)
CONSTANTS
  Client,
  Key,
  Value,
  MayBeFull, \* whether a write may be refused
  Missing    \* in place of a value: the key is not in the map

VARIABLES
  content,  \* content[k]: the value of k, or Missing
  call      \* call[c]: the operation c has called, or what its last one returned

Resting(result) == [stage |-> "resting", result |-> result]

Called(op, k, v) == [stage |-> "called", op |-> op, key |-> k, val |-> v]

Init ==
  /\ content = [k \in Key |-> Missing]
  /\ call = [c \in Client |-> Resting(Missing)]

Call(c, op, k, v) ==
  /\ call[c].stage = "resting"
  /\ call' = [call EXCEPT ![c] = Called(op, k, v)]
  /\ UNCHANGED content

\* The map after an operation.
After(map, op, k, v) ==
  CASE op = "insert" /\ map[k] = Missing -> [map EXCEPT ![k] = v]
    [] op = "update" /\ map[k] # Missing -> [map EXCEPT ![k] = v]
    [] op = "delete" -> [map EXCEPT ![k] = Missing]
    [] OTHER -> map

\* The operation takes effect, and what it will return is settled.
TakeEffect(c) ==
  /\ call[c].stage = "called"
  /\ \/ content' = After(content, call[c].op, call[c].key, call[c].val)
     \/ MayBeFull /\ call[c].op \in {"insert", "update"} /\ UNCHANGED content
  /\ call' = [call EXCEPT ![c] =
       [stage |-> "done",
        result |-> IF call[c].op = "get" THEN content[call[c].key] ELSE Missing]]

Return(c) ==
  /\ call[c].stage = "done"
  /\ call' = [call EXCEPT ![c] = Resting(call[c].result)]
  /\ UNCHANGED content

Next ==
  \E c \in Client :
    \/ TakeEffect(c) \/ Return(c)
    \/ \E k \in Key : \/ Call(c, "get", k, Missing) \/ Call(c, "delete", k, Missing)
                      \/ \E op \in {"insert", "update"}, v \in Value : Call(c, op, k, v)

Spec == Init /\ [][Next]_<<content, call>>

=============================================================================
