------------------------------- MODULE KVStore -------------------------------
(***************************************************************************)
(* What the B-tree promises to its callers: a map.  Between its call and   *)
(* its return every operation takes effect once, at one instant.           *)
(***************************************************************************)
CONSTANTS
  Thread, Key, Value,
  Absent,   \* of a key that has no value
  Calls     \* the calls that are made: [op, key, val]

VARIABLES dict, call
vars == <<dict, call>>

Idle == [op |-> "none"]

Init == /\ dict \in [Key -> Value \cup {Absent}]
        /\ call = [t \in Thread |-> Idle]

Call(t) ==
  /\ "res" \in DOMAIN call[t] \/ call[t] = Idle
  /\ \E c \in Calls : call' = [call EXCEPT ![t] = c]
  /\ UNCHANGED dict

\* the caller has taken the result
Leave(t) == /\ "res" \in DOMAIN call[t]
            /\ call' = [call EXCEPT ![t] = Idle]
            /\ UNCHANGED dict

Return(t, res) == call' = [call EXCEPT ![t] = [op |-> @.op, key |-> @.key, res |-> res]]

Pending(t, op) == call[t].op = op /\ "val" \in DOMAIN call[t]

Insert(t) == /\ Pending(t, "insert")
             /\ dict' = [dict EXCEPT ![call[t].key] = call[t].val]
             /\ Return(t, "ok")

Remove(t) == /\ Pending(t, "remove")
             /\ dict' = [dict EXCEPT ![call[t].key] = Absent]
             /\ Return(t, dict[call[t].key] # Absent)

\* the callback of lookupAndUpdate stores val
Update(t) == /\ Pending(t, "update")
             /\ dict' = IF dict[call[t].key] = Absent THEN dict
                        ELSE [dict EXCEPT ![call[t].key] = call[t].val]
             /\ Return(t, dict[call[t].key] # Absent)

Lookup(t) == /\ \E op \in {"lookup", "lookup_opt"} : Pending(t, op)
             /\ Return(t, dict[call[t].key])
             /\ UNCHANGED dict

Next == \E t \in Thread :
          \/ Call(t) \/ Leave(t) \/ Insert(t) \/ Remove(t) \/ Update(t) \/ Lookup(t)

Spec == Init /\ [][Next]_vars
=============================================================================
