----------------------------- MODULE DurableMap -----------------------------
(***************************************************************************)
(* What a keyspace promises to its clients about its data, with no file,   *)
(* no buffer, no flusher and no compaction: a map that is there while the  *)
(* server is up, and that comes back after any stop with, for each key,    *)
(* one of its candidates.  A key gains candidates by the changes that are  *)
(* asked for, and loses some when the map has been saved, never the value  *)
(* it has.  ("May potentially lose data", docs.md, says no more.)          *)
(* Keyspace and Disk show that log, flusher, closeLog and compactLog       *)
(* do this, through crashes and through power failures.                    *)
(***************************************************************************)
CONSTANTS Key, Value,
          NoValue,   \* what a key that is not in the map has
          Fragile    \* the pairs of a key and a value that a file can drop

VARIABLES status,     \* "up" or "down"
          map,        \* what clients read, all NoValue while it is down
          candidates  \* what each key may have when the map comes back

vars == <<status, map, candidates>>

Nothing == [k \in Key |-> NoValue]

Init ==
  /\ status = "down"
  /\ map = Nothing
  /\ candidates = [k \in Key |-> {NoValue}]

(* The map is back; what a key has is one of its candidates.               *)
Start ==
  /\ status = "down"
  /\ status' = "up"
  /\ map' \in [Key -> Value \cup {NoValue}]
  /\ candidates' \in [Key -> SUBSET (Value \cup {NoValue})]
  /\ \A k \in Key : /\ map'[k] \in candidates'[k]
                    /\ candidates'[k] \subseteq candidates[k]

(* One key changes, no other does, and what it had may still come back.    *)
Change(k, v) ==
  /\ status = "up"
  /\ map' = [map EXCEPT ![k] = v]
  /\ candidates' = [candidates EXCEPT ![k] = @ \cup {v}]
  /\ UNCHANGED status

(* Changes are accepted that will be made one by one.                      *)
Accept ==
  /\ status = "up"
  /\ candidates' \in [Key -> SUBSET (Value \cup {NoValue})]
  /\ \A k \in Key : candidates[k] \subseteq candidates'[k]
  /\ UNCHANGED <<status, map>>

(* Saved: candidates go, the value of the map stays one.  A file drops a   *)
(* fragile value, so its key may be found without one.                     *)
Settle ==
  /\ status = "up"
  /\ candidates' \in [Key -> SUBSET (Value \cup {NoValue})]
  /\ \A k \in Key :
       /\ map[k] \in candidates'[k]
       /\ candidates'[k] \subseteq
            candidates[k] \cup (IF <<k, map[k]>> \in Fragile THEN {NoValue} ELSE {})
  /\ UNCHANGED <<status, map>>

(* All keys go at once, now; what was on its way may still come back.      *)
Clear ==
  /\ status = "up"
  /\ map' = Nothing
  /\ candidates' \in [Key -> SUBSET (Value \cup {NoValue})]
  /\ \A k \in Key : candidates'[k] \in {{NoValue}, candidates[k] \cup {NoValue}}
  /\ UNCHANGED status

(* The server is shut down, is killed or loses its power.                  *)
Stop ==
  /\ status = "up"
  /\ status' = "down"
  /\ map' = Nothing
  /\ UNCHANGED candidates

Next ==
  \/ Start
  \/ \E k \in Key, v \in Value \cup {NoValue} : Change(k, v)
  \/ Accept
  \/ Settle
  \/ Clear
  \/ Stop

Spec == Init /\ [][Next]_vars
=============================================================================
