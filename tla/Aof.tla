-------------------------------- MODULE Aof ---------------------------------
(***************************************************************************)
(* The lines of an append-only file, and what a replay of them leaves.     *)
(*                                                                         *)
(* A line is "put <key> <value>" or "del <key>" (Log::appendCommand,       *)
(* Log::compactLog).  Keys and values are tokens as tokenize returns them: *)
(* a quoted token of several words keeps its quotes, so its line reads     *)
(* back as it was written, while "" is the empty token, and a line that    *)
(* holds one has too few tokens for parseCommand when it is read back.     *)
(***************************************************************************)
EXTENDS Integers, Sequences, FiniteSets

CONSTANTS Key,      \* the keys clients use
          Value,    \* the values clients store
          Empty,    \* the token that "" leaves
          NoValue   \* what a key that is not in the store maps to

ASSUME KeyAssumption == IsFiniteSet(Key)
ASSUME NoValueAssumption == NoValue \notin Value /\ NoValue # Empty

(* A del line carries NoValue: replaying it leaves the key without one.    *)
Line == [key : Key, val : Value \cup {NoValue}]

PutLine(k, v) == [key |-> k, val |-> v]
DelLine(k)    == [key |-> k, val |-> NoValue]

Readable(l) == l.key # Empty /\ l.val # Empty

Touches(l, k) == Readable(l) /\ l.key = k

(* v is what key k holds after log has been replayed on a store in which   *)
(* it held base.                                                           *)
Leaves(base, log, k, v) ==
  \/ /\ v = base
     /\ \A i \in 1..Len(log) : ~Touches(log[i], k)
  \/ \E i \in 1..Len(log) :
       /\ Touches(log[i], k)
       /\ log[i].val = v
       /\ \A j \in 1..Len(log) : j > i => ~Touches(log[j], k)

Recovers(log, k, v) == Leaves(NoValue, log, k, v)
=============================================================================
