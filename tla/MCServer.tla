------------------------------ MODULE MCServer ------------------------------
(* Instances of Server for TLC.  In most of them no keyspace has the path  *)
(* of another one's temporary file; in the last, n2 stands for n1_temp.    *)
EXTENDS Server

CONSTANTS n1, n2

Apart     == [n \in Name |-> NoName]
Colliding == [n \in Name |-> IF n = n1 THEN n2 ELSE NoName]

(* Keys, values, objects and client threads are only compared, and names   *)
(* too, where their temporary files are apart.                             *)
Symmetry == UNION {Permutations(S) : S \in {Key, Value, Obj, Thread}}
NameSymmetry == Symmetry \cup Permutations(Name)
=============================================================================
