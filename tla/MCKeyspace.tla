----------------------------- MODULE MCKeyspace -----------------------------
(* Instances of Keyspace for TLC.  Keys are only compared, and so are      *)
(* values: all of them are interchangeable but the empty token.            *)
EXTENDS Keyspace

KeySymmetry   == Permutations(Key \ {Empty})
ValueSymmetry == Permutations(Value \ {Empty})
=============================================================================
