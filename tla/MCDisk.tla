------------------------------- MODULE MCDisk -------------------------------
(* Two tokens, the second a beginning of the first, or two unrelated ones. *)
EXTENDS Disk

Beginning == [t \in Key \cup Value |->
  CASE t = "k1" -> {"k"} \cap Key [] t = "v1" -> {"v"} \cap Value [] OTHER -> {}]
Unrelated == [t \in Key \cup Value |-> {}]
=============================================================================
