----------------------------- MODULE MCSnapshot -----------------------------
(* Tables of 11 to 11 + 2 * (16 + 54) + 3 bytes: below and above           *)
(* Threshold, MaxInput, Wrap / 2 and Wrap, and just at each of them.       *)
EXTENDS Snapshot

Keys   == {"a", "bb"}
Values == {"", "4", "18", "54"}
Sizes  == [s \in Keys \cup Values |->
             CASE s = "a" -> 1 [] s = "bb" -> 2 [] s = "" -> 0
               [] s = "4" -> 4 [] s = "18" -> 18 [] s = "54" -> 54]
=============================================================================
