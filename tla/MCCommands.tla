----------------------------- MODULE MCCommands -----------------------------
(* Instances of Commands for TLC: every line up to a length, with a letter *)
(* that no operation has, quotes and spaces.                               *)
EXTENDS Commands
=============================================================================
