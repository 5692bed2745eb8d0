------------------------------- MODULE MCLog --------------------------------
(* Instances of Log for TLC.  Two lines that differ and three appends let  *)
(* a line be in the file, one with the flusher and one in the buffer.      *)
EXTENDS Log
=============================================================================
