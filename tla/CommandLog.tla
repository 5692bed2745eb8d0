----------------------------- MODULE CommandLog -----------------------------
(***************************************************************************)
(* What an append-only command log promises to the DB that owns it, with   *)
(* no thread, no buffer swap and no mutex: commands are accepted in some   *)
(* order and reach the file in that order, in batches of any size; the     *)
(* file is never rewritten; a command that is still pending when the log   *)
(* has been closed may be thrown away, and no other command may.           *)
(* Module Log shows that the code's buffer and flusher thread do this.     *)
(***************************************************************************)
EXTENDS Integers, Sequences

CONSTANT Command    \* the lines that can be appended

VARIABLES written,  \* the lines in the .aof file, oldest first
          pending,  \* the lines accepted and not yet in the file
          open      \* is the log open?

vars == <<written, pending, open>>

Init ==
  /\ written = <<>>
  /\ pending = <<>>
  /\ open = TRUE

(* A line is accepted.  A caller that found the log open may be overtaken  *)
(* by a close, so a line can still be accepted after it.                   *)
Accept(c) ==
  /\ pending' = Append(pending, c)
  /\ UNCHANGED <<written, open>>

(* The oldest n pending lines reach the file together.                     *)
Write(n) ==
  /\ open
  /\ written' = written \o SubSeq(pending, 1, n)
  /\ pending' = SubSeq(pending, n + 1, Len(pending))
  /\ UNCHANGED open

WriteSome == \E n \in 1..Len(pending) : Write(n)

Close ==
  /\ open
  /\ open' = FALSE
  /\ UNCHANGED <<written, pending>>

Discard ==
  /\ ~open
  /\ pending # <<>>
  /\ pending' = <<>>
  /\ UNCHANGED <<written, open>>

Next ==
  \/ \E c \in Command : Accept(c)
  \/ WriteSome
  \/ Close
  \/ Discard

Spec == Init /\ [][Next]_vars

(* While the log stays open, pending lines keep moving to the file.        *)
FairSpec == Spec /\ WF_vars(WriteSome)
=============================================================================
