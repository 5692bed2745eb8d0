----------------------------- MODULE LogProofs ------------------------------
(***************************************************************************)
(* Proofs about Log for any set of client threads, any set of lines and    *)
(* any number of appends.  The invariant that is inductive adds to         *)
(* LinesInOrder what makes the moves of the buffers safe: the flusher      *)
(* holds lines only between its swap and its write, it has ended before    *)
(* any closeLog goes on from its join, and lines are only ever thrown away *)
(* when the file has been closed.                                          *)
(***************************************************************************)
EXTENDS Log, TLAPS, SequenceTheorems

FlusherHoldsBriefly == localBuffer # <<>> => flusher = "write"
JoinedIsDone        == ~joinable => flusher = "done"
CloserHasJoined     ==
  \A t \in Thread : pc[t] \in {"final", "syncing", "close"} => ~joinable
ClosedIsJoined      == ~isOpen => ~joinable
DroppedIsClosed     == dropped # <<>> => ~isOpen

FlusherInv ==
  /\ FlusherHoldsBriefly
  /\ JoinedIsDone
  /\ CloserHasJoined
  /\ ClosedIsJoined
  /\ DroppedIsClosed

IInv == TypeOK /\ FlusherInv /\ LinesInOrder
-----------------------------------------------------------------------------
(* The variables keep their types: in particular the buffers, the file and *)
(* the accepted lines hold nothing but lines that appendCommand was given. *)
THEOREM TypeCorrect == Spec => []TypeOK
<1>1. Init => TypeOK
  <2> SUFFICES ASSUME Init PROVE TypeOK
    OBVIOUS
  <2>1. <<>> \in Seq(Command)
    OBVIOUS
  <2>2. pc \in [Thread -> ThreadPC]
    BY DEF Init, ThreadPC
  <2>3. isOpen \in BOOLEAN /\ stopFlushThread \in BOOLEAN /\ joinable \in BOOLEAN
    BY DEF Init
  <2>4. synced \in Nat /\ flusher \in FlusherPC
    BY DEF Init, FlusherPC
  <2> QED
    BY <2>1, <2>2, <2>3, <2>4 DEF Init, TypeOK
<1>2. TypeOK /\ [Next]_vars => TypeOK'
  <2> SUFFICES ASSUME TypeOK, [Next]_vars PROVE TypeOK'
    OBVIOUS
  <2> USE DEF TypeOK, buffers, disk, control, Goto
  <2>1. CASE FlusherCheck  BY <2>1 DEF FlusherCheck, FlusherPC
  <2>2. CASE FlusherWait  BY <2>2 DEF FlusherWait, FlusherPC
  <2>3. CASE FlusherTimeout  BY <2>3 DEF FlusherTimeout, FlusherPC
  <2>4. CASE FlusherSwap  BY <2>4 DEF FlusherSwap, FlusherPC
  <2>5. CASE FlusherWrite  BY <2>5 DEF FlusherWrite, FlusherPC
  <2>6. CASE FlusherSync  BY <2>6 DEF FlusherSync, FlusherPC
  <2>7. ASSUME NEW t \in Thread, AppendPush(t) PROVE TypeOK'
    BY <2>7 DEF AppendPush, ThreadPC
  <2>8. ASSUME NEW t \in Thread, CloseNotify(t) PROVE TypeOK'
    BY <2>8 DEF CloseNotify, ThreadPC, FlusherPC
  <2>9. ASSUME NEW t \in Thread, CloseJoin(t) PROVE TypeOK'
    BY <2>9 DEF CloseJoin, ThreadPC
  <2>10. ASSUME NEW t \in Thread, CloseJoined(t) PROVE TypeOK'
    BY <2>10 DEF CloseJoined, ThreadPC
  <2>11. ASSUME NEW t \in Thread, CloseFlush(t) PROVE TypeOK'
    <3>0. /\ file \in Seq(Command) /\ dropped \in Seq(Command)
          /\ logBuffer \in Seq(Command) /\ pc \in [Thread -> ThreadPC]
      OBVIOUS
    <3> HIDE DEF TypeOK
    <3>1. file' \in Seq(Command) /\ dropped' \in Seq(Command)
      <4>1. \/ file' = file /\ dropped' = dropped
            \/ file' = file \o logBuffer /\ dropped' = dropped
            \/ file' = file /\ dropped' = dropped \o logBuffer
        BY <2>11, Zenon DEF CloseFlush
      <4> QED  BY <3>0, <4>1, ConcatProperties
    <3>2. logBuffer' = <<>> /\ <<>> \in Seq(Command)
      BY <2>11, EmptySeq DEF CloseFlush
    <3>3. pc' = [pc EXCEPT ![t] = "close"] \/ pc' = [pc EXCEPT ![t] = "syncing"]
      BY <2>11, Zenon DEF CloseFlush
    <3>4. pc' \in [Thread -> ThreadPC]
      BY <3>0, <3>3 DEF ThreadPC
    <3> QED  BY <2>11, <3>1, <3>2, <3>4 DEF CloseFlush, TypeOK
  <2>12. ASSUME NEW t \in Thread, CloseSync(t) PROVE TypeOK'
    BY <2>12 DEF CloseSync, ThreadPC
  <2>13. ASSUME NEW t \in Thread, CloseFile(t) PROVE TypeOK'
    BY <2>13 DEF CloseFile, ThreadPC
  <2>14. ASSUME NEW t \in Thread, CloseStop(t) PROVE TypeOK'
    BY <2>14 DEF CloseStop, ThreadPC
  <2>15. ASSUME NEW t \in Thread, NEW c \in Command, AppendCheck(t, c)
         PROVE TypeOK'
    BY <2>15 DEF AppendCheck, ThreadPC
  <2>16. CASE UNCHANGED vars  BY <2>16 DEF vars
  <2> QED
    BY <2>1, <2>2, <2>3, <2>4, <2>5, <2>6, <2>7, <2>8, <2>9, <2>10, <2>11,
       <2>12, <2>13, <2>14, <2>15, <2>16 DEF Next, Flush, Continue
<1> QED  BY <1>1, <1>2, PTL DEF Spec
-----------------------------------------------------------------------------
(* No step of the flusher, of appendCommand or of closeLog breaks the part *)
(* of the invariant that says where the flusher can be.                    *)
LEMMA FlusherInvStep ==
  ASSUME TypeOK, FlusherInv, [Next]_vars
  PROVE  FlusherInv'
<1> USE DEF FlusherInv, FlusherHoldsBriefly, JoinedIsDone, CloserHasJoined,
            ClosedIsJoined, DroppedIsClosed, buffers, disk, control, Goto
<1>0. pc \in [Thread -> ThreadPC]
  BY DEF TypeOK
<1>1. CASE FlusherCheck  BY <1>1 DEF FlusherCheck
<1>2. CASE FlusherWait  BY <1>2 DEF FlusherWait
<1>3. CASE FlusherTimeout  BY <1>3 DEF FlusherTimeout
<1>4. CASE FlusherSwap  BY <1>4 DEF FlusherSwap
<1>5. CASE FlusherWrite  BY <1>5 DEF FlusherWrite
<1>6. CASE FlusherSync  BY <1>6 DEF FlusherSync
<1>7. ASSUME NEW t \in Thread, AppendPush(t) PROVE FlusherInv'
  BY <1>0, <1>7 DEF AppendPush
<1>8. ASSUME NEW t \in Thread, CloseNotify(t) PROVE FlusherInv'
  BY <1>0, <1>8 DEF CloseNotify
<1>9. ASSUME NEW t \in Thread, CloseJoin(t) PROVE FlusherInv'
  BY <1>0, <1>9 DEF CloseJoin
<1>10. ASSUME NEW t \in Thread, CloseJoined(t) PROVE FlusherInv'
  BY <1>0, <1>10 DEF CloseJoined
<1>11. ASSUME NEW t \in Thread, CloseFlush(t) PROVE FlusherInv'
  BY <1>0, <1>11 DEF CloseFlush
<1>12. ASSUME NEW t \in Thread, CloseSync(t) PROVE FlusherInv'
  BY <1>0, <1>12 DEF CloseSync
<1>13. ASSUME NEW t \in Thread, CloseFile(t) PROVE FlusherInv'
  BY <1>0, <1>13 DEF CloseFile
<1>14. ASSUME NEW t \in Thread, CloseStop(t) PROVE FlusherInv'
  BY <1>0, <1>14 DEF CloseStop
<1>15. ASSUME NEW t \in Thread, NEW c \in Command, AppendCheck(t, c)
       PROVE FlusherInv'
  BY <1>0, <1>15 DEF AppendCheck
<1>16. CASE UNCHANGED vars  BY <1>16 DEF vars
<1> QED
  BY <1>1, <1>2, <1>3, <1>4, <1>5, <1>6, <1>7, <1>8, <1>9, <1>10, <1>11,
     <1>12, <1>13, <1>14, <1>15, <1>16 DEF Next, Flush, Continue

(* Appending to the last of two buffers appends to the lines of both.      *)
LEMMA AppendConcat ==
  \A r, s \in Seq(Command), c \in Command :
    Append(r \o s, c) = r \o Append(s, c)
OBVIOUS

(* Nor does any step lose, duplicate or reorder a line.                    *)
LEMMA LinesInOrderStep ==
  ASSUME TypeOK, FlusherInv, LinesInOrder, [Next]_vars
  PROVE  LinesInOrder'
<1> USE DEF LinesInOrder, buffers, disk, control, Goto
<1>0. /\ file \in Seq(Command) /\ localBuffer \in Seq(Command)
      /\ dropped \in Seq(Command) /\ logBuffer \in Seq(Command)
      /\ accepted \in Seq(Command) /\ arg \in [Thread -> Command]
  BY DEF TypeOK
<1>1. CASE FlusherSwap
  <2>1. localBuffer = <<>> /\ dropped = <<>>
    BY <1>1 DEF FlusherSwap, FlusherInv, FlusherHoldsBriefly, JoinedIsDone,
                ClosedIsJoined, DroppedIsClosed
  <2>2. /\ accepted' = accepted /\ file' = file /\ dropped' = dropped
        /\ localBuffer' = logBuffer /\ logBuffer' = <<>>
    BY <1>1 DEF FlusherSwap
  <2> QED  BY <1>0, <2>1, <2>2, ConcatEmptySeq, ConcatProperties
<1>2. CASE FlusherWrite
  <2>1. /\ accepted' = accepted /\ file' = file \o localBuffer
        /\ localBuffer' = <<>> /\ dropped' = dropped /\ logBuffer' = logBuffer
    BY <1>2 DEF FlusherWrite
  <2> QED  BY <1>0, <2>1, ConcatEmptySeq, ConcatProperties
<1>3. ASSUME NEW t \in Thread, AppendPush(t) PROVE LinesInOrder'
  <2>1. /\ accepted' = Append(accepted, arg[t])
        /\ logBuffer' = Append(logBuffer, arg[t])
        /\ file' = file /\ localBuffer' = localBuffer /\ dropped' = dropped
    BY <1>3 DEF AppendPush
  <2>2. arg[t] \in Command
    BY <1>0
  <2>3. file \o localBuffer \o dropped \in Seq(Command)
    BY <1>0, ConcatProperties
  <2>4. Append(file \o localBuffer \o dropped \o logBuffer, arg[t])
          = file \o localBuffer \o dropped \o Append(logBuffer, arg[t])
    BY <1>0, <2>2, <2>3, AppendConcat, Zenon
  <2> QED  BY <2>1, <2>4
<1>4. ASSUME NEW t \in Thread, CloseFlush(t) PROVE LinesInOrder'
  <2>1. localBuffer = <<>>
    BY <1>4 DEF CloseFlush, FlusherInv, FlusherHoldsBriefly, JoinedIsDone,
                CloserHasJoined
  <2>2. isOpen => dropped = <<>>
    BY DEF FlusherInv, DroppedIsClosed
  <2>3. localBuffer' = <<>> /\ accepted' = accepted /\ logBuffer' = <<>>
    BY <1>4, <2>1 DEF CloseFlush
  <2>4. \/ logBuffer = <<>> /\ file' = file /\ dropped' = dropped
        \/ isOpen /\ file' = file \o logBuffer /\ dropped' = dropped
        \/ file' = file /\ dropped' = dropped \o logBuffer
    BY <1>4, Zenon DEF CloseFlush
  <2>5. CASE logBuffer = <<>> /\ file' = file /\ dropped' = dropped
    BY <1>0, <2>1, <2>3, <2>5
  <2>6. CASE dropped = <<>> /\ file' = file \o logBuffer /\ dropped' = dropped
    BY <1>0, <2>1, <2>3, <2>6, ConcatEmptySeq, ConcatProperties
  <2>7. CASE file' = file /\ dropped' = dropped \o logBuffer
    BY <1>0, <2>1, <2>3, <2>7, ConcatEmptySeq, ConcatAssociative,
       ConcatProperties, SMTT(30)
  <2> QED  BY <2>2, <2>4, <2>5, <2>6, <2>7
<1>5. CASE UNCHANGED <<file, buffers>>
  BY <1>5
<1> QED
  BY <1>1, <1>2, <1>3, <1>4, <1>5
  DEF Next, Flush, Continue, vars, FlusherCheck, FlusherWait, FlusherTimeout,
      FlusherSync, CloseNotify, CloseJoin, CloseJoined, CloseSync, CloseFile,
      CloseStop, AppendCheck
-----------------------------------------------------------------------------
(* The three parts of the invariant hold together in every reachable state *)
(* of a Log, however its threads interleave.                               *)
THEOREM Invariance == Spec => []IInv
<1>1. Init => FlusherInv /\ LinesInOrder
  BY EmptySeq, ConcatEmptySeq
  DEF Init, FlusherInv, FlusherHoldsBriefly, JoinedIsDone, CloserHasJoined,
      ClosedIsJoined, DroppedIsClosed, LinesInOrder
<1>2. TypeOK /\ FlusherInv /\ LinesInOrder /\ [Next]_vars
        => FlusherInv' /\ LinesInOrder'
  BY FlusherInvStep, LinesInOrderStep
<1> QED  BY <1>1, <1>2, TypeCorrect, PTL DEF Spec, IInv

(* Between appendCommand and the .aof no line is lost, duplicated or       *)
(* overtaken, for any number of client threads and of lines.               *)
THEOREM LinesStayInOrder == Spec => []LinesInOrder
BY Invariance, PTL DEF IInv
-----------------------------------------------------------------------------
(* With a single client thread nothing is appended behind the final flush  *)
(* of closeLog or to a closed log, and what has been written is fsync'ed   *)
(* but for the moment between a write and its fsync.                       *)
NothingThrownAway == dropped = <<>>
FinalFlushIsLast  == \A t \in Thread : pc[t] \in {"syncing", "close"} => logBuffer = <<>>
WrittenIsSynced   ==
  flusher # "sync" /\ (\A t \in Thread : pc[t] # "syncing") => synced = Len(file)
ClosedIsEmpty     ==
  ~isOpen => /\ logBuffer = <<>>
             /\ \A t \in Thread : pc[t] # "push"
             /\ synced = Len(file)

AloneInv ==
  /\ NothingThrownAway
  /\ FinalFlushIsLast
  /\ WrittenIsSynced
  /\ ClosedIsEmpty

(* Every step of the one client thread and of the flusher keeps it.        *)
LEMMA AloneInvStep ==
  ASSUME \A t, u \in Thread : t = u, TypeOK, FlusherInv, AloneInv, [Next]_vars
  PROVE  AloneInv'
<1> USE DEF AloneInv, NothingThrownAway, FinalFlushIsLast, WrittenIsSynced,
            ClosedIsEmpty, buffers, disk, control, Goto
<1>0. /\ pc \in [Thread -> ThreadPC] /\ isOpen \in BOOLEAN /\ joinable \in BOOLEAN
      /\ ~isOpen => ~joinable
      /\ ~joinable => flusher = "done"
      /\ \A t \in Thread : pc[t] \in {"final", "syncing", "close"} => ~joinable
  BY DEF TypeOK, FlusherInv, ClosedIsJoined, JoinedIsDone, CloserHasJoined
<1>1. CASE FlusherCheck \/ FlusherWait \/ FlusherTimeout
  BY <1>1 DEF FlusherCheck, FlusherWait, FlusherTimeout
<1>2. CASE FlusherSwap  BY <1>0, <1>2 DEF FlusherSwap
<1>3. CASE FlusherWrite  BY <1>0, <1>3 DEF FlusherWrite
<1>4. CASE FlusherSync  BY <1>0, <1>4 DEF FlusherSync
<1>5. ASSUME NEW t \in Thread, AppendPush(t) PROVE AloneInv'
  BY <1>0, <1>5 DEF AppendPush
<1>6. ASSUME NEW t \in Thread, CloseNotify(t) PROVE AloneInv'
  BY <1>0, <1>6 DEF CloseNotify
<1>7. ASSUME NEW t \in Thread, CloseJoin(t) PROVE AloneInv'
  BY <1>0, <1>7 DEF CloseJoin
<1>8. ASSUME NEW t \in Thread, CloseJoined(t) PROVE AloneInv'
  BY <1>0, <1>8 DEF CloseJoined
<1>9. ASSUME NEW t \in Thread, CloseFlush(t) PROVE AloneInv'
  BY <1>0, <1>9 DEF CloseFlush
<1>10. ASSUME NEW t \in Thread, CloseSync(t) PROVE AloneInv'
  BY <1>0, <1>10 DEF CloseSync
<1>11. ASSUME NEW t \in Thread, CloseFile(t) PROVE AloneInv'
  BY <1>0, <1>11 DEF CloseFile
<1>12. ASSUME NEW t \in Thread, CloseStop(t) PROVE AloneInv'
  BY <1>0, <1>12 DEF CloseStop
<1>13. ASSUME NEW t \in Thread, NEW c \in Command, AppendCheck(t, c)
       PROVE AloneInv'
  BY <1>0, <1>13 DEF AppendCheck
<1>14. CASE UNCHANGED vars  BY <1>14 DEF vars
<1> QED
  BY <1>1, <1>2, <1>3, <1>4, <1>5, <1>6, <1>7, <1>8, <1>9, <1>10, <1>11,
     <1>12, <1>13, <1>14 DEF Next, Flush, Continue

(* When closeLog of a single client thread has closed the file, every line *)
(* that appendCommand accepted is in it and fsync'ed, however the flusher's*)
(* steps fall between those of appendCommand and closeLog.                 *)
THEOREM ClosedIsDurable ==
  ASSUME \A t, u \in Thread : t = u
  PROVE  Spec => []ClosedMeansDurable
<1>1. Init => AloneInv
  BY EmptySeq DEF Init, AloneInv, NothingThrownAway, FinalFlushIsLast,
                  WrittenIsSynced, ClosedIsEmpty
<1>2. IInv /\ AloneInv /\ [Next]_vars => AloneInv'
  BY AloneInvStep DEF IInv
<1>3. IInv /\ AloneInv => ClosedMeansDurable
  <2> SUFFICES ASSUME IInv, AloneInv, ~isOpen
               PROVE  file = accepted /\ synced = Len(accepted)
    BY DEF ClosedMeansDurable
  <2>1. localBuffer = <<>>
    BY DEF IInv, FlusherInv, ClosedIsJoined, JoinedIsDone, FlusherHoldsBriefly
  <2>2. dropped = <<>> /\ logBuffer = <<>> /\ synced = Len(file)
    BY DEF AloneInv, NothingThrownAway, ClosedIsEmpty
  <2>3. \A s \in Seq(Command) : s \o <<>> \o <<>> \o <<>> = s
    OBVIOUS
  <2>4. accepted = file
    BY <2>1, <2>2, <2>3 DEF IInv, LinesInOrder, TypeOK
  <2> QED  BY <2>2, <2>4
<1> QED  BY <1>1, <1>2, <1>3, Invariance, PTL DEF Spec
-----------------------------------------------------------------------------
(* The oldest lines of two buffers are those of the first.                 *)
LEMMA SplitConcat ==
  ASSUME NEW r \in Seq(Command), NEW s \in Seq(Command)
  PROVE  /\ SubSeq(r \o s, 1, Len(r)) = r
         /\ SubSeq(r \o s, Len(r) + 1, Len(r \o s)) = s
         /\ Len(r \o s) = Len(r) + Len(s)
OBVIOUS

(* What is pending is an open or closed buffer of lines.                   *)
LEMMA EmptyConcat ==
  ASSUME NEW s \in Seq(Command)
  PROVE  <<>> \o s = s /\ s \o <<>> = s /\ SubSeq(s, 1, Len(s)) = s
         /\ SubSeq(s, Len(s) + 1, Len(s)) = <<>>
BY ConcatEmptySeq, SubSeqFull, SubSeqEmpty

(* The class Log implements the abstract command log: each of its steps,   *)
(* of whichever thread, accepts a line, moves the oldest pending lines to  *)
(* the file, closes it, throws lines away after that, or changes nothing   *)
(* that CommandLog speaks about.                                           *)
THEOREM Refinement == Spec => Promise!Spec
<1>1. Init => Promise!Init
  BY DEF Init, Promise!Init
<1>2. IInv /\ [Next]_vars => [Promise!Next]_(Promise!vars)
  <2> SUFFICES ASSUME IInv, [Next]_vars
               PROVE  Promise!Next \/ UNCHANGED Promise!vars
    BY DEF Promise!vars
  <2> USE DEF buffers, disk, control, Goto
  <2>0. /\ file \in Seq(Command) /\ localBuffer \in Seq(Command)
        /\ logBuffer \in Seq(Command) /\ arg \in [Thread -> Command]
    BY DEF IInv, TypeOK
  <2>1. CASE FlusherSwap
    <3>1. localBuffer = <<>>
      BY <2>1 DEF FlusherSwap, IInv, FlusherInv, FlusherHoldsBriefly
    <3>2. localBuffer' \o logBuffer' = localBuffer \o logBuffer
      BY <2>0, <2>1, <3>1, EmptyConcat DEF FlusherSwap
    <3> QED  BY <2>1, <3>2 DEF FlusherSwap, Promise!vars
  <2>2. CASE FlusherWrite
    <3>1. isOpen
      BY <2>2 DEF FlusherWrite, IInv, FlusherInv, JoinedIsDone, ClosedIsJoined
    <3>2. /\ file' = file \o localBuffer /\ localBuffer' = <<>>
          /\ logBuffer' = logBuffer /\ isOpen' = isOpen
      BY <2>2 DEF FlusherWrite
    <3>3. CASE localBuffer = <<>>
      <4>1. file' = file /\ localBuffer' \o logBuffer' = localBuffer \o logBuffer
        BY <2>0, <3>2, <3>3, EmptyConcat
      <4> QED  BY <3>2, <4>1 DEF Promise!vars
    <3>4. CASE localBuffer # <<>>
      <4>1. Len(localBuffer) \in 1..Len(localBuffer \o logBuffer)
        BY <2>0, <3>4, SplitConcat
      <4>2. localBuffer' \o logBuffer' = logBuffer
        BY <2>0, <3>2, EmptyConcat
      <4>3. Promise!Write(Len(localBuffer))
        BY <2>0, <3>1, <3>2, <4>2, SplitConcat DEF Promise!Write
      <4> QED  BY <4>1, <4>3 DEF Promise!Next, Promise!WriteSome
    <3> QED  BY <3>3, <3>4
  <2>3. ASSUME NEW t \in Thread, AppendPush(t) PROVE Promise!Next
    <3>1. arg[t] \in Command
      BY <2>0
    <3>2. localBuffer' \o logBuffer' = Append(localBuffer \o logBuffer, arg[t])
      BY <2>0, <2>3, <3>1, AppendConcat DEF AppendPush
    <3>3. Promise!Accept(arg[t])
      BY <2>3, <3>2 DEF AppendPush, Promise!Accept
    <3> QED  BY <3>1, <3>3 DEF Promise!Next
  <2>4. ASSUME NEW t \in Thread, CloseFlush(t)
        PROVE  Promise!Next \/ UNCHANGED Promise!vars
    <3>1. localBuffer = <<>> /\ localBuffer' = <<>> /\ logBuffer' = <<>>
          /\ isOpen' = isOpen
      BY <2>4 DEF CloseFlush, IInv, FlusherInv, FlusherHoldsBriefly,
                  JoinedIsDone, CloserHasJoined
    <3>2. localBuffer \o logBuffer = logBuffer /\ localBuffer' \o logBuffer' = <<>>
      BY <2>0, <3>1, EmptyConcat
    <3>3. CASE logBuffer = <<>>
      BY <2>4, <3>1, <3>2, <3>3 DEF CloseFlush, Promise!vars
    <3>4. CASE logBuffer # <<>> /\ isOpen
      <4>1. file' = file \o logBuffer
        BY <2>4, <3>4 DEF CloseFlush
      <4>2. Len(logBuffer) \in 1..Len(logBuffer)
        BY <2>0, <3>4, EmptySeq
      <4>3. Promise!Write(Len(logBuffer))
        BY <2>0, <3>1, <3>2, <3>4, <4>1, EmptyConcat DEF Promise!Write
      <4> QED  BY <3>2, <4>2, <4>3 DEF Promise!Next, Promise!WriteSome
    <3>5. CASE logBuffer # <<>> /\ ~isOpen
      <4>1. Promise!Discard
        BY <2>4, <3>1, <3>2, <3>5 DEF CloseFlush, Promise!Discard
      <4> QED  BY <4>1 DEF Promise!Next
    <3> QED  BY <3>3, <3>4, <3>5
  <2>5. ASSUME NEW t \in Thread, CloseFile(t)
        PROVE  Promise!Next \/ UNCHANGED Promise!vars
    BY <2>5 DEF CloseFile, Promise!Next, Promise!Close, Promise!vars, IInv, TypeOK
  <2>6. CASE UNCHANGED <<file, localBuffer, logBuffer, isOpen>>
    BY <2>6 DEF Promise!vars
  <2> QED
    BY <2>1, <2>2, <2>3, <2>4, <2>5, <2>6
    DEF Next, Flush, Continue, vars, FlusherCheck, FlusherWait,
        FlusherTimeout, FlusherSync, CloseNotify, CloseJoin, CloseJoined,
        CloseSync, CloseStop, AppendCheck
<1> QED  BY <1>1, <1>2, Invariance, PTL DEF Spec, Promise!Spec
=============================================================================
