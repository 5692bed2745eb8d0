-------------------------------- MODULE Log ---------------------------------
(***************************************************************************)
(* The class Log (src/log.cpp): the append buffer, the background thread   *)
(* that flushes it about once a second, and closeLog.  Client threads call *)
(* appendCommand and closeLog on one Log object without any lock of their  *)
(* own; logMutex guards logBuffer only.                                    *)
(*                                                                         *)
(* A critical section on logMutex is one action, except the last one of    *)
(* closeLog, which does file I/O while it holds the mutex: LogMutexFree    *)
(* says that no thread is inside it.  conditionVariableMutex is taken by   *)
(* the flusher alone (closeLog notifies without it), so it is no part of   *)
(* the state.                                                              *)
(***************************************************************************)
EXTENDS Integers, Sequences

CONSTANTS Thread,      \* the client threads that share the Log
          Command,     \* the lines that can be appended
          MaxAppends   \* bound: how many lines are appended in a behaviour

ASSUME ThreadAssumption == Thread # {}
ASSUME MaxAppendsAssumption == MaxAppends \in Nat

VARIABLES
  logBuffer,        \* lines appended and not yet taken by the flusher
  localBuffer,      \* lines the flusher has swapped out and not yet written
  file,             \* the lines of the .aof since the Log was constructed
  synced,           \* how many lines of file have been fsync'ed
  isOpen,           \* logfile.is_open(), and fileDescriptor # -1
  stopFlushThread,
  flusher,          \* where the flush thread is
  joinable,         \* flushThread.joinable()
  pc,               \* where each client thread is
  arg,              \* the line each client thread is appending
  accepted,         \* history: every line pushed on logBuffer, in order
  dropped           \* history: the lines a later closeLog threw away

vars == <<logBuffer, localBuffer, file, synced, isOpen, stopFlushThread,
          flusher, joinable, pc, arg, accepted, dropped>>

FlusherPC == {"check", "checked", "waiting", "awake", "write", "sync", "done"}
ThreadPC  == {"idle", "push", "notify", "join", "joining", "final",
              "syncing", "close", "thrown"}

(* The constructor opens the file for appending and starts the flusher.    *)
Init ==
  /\ logBuffer = <<>>
  /\ localBuffer = <<>>
  /\ file = <<>>
  /\ synced = 0
  /\ isOpen = TRUE
  /\ stopFlushThread = FALSE
  /\ flusher = "check"
  /\ joinable = TRUE
  /\ pc = [t \in Thread |-> "idle"]
  /\ arg \in [Thread -> Command]
  /\ accepted = <<>>
  /\ dropped = <<>>

Goto(t, from, to) ==
  /\ pc[t] = from
  /\ pc' = [pc EXCEPT ![t] = to]

LogMutexFree == \A t \in Thread : pc[t] # "syncing"

buffers == <<logBuffer, localBuffer, accepted, dropped>>
disk    == <<file, synced, isOpen>>
control == <<stopFlushThread, flusher, joinable>>
-----------------------------------------------------------------------------
(* appendCommand.  The test of logfile.is_open() is made without the       *)
(* mutex; when it fails the call reports an error and changes nothing.     *)
AppendCheck(t, c) ==
  /\ Len(accepted) < MaxAppends
  /\ isOpen
  /\ Goto(t, "idle", "push")
  /\ arg' = [arg EXCEPT ![t] = c]
  /\ UNCHANGED <<buffers, disk, control>>

AppendPush_EmptyLine(t) ==   \* mutant: the switch leaves line empty
  /\ LogMutexFree
  /\ Goto(t, "push", "idle")
  /\ logBuffer' = Append(logBuffer, <<>>)
  /\ accepted' = Append(accepted, <<>>)
  /\ UNCHANGED <<localBuffer, dropped, disk, control, arg>>

AppendPush(t) ==
  /\ LogMutexFree
  /\ Goto(t, "push", "idle")
  /\ logBuffer' = Append(logBuffer, arg[t])
  /\ accepted' = Append(accepted, arg[t])
  /\ UNCHANGED <<localBuffer, dropped, disk, control, arg>>
-----------------------------------------------------------------------------
(* The flush thread.  Between its test of stopFlushThread and the moment   *)
(* it sleeps in wait_for a notification finds nobody to wake.              *)
FlusherCheck ==
  /\ flusher = "check"
  /\ flusher' = IF stopFlushThread THEN "done" ELSE "checked"
  /\ UNCHANGED <<buffers, disk, stopFlushThread, joinable, pc, arg>>

FlusherWait ==
  /\ flusher = "checked"
  /\ flusher' = "waiting"
  /\ UNCHANGED <<buffers, disk, stopFlushThread, joinable, pc, arg>>

FlusherTimeout_Never == FALSE   \* mutant: wait in place of wait_for

(* wait_for returns after a second, or spuriously.                         *)
FlusherTimeout ==
  /\ flusher = "waiting"
  /\ flusher' = "awake"
  /\ UNCHANGED <<buffers, disk, stopFlushThread, joinable, pc, arg>>

FlusherSwap ==
  /\ flusher = "awake"
  /\ LogMutexFree
  /\ flusher' = IF logBuffer = <<>> THEN "check" ELSE "write"
  /\ localBuffer' = logBuffer
  /\ logBuffer' = <<>>
  /\ UNCHANGED <<accepted, dropped, disk, stopFlushThread, joinable, pc, arg>>

FlusherWrite_Truncates ==   \* mutant: the file opened with trunc, not app
  /\ flusher = "write"
  /\ flusher' = "sync"
  /\ file' = localBuffer
  /\ localBuffer' = <<>>
  /\ UNCHANGED <<logBuffer, accepted, dropped, synced, isOpen,
                 stopFlushThread, joinable, pc, arg>>

FlusherWrite ==
  /\ flusher = "write"
  /\ flusher' = "sync"
  /\ file' = file \o localBuffer
  /\ localBuffer' = <<>>
  /\ UNCHANGED <<logBuffer, accepted, dropped, synced, isOpen,
                 stopFlushThread, joinable, pc, arg>>

FlusherSync ==
  /\ flusher = "sync"
  /\ flusher' = "check"
  /\ synced' = Len(file)
  /\ UNCHANGED <<buffers, file, isOpen, stopFlushThread, joinable, pc, arg>>
-----------------------------------------------------------------------------
(* closeLog, step by step.                                                 *)
CloseStop(t) ==
  /\ Goto(t, "idle", "notify")
  /\ stopFlushThread' = TRUE
  /\ UNCHANGED <<buffers, disk, flusher, joinable, arg>>

CloseNotify(t) ==
  /\ Goto(t, "notify", "join")
  /\ flusher' = IF flusher = "waiting" THEN "awake" ELSE flusher
  /\ UNCHANGED <<buffers, disk, stopFlushThread, joinable, arg>>

(* A thread may be joined by one caller at a time: joinable() is still     *)
(* true for a second caller, and its join() throws std::system_error, which*)
(* leaves closeLog and ends the client's connection.                       *)
CloseJoin(t) ==
  /\ \/ /\ joinable
        /\ \A u \in Thread : pc[u] # "joining"
        /\ Goto(t, "join", "joining")
     \/ /\ joinable
        /\ \E u \in Thread : pc[u] = "joining"
        /\ Goto(t, "join", "thrown")
     \/ /\ ~joinable
        /\ Goto(t, "join", "final")
  /\ UNCHANGED <<buffers, disk, control, arg>>

CloseJoined_Detaches(t) ==   \* mutant: detach() in place of join()
  /\ Goto(t, "joining", "final")
  /\ joinable' = FALSE
  /\ UNCHANGED <<buffers, disk, stopFlushThread, flusher, arg>>

CloseJoined(t) ==
  /\ flusher = "done"
  /\ Goto(t, "joining", "final")
  /\ joinable' = FALSE
  /\ UNCHANGED <<buffers, disk, stopFlushThread, flusher, arg>>

CloseFlush_Skipped(t) ==   \* mutant: nothing looks at the buffer again
  /\ LogMutexFree
  /\ Goto(t, "final", "close")
  /\ UNCHANGED <<buffers, disk, control, arg>>

(* The final flush.  On a stream that an earlier call has closed the write *)
(* fails unnoticed and the buffer is cleared all the same.                 *)
CloseFlush(t) ==
  /\ LogMutexFree
  /\ \/ /\ logBuffer = <<>>
        /\ Goto(t, "final", "close")
        /\ UNCHANGED <<file, dropped>>
     \/ /\ logBuffer # <<>>
        /\ Goto(t, "final", "syncing")
        /\ file' = IF isOpen THEN file \o logBuffer ELSE file
        /\ dropped' = IF isOpen THEN dropped ELSE dropped \o logBuffer
  /\ logBuffer' = <<>>
  /\ UNCHANGED <<localBuffer, accepted, synced, isOpen, control, arg>>

CloseSync(t) ==
  /\ Goto(t, "syncing", "close")
  /\ synced' = IF isOpen THEN Len(file) ELSE synced
  /\ UNCHANGED <<buffers, file, isOpen, control, arg>>

CloseFile(t) ==
  /\ Goto(t, "close", "idle")
  /\ isOpen' = FALSE
  /\ UNCHANGED <<buffers, file, synced, control, arg>>
-----------------------------------------------------------------------------
Flush ==
  \/ FlusherCheck
  \/ FlusherWait
  \/ FlusherTimeout
  \/ FlusherSwap
  \/ FlusherWrite
  \/ FlusherSync

(* The steps of a call that has begun.                                     *)
Continue(t) ==
  \/ AppendPush(t)
  \/ CloseNotify(t)
  \/ CloseJoin(t)
  \/ CloseJoined(t)
  \/ CloseFlush(t)
  \/ CloseSync(t)
  \/ CloseFile(t)

Next ==
  \/ Flush
  \/ \E t \in Thread : Continue(t)
  \/ \E t \in Thread : CloseStop(t)
  \/ \E t \in Thread, c \in Command : AppendCheck(t, c)

Spec == Init /\ [][Next]_vars

(* The operating system runs every thread that can run, and wait_for       *)
(* returns at the latest after its second.  No client has to call anything.*)
Fairness ==
  /\ WF_vars(Flush)
  /\ \A t \in Thread : WF_vars(Continue(t))

FairSpec == Spec /\ Fairness
-----------------------------------------------------------------------------
TypeOK ==
  /\ logBuffer \in Seq(Command)
  /\ localBuffer \in Seq(Command)
  /\ file \in Seq(Command)
  /\ synced \in Nat
  /\ isOpen \in BOOLEAN
  /\ stopFlushThread \in BOOLEAN
  /\ flusher \in FlusherPC
  /\ joinable \in BOOLEAN
  /\ pc \in [Thread -> ThreadPC]
  /\ arg \in [Thread -> Command]
  /\ accepted \in Seq(Command)
  /\ dropped \in Seq(Command)

(* No line is lost, duplicated or overtaken between appendCommand and the  *)
(* .aof, whatever the threads do: the file, what the flusher holds and the *)
(* buffer are together the accepted lines in the order they were accepted. *)
(* The only lines missing from the file for good are those that a closeLog *)
(* found in the buffer of a log closed before.                             *)
LinesInOrder == accepted = file \o localBuffer \o dropped \o logBuffer

(* When closeLog has closed the file, every line accepted so far is in it, *)
(* fsync'ed.  "Check if a changelog append was added to buffer one final   *)
(* time" (log.cpp, closeLog): true of a single client thread, not of two.  *)
ClosedMeansDurable ==
  ~isOpen => file = accepted /\ synced = Len(accepted)

(* Once closeLog has notified the flusher, the flusher is not asleep in    *)
(* its interval: "wake to close immediately" (log.cpp, closeLog).          *)
NotifyWakesFlusher ==
  \A t \in Thread : pc[t] \in {"join", "joining"} => flusher # "waiting"

(* closeLog returns, or throws, although its notification may be missed    *)
(* and although it joins the flusher before it takes the mutex.            *)
CloseReturns ==
  \A t \in Thread : (pc[t] = "notify") ~> (pc[t] \in {"idle", "thrown"})

(* The log does what CommandLog promises: the lines between the two        *)
(* buffers and the file are the pending ones, and while the log is open    *)
(* they keep reaching the file (the "everysec" flush).                     *)
Promise == INSTANCE CommandLog WITH
             written <- file,
             pending <- localBuffer \o logBuffer,
             open    <- isOpen

KeepsPromise == Promise!FairSpec
=============================================================================
