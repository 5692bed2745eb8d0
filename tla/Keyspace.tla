------------------------------ MODULE Keyspace ------------------------------
(***************************************************************************)
(* One keyspace: a DB object (src/db.cpp), its Log (src/log.cpp) and the   *)
(* two files logs/<name>.aof and logs/<name>.db, through loading, client   *)
(* commands, shutdown, crash and restart.                                  *)
(*                                                                         *)
(* Commands come one at a time here, as from a single client.  The flush   *)
(* thread and a crash may come between any two steps of a command and of   *)
(* shutdown().  The threads inside Log are the subject of module Log; what *)
(* this module keeps of them is the buffer pipeline                        *)
(*     todo -> logBuffer -> localBuffer -> aof                             *)
(* and the wait of closeLog for the flusher.                               *)
(***************************************************************************)
EXTENDS Aof, SequencesExt

CONSTANTS Torn,      \* the content of a .db file truncated or half written
          MaxLines,  \* bound: lines in the AOF and on their way to it
          MaxBatch   \* bound: keys in one mput or mdel

ASSUME BoundsAssumption == MaxLines \in Nat /\ MaxBatch \in Nat

VARIABLES
  phase,        \* "off", "crashed", "loading" or "up": the process
  pc,           \* the step of the call in progress, or "idle"
  store,        \* the hash table: Key -> value, or NoValue when absent
  replaying,
  dirty,        \* dirty > 0
  isOpen,       \* logfile.is_open()
  aof,          \* the lines of the .aof file
  localBuffer,  \* lines the flusher has swapped out
  logBuffer,    \* lines appended and not yet swapped out
  pos,          \* lines replayed so far by loadFromLog
  todo,         \* lines the running command has still to append
  batch,        \* items the running mput or mdel has still to apply
  caller,       \* who called shutdown(): see BeginShutdown
  snapshot,     \* the content of the .db file
  fresh,        \* history: the last shutdown wrote the .db file
  unlogged,     \* history: keys whose last change is not in the pipeline
  recent        \* history: the values each key was given since the AOF last
                \* agreed with the store about it

files   == <<aof, snapshot>>
log     == <<isOpen, localBuffer, logBuffer>>
memory  == <<store, replaying, dirty>>
call    == <<pos, todo, batch, caller>>
history == <<fresh, unlogged, recent>>
vars    == <<phase, pc, files, log, memory, call, history>>

Content  == [Key -> Value \cup {NoValue}]
NoKeys   == [k \in Key |-> NoValue]
Pipeline == aof \o localBuffer \o logBuffer \o todo

Init ==
  /\ phase = "off"
  /\ pc = "idle"
  /\ store = NoKeys
  /\ replaying = FALSE
  /\ dirty = FALSE
  /\ isOpen = FALSE
  /\ aof = <<>>
  /\ localBuffer = <<>>
  /\ logBuffer = <<>>
  /\ pos = 0
  /\ todo = <<>>
  /\ batch = <<>>
  /\ caller = "none"
  /\ snapshot = Torn
  /\ fresh = FALSE
  /\ unlogged = {}
  /\ recent = [k \in Key |-> {NoValue}]
-----------------------------------------------------------------------------
(* Construction of a DB: its Log opens (or creates) the AOF, and the new   *)
(* object's replaying holds whatever the memory held before.               *)
Open ==
  /\ phase \in {"off", "crashed"}
  /\ phase' = "loading"
  /\ store' = NoKeys
  /\ replaying' \in BOOLEAN
  /\ dirty' = FALSE
  /\ isOpen' = TRUE
  /\ pos' = 0
  /\ fresh' = FALSE
  /\ UNCHANGED <<pc, files, localBuffer, logBuffer, todo, batch, caller,
                 unlogged, recent>>

(* One line of loadFromLog: parseCommand ignores a line it cannot read.    *)
ReplayLine ==
  /\ phase = "loading"
  /\ pos < Len(aof)
  /\ LET l == aof[pos + 1] IN
       store' = IF Readable(l) THEN [store EXCEPT ![l.key] = l.val] ELSE store
  /\ pos' = pos + 1
  /\ replaying' = FALSE
  /\ UNCHANGED <<phase, pc, files, log, dirty, todo, batch, caller, history>>

EndLoad ==
  /\ phase = "loading"
  /\ pos = Len(aof)
  /\ phase' = "up"
  /\ pos' = 0
  /\ unlogged' = {}
  /\ recent' = [k \in Key |-> {store[k]}]
  /\ UNCHANGED <<pc, files, log, memory, todo, batch, caller, fresh>>
-----------------------------------------------------------------------------
(* Commands.                                                               *)
Ready   == phase = "up" /\ pc = "idle"
Room(n) == Len(Pipeline) + n <= MaxLines

Mentions(ls, k) == \E i \in 1..Len(ls) : ls[i].key = k

(* What the history variables remember of a command that logs the lines ls *)
(* (or would, if logged is false).                                         *)
Remember(ls, logged) ==
  /\ unlogged' =
       {k \in Key : IF Mentions(ls, k)
                    THEN \/ ~logged
                         \/ ~isOpen
                         \/ \E i \in 1..Len(ls) :
                              ls[i].key = k /\ ~Readable(ls[i])
                    ELSE k \in unlogged}
  /\ recent' =
       [k \in Key |-> recent[k] \cup
          {ls[i].val : i \in {j \in 1..Len(ls) : ls[j].key = k}}]
  /\ fresh' = FALSE

(* The table's own operations; replaying keeps a change from being counted.*)
DBPut(k, v) ==
  /\ store' = [store EXCEPT ![k] = v]
  /\ dirty' = (dirty \/ ~replaying)
  /\ UNCHANGED replaying

DBDel_NotDirty(k) ==   \* mutant: a deletion is not counted as a change
  /\ store' = [store EXCEPT ![k] = NoValue]
  /\ UNCHANGED <<replaying, dirty>>

DBDel(k) ==
  /\ store' = [store EXCEPT ![k] = NoValue]
  /\ dirty' = (dirty \/ (store[k] # NoValue /\ ~replaying))
  /\ UNCHANGED replaying

(* put and del change the store first and then append their line, del      *)
(* whether or not the key was there, unless the DB believes that it is     *)
(* replaying.                                                              *)
Single(l) ==
  /\ Ready
  /\ Room(1)
  /\ \/ replaying /\ UNCHANGED <<pc, todo>>
     \/ ~replaying /\ pc' = "append" /\ todo' = <<l>>
  /\ Remember(<<l>>, ~replaying)
  /\ UNCHANGED <<phase, files, log, pos, batch, caller>>

Put(k, v) == DBPut(k, v) /\ Single(PutLine(k, v))

Del(k) == DBDel(k) /\ Single(DelLine(k))

Multi_LogsBackwards(ls) ==   \* mutant: the lines are logged last to first
  /\ Ready
  /\ Room(Len(ls))
  /\ pc' = "append"
  /\ todo' = Reverse(ls)
  /\ batch' = ls
  /\ Remember(ls, TRUE)
  /\ UNCHANGED <<phase, memory, files, log, pos, caller>>

(* mput and mdel append all their lines first, replaying or not, and then  *)
(* change the store item by item.                                          *)
Multi(ls) ==
  /\ Ready
  /\ Room(Len(ls))
  /\ pc' = "append"
  /\ todo' = ls
  /\ batch' = ls
  /\ Remember(ls, TRUE)
  /\ UNCHANGED <<phase, memory, files, log, pos, caller>>

MPut == \E n \in 2..MaxBatch : \E ks \in [1..n -> Key], vs \in [1..n -> Value] :
          Multi([i \in 1..n |-> PutLine(ks[i], vs[i])])

MDel == \E n \in 2..MaxBatch : \E ks \in [1..n -> Key] :
          Multi([i \in 1..n |-> DelLine(ks[i])])

(* appendCommand: a closed log refuses the line and the command goes on.   *)
AppendCommand ==
  /\ pc = "append"
  /\ logBuffer' = IF isOpen THEN Append(logBuffer, Head(todo)) ELSE logBuffer
  /\ todo' = Tail(todo)
  /\ pc' = IF Len(todo) > 1 THEN "append"
           ELSE IF batch # <<>> THEN "apply" ELSE "idle"
  /\ UNCHANGED <<phase, memory, files, isOpen, localBuffer, pos, batch,
                 caller, history>>

ApplyItem_ValueIsKey ==   \* mutant: put(items[i], items[i]), a lost "+ 1"
  /\ pc = "apply"
  /\ LET l == Head(batch)
     IN IF l.val = NoValue THEN DBDel(l.key) ELSE DBPut(l.key, l.key)
  /\ batch' = Tail(batch)
  /\ pc' = IF Len(batch) > 1 THEN "apply" ELSE "idle"
  /\ UNCHANGED <<phase, files, log, pos, todo, caller, history>>

ApplyItem ==
  /\ pc = "apply"
  /\ LET l == Head(batch)
     IN IF l.val = NoValue THEN DBDel(l.key) ELSE DBPut(l.key, l.val)
  /\ batch' = Tail(batch)
  /\ pc' = IF Len(batch) > 1 THEN "apply" ELSE "idle"
  /\ UNCHANGED <<phase, files, log, pos, todo, caller, history>>

ClearData_KeepsTable ==   \* mutant: only the files are emptied
  /\ Ready
  /\ aof' = <<>>
  /\ snapshot' = Torn
  /\ fresh' = FALSE
  /\ unlogged' = {k \in Key : Mentions(localBuffer \o logBuffer, k)}
  /\ recent' = [k \in Key |-> IF Mentions(localBuffer \o logBuffer, k)
                              THEN recent[k] \cup {NoValue} ELSE {NoValue}]
  /\ UNCHANGED <<phase, pc, memory, log, call>>

(* clearData empties the table and truncates both files, and leaves alone  *)
(* dirty and the lines that are still in a buffer. One step is enough here: *)
(* the one client waits for it; a write of the flusher between its parts   *)
(* goes the way of the one before it or of the one behind it; a crash there*)
(* leaves the AOF of a crash before it or behind it, and a load reads only *)
(* the AOF. (Module Server has it in two steps, between which the commands *)
(* of other clients fall.)                                                 *)
ClearData ==
  /\ Ready
  /\ store' = NoKeys
  /\ aof' = <<>>
  /\ snapshot' = Torn
  /\ fresh' = FALSE
  /\ unlogged' = {k \in Key : Mentions(localBuffer \o logBuffer, k)}
  /\ recent' = [k \in Key |-> IF Mentions(localBuffer \o logBuffer, k)
                              THEN recent[k] \cup {NoValue} ELSE {NoValue}]
  /\ UNCHANGED <<phase, pc, replaying, dirty, log, call>>
-----------------------------------------------------------------------------
(* When everything accepted is in the AOF, the keys it carries are known.  *)
Settle(fullyWritten) ==
  recent' = [k \in Key |-> IF fullyWritten /\ k \notin unlogged
                           THEN {store[k]} ELSE recent[k]]

FlusherSwap_Overlaps ==   \* mutant: a second flusher swaps before the write
  /\ phase = "up"
  /\ isOpen
  /\ logBuffer # <<>>
  /\ localBuffer' = logBuffer
  /\ logBuffer' = <<>>
  /\ UNCHANGED <<phase, pc, memory, files, isOpen, call, history>>

FlusherSwap ==
  /\ phase = "up"
  /\ isOpen
  /\ localBuffer = <<>>
  /\ logBuffer # <<>>
  /\ localBuffer' = logBuffer
  /\ logBuffer' = <<>>
  /\ UNCHANGED <<phase, pc, memory, files, isOpen, call, history>>

FlusherWrite ==
  /\ phase = "up"
  /\ localBuffer # <<>>
  /\ aof' = aof \o localBuffer
  /\ localBuffer' = <<>>
  /\ Settle(logBuffer = <<>> /\ todo = <<>> /\ batch = <<>>)
  /\ UNCHANGED <<phase, pc, memory, snapshot, isOpen, logBuffer, call, fresh,
                 unlogged>>
-----------------------------------------------------------------------------
(* shutdown() is called by quit, after which the DB lives on ("quit"), by  *)
(* ~Server, whose member db is then destroyed and shuts down once more     *)
(* ("server"), and by ~DB ("db").                                          *)
BeginShutdown(who) ==
  /\ Ready
  /\ pc' = "closeLog"
  /\ caller' = who
  /\ UNCHANGED <<phase, memory, files, log, pos, todo, batch, history>>

CloseLog_NoFinalWrite ==   \* mutant: the buffer is cleared, not written
  /\ pc = "closeLog"
  /\ localBuffer = <<>>
  /\ pc' = "compactLog"
  /\ isOpen' = FALSE
  /\ logBuffer' = <<>>
  /\ Settle(TRUE)
  /\ UNCHANGED <<phase, memory, files, localBuffer, call, fresh, unlogged>>

(* closeLog joins the flusher, which first writes what it holds, and then  *)
(* writes the rest.                                                        *)
CloseLog ==
  /\ pc = "closeLog"
  /\ localBuffer = <<>>
  /\ pc' = "compactLog"
  /\ isOpen' = FALSE
  /\ aof' = aof \o logBuffer
  /\ logBuffer' = <<>>
  /\ Settle(TRUE)
  /\ UNCHANGED <<phase, memory, snapshot, localBuffer, call, fresh, unlogged>>

Stored == {k \in Key : store[k] # NoValue}

(* The compacted file: one put per stored key, in the table's order.       *)
Orders(S) == Bijection(1..Cardinality(S), S)

Compacted_ShortWrite ==   \* mutant: the temporary file lacks a line
  {[i \in 1..(Cardinality(Stored) - 1) |-> PutLine(ks[i], store[ks[i]])] :
     ks \in Orders(Stored)}

Compacted ==
  {[i \in 1..Cardinality(Stored) |-> PutLine(ks[i], store[ks[i]])] :
     ks \in Orders(Stored)}

CompactLog ==
  /\ pc = "compactLog"
  /\ pc' = "snapshot"
  /\ \/ /\ ~dirty \/ Stored = {}
        /\ UNCHANGED <<aof, unlogged, recent>>
     \/ /\ dirty /\ Stored # {}
        /\ aof' \in Compacted
        /\ unlogged' = {k \in Stored : ~Readable(PutLine(k, store[k]))}
        /\ recent' = [k \in Key |-> IF k \in unlogged'
                                    THEN {store[k], NoValue} ELSE {store[k]}]
  /\ UNCHANGED <<phase, memory, snapshot, log, call, fresh>>

(* The temporary file cannot be opened, so rename throws: handleClient     *)
(* reports it after quit, and in a destructor it ends the process (Crash). *)
CompactThrows ==
  /\ pc = "compactLog"
  /\ caller = "quit"
  /\ dirty /\ Stored # {}
  /\ pc' = "idle"
  /\ caller' = "none"
  /\ UNCHANGED <<phase, memory, files, log, pos, todo, batch, history>>

(* shutdown() returns to its caller.                                       *)
Return ==
  /\ pc' = IF caller = "server" THEN "closeLog" ELSE "idle"
  /\ phase' = IF caller = "db" THEN "off" ELSE "up"
  /\ caller' = IF caller = "server" THEN "db" ELSE "none"

(* writeBinarySnapshot; nothing reports a .db file that cannot be opened.  *)
WriteBinarySnapshot ==
  /\ pc = "snapshot"
  /\ snapshot' = store
  /\ fresh' = TRUE
  /\ Return
  /\ UNCHANGED <<memory, aof, log, pos, todo, batch, unlogged, recent>>

SnapshotFails ==
  /\ pc = "snapshot"
  /\ Return
  /\ UNCHANGED <<memory, files, log, pos, todo, batch, history>>
-----------------------------------------------------------------------------
(* The process is killed.  Of what the flusher or closeLog was writing any *)
(* number of lines may have reached the file.                              *)
Crash ==
  /\ phase \in {"loading", "up"}
  /\ phase' = "crashed"
  /\ pc' = "idle"
  /\ LET writing == IF pc = "closeLog" /\ localBuffer = <<>>
                    THEN logBuffer ELSE localBuffer
     IN \E n \in 0..Len(writing) : aof' = aof \o SubSeq(writing, 1, n)
  /\ snapshot' \in (IF pc = "snapshot" THEN {snapshot, Torn} ELSE {snapshot})
  /\ fresh' = FALSE
  /\ store' = NoKeys
  /\ replaying' = FALSE
  /\ dirty' = FALSE
  /\ isOpen' = FALSE
  /\ localBuffer' = <<>>
  /\ logBuffer' = <<>>
  /\ pos' = 0
  /\ todo' = <<>>
  /\ batch' = <<>>
  /\ caller' = "none"
  /\ UNCHANGED <<unlogged, recent>>
-----------------------------------------------------------------------------
Command ==
  \/ \E k \in Key, v \in Value : Put(k, v)
  \/ \E k \in Key : Del(k)
  \/ MPut
  \/ MDel
  \/ ClearData

Load     == ReplayLine \/ EndLoad
Flush    == FlusherSwap \/ FlusherWrite
Execute  == AppendCommand \/ ApplyItem
Shutdown == \/ CloseLog
            \/ CompactLog
            \/ CompactThrows
            \/ WriteBinarySnapshot
            \/ SnapshotFails

Next ==
  \/ Open
  \/ Load
  \/ Command
  \/ Execute
  \/ Flush
  \/ \E who \in {"quit", "server", "db"} : BeginShutdown(who)
  \/ Shutdown
  \/ Crash

Spec == Init /\ [][Next]_vars
-----------------------------------------------------------------------------
TypeOK ==
  /\ phase \in {"off", "crashed", "loading", "up"}
  /\ pc \in {"idle", "append", "apply", "closeLog", "compactLog", "snapshot"}
  /\ store \in Content
  /\ replaying \in BOOLEAN
  /\ dirty \in BOOLEAN
  /\ isOpen \in BOOLEAN
  /\ aof \in Seq(Line)
  /\ localBuffer \in Seq(Line)
  /\ logBuffer \in Seq(Line)
  /\ pos \in 0..Len(aof)
  /\ todo \in Seq(Line)
  /\ batch \in Seq(Line)
  /\ caller \in {"none", "quit", "server", "db"}
  /\ snapshot \in Content \cup {Torn}
  /\ fresh \in BOOLEAN
  /\ unlogged \in SUBSET Key
  /\ recent \in [Key -> SUBSET (Value \cup {NoValue})]

(* Between two commands, replaying the AOF and the buffered lines behind   *)
(* it gives back the store: for every key but those last changed while the *)
(* log was closed or replaying was left true, with an empty token, or      *)
(* cleared while a line about them was in a buffer.                        *)
LogMirrorsStore ==
  Ready => \A k \in Key \ unlogged : Recovers(Pipeline, k, store[k])

(* After any crash, at any step of a command, of the flusher or of         *)
(* shutdown, and after any orderly exit, the load gives every key a value  *)
(* it was given since the AOF last agreed with the store about it: nothing *)
(* older comes back and nothing is invented ("may potentially lose data    *)
(* ... up to last second", docs.md).                                       *)
RestartRestoresRecent ==
  phase = "loading" /\ pos = Len(aof) => \A k \in Key : store[k] \in recent[k]

(* The two files that a shutdown leaves tell the same story: the AOF,      *)
(* compacted or not, recovers what the .db snapshot holds. The keys in     *)
(* unlogged are left out: what was changed while the log was closed or     *)
(* replaying was left true, or carries an empty token, is in the snapshot  *)
(* and may be missing in the AOF.                                          *)
SnapshotAgreesWithAof ==
  fresh /\ pc = "idle" =>
    \A k \in Key \ unlogged : Recovers(aof, k, snapshot[k])

(* The dirty counter may be trusted: while it is zero, and replaying is    *)
(* false, a shutdown that skips compaction loses nothing, not even what    *)
(* was changed after the log had been closed.                              *)
DirtyTellsTruth ==
  Ready /\ ~dirty /\ ~replaying =>
    \A k \in Key : Recovers(Pipeline, k, store[k])

(* What a keyspace does to its data is what DurableMap allows: a load finds*)
(* candidates only, a command changes the keys it names, and the flusher,  *)
(* closeLog and compactLog change nothing that a client can read and give  *)
(* up no value that the table holds, but those that have an empty token.   *)
Durable == INSTANCE DurableMap WITH
             status     <- IF phase = "up" THEN "up" ELSE "down",
             map        <- IF phase = "up" THEN store ELSE NoKeys,
             candidates <- recent,
             Fragile    <- {p \in Key \X Value : ~Readable(PutLine(p[1], p[2]))}

IsDurableMap == Durable!Spec
-----------------------------------------------------------------------------
(* "AOFs ... append the mutable query commands that were entered during    *)
(* runtime" (docs.md): while the log is open it carries every change.      *)
CommandsAreLogged ==
  Ready /\ isOpen => \A k \in Key : Recovers(Pipeline, k, store[k])

(* "Deletes ALL data from the store, both in-memory and in files" (db.cpp, *)
(* clearData): nothing that was cleared can come back from the log.        *)
ClearIsDurable ==
  [][ClearData => \A k \in Key : Recovers(Pipeline', k, NoValue)]_vars

(* "Skip writes if no changes have been made" (log.cpp, compactLog): after *)
(* changes, compaction leaves an AOF that recovers the store.              *)
SkipMeansUnchanged ==
  [][pc = "compactLog" /\ pc' = "snapshot" /\ dirty
       => \A k \in Key : Recovers(aof', k, store[k])]_vars
=============================================================================
