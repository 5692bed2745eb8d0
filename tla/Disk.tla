-------------------------------- MODULE Disk --------------------------------
(***************************************************************************)
(* What is left of an append-only file when the power fails, the process   *)
(* is killed or the disk is full: the page cache, fsync and rename as      *)
(* src/log.cpp uses them, for one DB whose commands come one at a time.    *)
(*                                                                         *)
(* A file is a sequence of pieces.  A piece is a line with its newline, or *)
(* the beginning of a line that was cut off.  Nobody repairs such a file:  *)
(* loadFromLog reads the beginning as it is, and what is appended next     *)
(* continues the same line.                                                *)
(***************************************************************************)
EXTENDS Aof, SequencesExt

CONSTANTS Clips,     \* Clips[t]: the tokens that a token t can be cut to
          Faults,    \* what goes wrong besides losing what was not synced:
                     \*   "tear":    a line is cut in the middle
                     \*   "append":  the disk is full in a write of the buffer
                     \*   "dump":    the disk is full in compactLog
                     \*   "delayed": a rename reaches the disk before the data
          MaxPieces  \* bound: pieces of the AOF and lines on their way to it

ASSUME DiskAssumption ==
  /\ Faults \subseteq {"tear", "append", "dump", "delayed"}
  /\ DOMAIN Clips = Key \cup Value
  /\ \A k \in Key : Clips[k] \subseteq Key
  /\ \A v \in Value : Clips[v] \subseteq Value
  /\ MaxPieces \in Nat

VARIABLES
  phase,     \* "off", "up", "closing": in DB::shutdown, or "stopped" after it
  replaying, \* the DB takes what it is told for the replay of a file
  syncing,   \* between the write and the fsync of the flusher or closeLog
  store,     \* the hash table
  dirty,     \* dirty > 0
  logBuffer, \* lines appended and not yet written
  bad,       \* the badbit of logfile: everything written to it is dropped
  aof,       \* the pieces of the AOF, as the page cache has them
  synced,    \* how many of them are on the disk for certain
  older,     \* files that the name of the AOF may still have on the disk
  recent,    \* history: the values of each key since the last fsync's write
  since      \* history: the same since the write that no fsync has followed

process == <<phase, replaying, syncing, store, dirty, logBuffer, bad>>
disk    == <<aof, synced, older>>
vars    == <<process, disk, recent, since>>

Content == [Key -> Value \cup {NoValue}]
Junk    == PutLine(Empty, Empty)   \* a line that parseCommand does nothing with
Piece   == [line : Line \cup {Junk}, ends : BOOLEAN]
File    == [pieces : Seq(Piece), synced : Nat]

Whole(l) == [line |-> l, ends |-> TRUE]

(* The beginnings of a line, by what they are read as: no command, the     *)
(* line itself when just the newline is missing, a shorter value, a del of *)
(* a shorter key.                                                          *)
Beginnings(l) ==
  {[line |-> b, ends |-> FALSE] :
     b \in {Junk, l} \cup (IF l.val = NoValue
                           THEN {DelLine(k) : k \in Clips[l.key]}
                           ELSE {PutLine(l.key, v) : v \in Clips[l.val]})}

(* Two pieces on one line are no command, or one on a key that nobody uses *)
(* (put k, del j: a put of kdel).                                          *)
LinesOf(ps) ==
  [i \in DOMAIN ps |->
     IF \/ ~ps[i].ends /\ i < Len(ps)
        \/ i > 1 /\ ~ps[i - 1].ends THEN Junk ELSE ps[i].line]

(* loadFromLog.                                                            *)
Replay(ps) ==
  [k \in Key |-> CHOOSE v \in Value \cup {NoValue} : Recovers(LinesOf(ps), k, v)]

(* What a write of lines, or a writeback that was interrupted, may leave   *)
(* of ps: at least n pieces, and the beginning of one more if it is torn.  *)
Parts(ps, n, tears) ==
  UNION {LET whole == SubSeq(ps, 1, m) IN
           {whole} \cup (IF tears /\ m < Len(ps) /\ ps[m + 1].ends
                         THEN {Append(whole, b) : b \in Beginnings(ps[m + 1].line)}
                         ELSE {})
         : m \in n..Len(ps)}

Init ==
  /\ phase = "off" /\ replaying = FALSE /\ syncing = FALSE
  /\ store = [k \in Key |-> NoValue]
  /\ dirty = FALSE /\ logBuffer = <<>> /\ bad = FALSE
  /\ aof = <<>> /\ synced = 0 /\ older = {}
  /\ recent = [k \in Key |-> {NoValue}]
  /\ since = recent
-----------------------------------------------------------------------------
(* The Log opens the AOF and the DB is loaded from it.  Only a line that   *)
(* is read sets replaying; over an empty file it is whatever it was.       *)
Start ==
  /\ phase \in {"off", "stopped"}
  /\ phase' = "up"
  /\ replaying' \in IF aof = <<>> THEN BOOLEAN ELSE {FALSE}
  /\ store' = Replay(aof)
  /\ dirty' = FALSE /\ bad' = FALSE
  /\ UNCHANGED <<syncing, logBuffer, disk, recent, since>>

(* What a put or del of l leaves beside the table: a DB that takes it for  *)
(* a replay neither counts nor logs it.                                    *)
Record(l) ==
  \/ replaying /\ UNCHANGED <<dirty, logBuffer>>
  \/ /\ ~replaying
     /\ dirty' = (dirty \/ l.val # NoValue \/ store[l.key] # NoValue)
     /\ logBuffer' = Append(logBuffer, l)

Command_ValueIsKey(l) ==   \* mutant: put(tokens[1], tokens[1])
  /\ phase = "up" /\ Readable(l)
  /\ Len(aof) + Len(logBuffer) < MaxPieces
  /\ store' = [store EXCEPT ![l.key] = IF l.val = NoValue THEN NoValue ELSE l.key]
  /\ Record(l)
  /\ recent' = [recent EXCEPT ![l.key] = @ \cup {l.val}]
  /\ since' = [since EXCEPT ![l.key] = @ \cup {l.val}]
  /\ UNCHANGED <<phase, replaying, syncing, bad, disk>>

(* put and del.                                                            *)
Command(l) ==
  /\ phase = "up" /\ Readable(l)
  /\ Len(aof) + Len(logBuffer) < MaxPieces
  /\ store' = [store EXCEPT ![l.key] = l.val]
  /\ Record(l)
  /\ recent' = [recent EXCEPT ![l.key] = @ \cup {l.val}]
  /\ since' = [since EXCEPT ![l.key] = @ \cup {l.val}]
  /\ UNCHANGED <<phase, replaying, syncing, bad, disk>>

(* The flusher, or closeLog, writes the buffer.  Nobody looks at the state *)
(* of the stream.                                                          *)
Write ==
  /\ phase \in {"up", "closing"} /\ ~syncing
  /\ logBuffer # <<>>
  /\ LET ps == [i \in DOMAIN logBuffer |-> Whole(logBuffer[i])] IN
       \E part \in Parts(ps, IF "append" \in Faults THEN 0 ELSE Len(ps), TRUE) :
         /\ aof' = IF bad THEN aof ELSE aof \o part
         /\ bad' = (bad \/ part # ps)
  /\ logBuffer' = <<>>
  /\ syncing' = TRUE
  /\ since' = [k \in Key |-> {store[k]}]
  /\ UNCHANGED <<phase, replaying, store, dirty, synced, older, recent>>

Sync_NotForced ==   \* mutant: flush without fsync
  /\ syncing
  /\ syncing' = FALSE
  /\ recent' = since
  /\ UNCHANGED <<phase, replaying, store, dirty, logBuffer, bad, disk, since>>

(* fsync.  That it settles the name of the file too is assumed of the file *)
(* system: POSIX asks for an fsync of the directory, which nobody makes.   *)
Sync ==
  /\ syncing
  /\ syncing' = FALSE
  /\ synced' = Len(aof)
  /\ older' = {}
  /\ recent' = since
  /\ UNCHANGED <<phase, replaying, store, dirty, logBuffer, bad, aof, since>>

BeginShutdown_EmptiesTable ==   \* mutant: the table goes before the log does
  /\ phase = "up"
  /\ phase' = "closing"
  /\ store' = [k \in Key |-> NoValue]
  /\ UNCHANGED <<replaying, syncing, dirty, logBuffer, bad, disk, recent, since>>

BeginShutdown ==
  /\ phase = "up"
  /\ phase' = "closing"
  /\ UNCHANGED <<replaying, syncing, store, dirty, logBuffer, bad, disk, recent,
                 since>>

(* compactLog: the table goes to a temporary file, which is not synced,    *)
(* and is renamed to the AOF whatever became of the writing.               *)
Dump ==
  LET ks == SetToSeq({k \in Key : store[k] # NoValue}) IN
  [i \in DOMAIN ks |-> Whole(PutLine(ks[i], store[ks[i]]))]

Shutdown_BufferLeft ==   \* mutant: closeLog without its last write
  /\ phase = "closing" /\ ~syncing
  /\ phase' = "stopped"
  /\ logBuffer' = <<>>
  /\ IF ~dirty \/ Dump = <<>> THEN UNCHANGED disk
     ELSE /\ aof' = Dump
          /\ synced' = Len(Dump)
          /\ older' = older \cup {[pieces |-> aof, synced |-> synced]}
  /\ UNCHANGED <<replaying, syncing, store, dirty, bad, recent, since>>

(* The end of closeLog, when nothing is left to write, and compactLog.     *)
Shutdown ==
  /\ phase = "closing" /\ ~syncing /\ logBuffer = <<>>
  /\ phase' = "stopped"
  /\ IF ~dirty \/ Dump = <<>> THEN UNCHANGED disk
     ELSE \E part \in Parts(Dump, IF "dump" \in Faults THEN 0 ELSE Len(Dump), TRUE) :
            /\ aof' = part
            /\ synced' = IF "delayed" \in Faults THEN 0 ELSE Len(part)
            /\ older' = older \cup {[pieces |-> aof, synced |-> synced]}
  /\ UNCHANGED <<replaying, syncing, store, dirty, logBuffer, bad, recent, since>>
-----------------------------------------------------------------------------
(* The system writes back what it has cached.                              *)
WriteBack ==
  /\ synced # Len(aof) \/ older # {}
  /\ synced' = Len(aof) /\ older' = {}
  /\ UNCHANGED <<process, aof, recent, since>>

Dies == phase' = "off" /\ syncing' = FALSE /\ logBuffer' = <<>>

(* The process is killed: what it has written stays.                       *)
Kill ==
  /\ phase \in {"up", "closing"}
  /\ Dies
  /\ UNCHANGED <<replaying, store, dirty, bad, disk, recent, since>>

PowerFails ==
  /\ Dies
  /\ \E f \in older \cup {[pieces |-> aof, synced |-> synced]} :
       \E part \in Parts(f.pieces, f.synced, "tear" \in Faults) :
         /\ aof' = part
         /\ synced' = Len(part)
  /\ older' = {}
  /\ UNCHANGED <<replaying, store, dirty, bad, recent, since>>

Next ==
  \/ Start
  \/ \E l \in Line : Command(l)
  \/ Write
  \/ Sync
  \/ BeginShutdown
  \/ Shutdown
  \/ WriteBack
  \/ Kill
  \/ PowerFails

Spec == Init /\ [][Next]_vars
-----------------------------------------------------------------------------
TypeOK ==
  /\ phase \in {"off", "up", "closing", "stopped"}
  /\ {replaying, syncing, dirty, bad} \subseteq BOOLEAN
  /\ store \in Content
  /\ logBuffer \in Seq(Line)
  /\ aof \in Seq(Piece) /\ synced \in 0..Len(aof)
  /\ older \subseteq File
  /\ {recent, since} \subseteq [Key -> SUBSET (Value \cup {NoValue})]

(* "Everysec may potentially lose data in the worst case scenario (up to   *)
(* last second)" (docs.md): a restarted DB has for every key its value at  *)
(* the last write that was synced, or a later one.                         *)
LosesOnlyLastSecond ==
  phase = "up" => \A k \in Key : store[k] \in recent[k]

(* A shutdown that runs to its end leaves an AOF from which the whole      *)
(* table comes back, compacted or not, and however often the power failed  *)
(* before; not after a torn line or a full disk, and not when the DB was   *)
(* opened over an empty file and came to be replaying (db.cpp:14): then    *)
(* the file is still empty, and all that clients stored is lost.           *)
CleanShutdownLosesNothing ==
  phase = "stopped" => Replay(aof) = store \/ (replaying /\ aof = <<>>)

(* The same promise where the power may fail: what a load finds was saved  *)
(* by the last fsync or came later, and flusher and shutdown change no     *)
(* value; not after a torn line, a full disk or a rename that overtakes    *)
(* its data.                                                               *)
Durable == INSTANCE DurableMap WITH
             status     <- IF phase \in {"up", "closing"} THEN "up" ELSE "down",
             map        <- IF phase \in {"up", "closing"} THEN store
                           ELSE [k \in Key |-> NoValue],
             candidates <- recent,
             Fragile    <- {}

IsDurableMap == Durable!Spec
=============================================================================
