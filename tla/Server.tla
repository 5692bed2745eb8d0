------------------------------- MODULE Server -------------------------------
(***************************************************************************)
(* The dispatcher of src/server.cpp and the DB objects behind it: client   *)
(* threads that run commands on one DB without a lock, use, which shuts a  *)
(* DB down, constructs another and destroys the first, quit, ~Server while *)
(* the detached client threads go on, crash and restart.                   *)
(*                                                                         *)
(* An object may hold a file open that its path does not name any more:    *)
(* compaction renames a temporary file over logs/<name>.aof.  What is      *)
(* appended to such a file is lost when it is closed, so that only the     *)
(* path an open file still has is kept.  Flushing is one step here (see    *)
(* Log), and so are closeLog and a load (see Keyspace).  The .db files,    *)
(* which nobody reads, are left to Keyspace and Snapshot.                  *)
(***************************************************************************)
EXTENDS Aof, SequencesExt

CONSTANTS Thread,    \* the client threads
          Main,      \* the main thread
          Name,      \* the names of keyspaces
          NoName,    \* no keyspace; as a path, one that no keyspace has
          Temp,      \* Temp[x]: the keyspace with the path logs/<x>_temp.aof
          Obj,       \* bound: the DB objects that exist at a time
          NoObj,     \* no DB object
          MaxLines   \* bound: lines in an AOF and on their way to it

ASSUME TempAssumption == Temp \in [Name -> Name \cup {NoName}]
ASSUME NamesAssumption == NoName \notin Name /\ NoObj \notin Obj /\ Main \notin Thread

VARIABLES
  running,
  db,        \* the server's unique_ptr: an object, NoObj when there is no process
  obj,       \* Obj -> a DB with its Log, or Freed
  at,        \* thread -> the call it is in
  aof,       \* Name -> the lines of logs/<name>.aof
  left,      \* history: Name -> {what its last DB held}, once that is destroyed
  unsure     \* history: Name -> keys about which its files may be behind

history == <<left, unsure>>
vars    == <<running, db, obj, at, aof, history>>

Content == [Key -> Value \cup {NoValue}]
NoKeys  == [k \in Key |-> NoValue]
Freed   == [name |-> NoName]
Idle    == [pc |-> "idle"]
Micro   == [do : {"apply", "append"}, line : Line]

Init ==
  /\ running = FALSE
  /\ db = NoObj
  /\ obj = [o \in Obj |-> Freed]
  /\ at = [t \in Thread \cup {Main} |-> Idle]
  /\ aof = [x \in Name |-> <<>>]
  /\ left = [x \in Name |-> {}]
  /\ unsure = [x \in Name |-> {}]

Live(o)   == o \in Obj /\ obj[o] # Freed
Busy(t)   == at[t].pc \notin {"idle", "run"}
Inside(o) == {t \in DOMAIN at : at[t].pc # "idle" /\ at[t].obj = o}
Goto(t, call) == at' = [at EXCEPT ![t] = call]
-----------------------------------------------------------------------------
(* The constructors of DB and Log.  Without a line to replay, replaying    *)
(* keeps what the memory held.  The name that Log refers to is the         *)
(* configuration's, or a token of a use command, gone when that returns.   *)
Replayed(log) ==
  [k \in Key |-> CHOOSE v \in Value \cup {NoValue} : Recovers(log, k, v)]

Constructed(x, borrowed) ==
  {[name |-> x, store |-> Replayed(aof[x]), replaying |-> r, dirty |-> FALSE,
    open |-> TRUE, file |-> x, buffer |-> <<>>, borrowed |-> borrowed] :
     r \in IF aof[x] = <<>> THEN BOOLEAN ELSE {FALSE}}

Shared(x) == \E o \in Obj : obj[o].name = x

(* main: the Server's DB is the configured keyspace.                       *)
Start(x) ==
  /\ db = NoObj
  /\ running' = TRUE
  /\ db' \in Obj
  /\ \E d \in Constructed(x, FALSE) : obj' = [obj EXCEPT ![db'] = d]
  /\ left' = [left EXCEPT ![x] = {}]
  /\ unsure' = [unsure EXCEPT ![x] = {}]
  /\ UNCHANGED <<at, aof>>
-----------------------------------------------------------------------------
(* Commands.  A call holds the pointer that it read from db.               *)
Ready(t) == t \in Thread /\ db # NoObj /\ at[t].pc = "idle"

(* What the calls of some threads are still to change, or to log.          *)
Mentioned(ts) ==
  {k \in Key : \E t \in ts :
     \/ at[t].pc = "clear"
     \/ at[t].pc = "run" /\ \E i \in DOMAIN at[t].todo : at[t].todo[i].line.key = k}

Room(n) == Len(aof[obj[db].name]) + Len(obj[db].buffer) + n <= MaxLines

Micros(do, ls) == [i \in DOMAIN ls |-> [do |-> do, line |-> ls[i]]]

(* A command that overlaps no other call settles the doubts about its keys *)
(* when the DB has its log, where its lines are the last about them.       *)
Run(t, ls, todo) ==
  LET touched == {ls[i].key : i \in DOMAIN ls}
      others  == DOMAIN at \ {t}
      clash   == \/ obj[db].replaying
                 \/ \E u \in others : Busy(u)
      logged  == obj[db].open /\ obj[db].file = obj[db].name
  IN
  /\ Ready(t)
  /\ Room(Len(ls))
  /\ Goto(t, [pc |-> "run", obj |-> db, todo |-> todo])
  /\ unsure' = [unsure EXCEPT ![obj[db].name] =
                  (IF logged THEN @ \ touched ELSE @) \cup
                  (IF clash THEN touched ELSE touched \cap Mentioned(others))]
  /\ UNCHANGED <<running, db, obj, aof, left>>

(* put and del change the table and then log, unless replaying; mput and   *)
(* mdel log and then change the table.                                     *)
Single(t, l) ==
  Run(t, <<l>>, Micros("apply", <<l>>) \o
                (IF obj[db].replaying THEN <<>> ELSE Micros("append", <<l>>)))

Multi(t, ls) == Run(t, ls, Micros("append", ls) \o Micros("apply", ls))

Applied_StoresKey(d, l) ==   \* mutant: put(tokens[1], tokens[1])
  [d EXCEPT !.store[l.key] = IF l.val = NoValue THEN NoValue ELSE l.key]

Applied_PutNotCounted(d, l) ==   \* mutant: put leaves dirty alone
  [d EXCEPT !.store[l.key] = l.val,
            !.dirty = @ \/ (~d.replaying /\ l.val = NoValue /\ d.store[l.key] # NoValue)]

(* DB::put, DB::del.                                                       *)
Applied(d, l) ==
  [d EXCEPT !.store[l.key] = l.val,
            !.dirty = @ \/ (~d.replaying /\ (l.val # NoValue \/ d.store[l.key] # NoValue))]

Appended_Replaces(d, l) ==   \* mutant: logBuffer = line, for +=
  IF d.open THEN [d EXCEPT !.buffer = <<l>>] ELSE d

(* Log::appendCommand.                                                     *)
Appended(d, l) == IF d.open THEN [d EXCEPT !.buffer = Append(@, l)] ELSE d

Step(t) ==
  /\ at[t].pc = "run"
  /\ Live(at[t].obj)
  /\ LET o == at[t].obj
         m == Head(at[t].todo) IN
       obj' = [obj EXCEPT ![o] = IF m.do = "apply" THEN Applied(@, m.line)
                                 ELSE Appended(@, m.line)]
  /\ Goto(t, IF Len(at[t].todo) = 1 THEN Idle ELSE [at[t] EXCEPT !.todo = Tail(@)])
  /\ UNCHANGED <<running, db, aof, history>>

(* DB::clearData: the table first, then the files, by what their paths     *)
(* name; other threads and the flusher go on between the two.              *)
Clear(t) ==
  /\ Ready(t)
  /\ obj' = [obj EXCEPT ![db].store = NoKeys]
  /\ Goto(t, [pc |-> "clear", obj |-> db, call |-> "clear", to |-> NoName])
  /\ unsure' = [unsure EXCEPT ![obj[db].name] =
                  IF \E u \in DOMAIN at : Busy(u) THEN Key ELSE Mentioned(DOMAIN at)]
  /\ UNCHANGED <<running, db, aof, left>>

Doubted(d) == {l.key : l \in ToSet(d.buffer)}

ClearFiles_NotAof(t) ==   \* mutant: only the .db file is truncated
  LET d == obj[at[t].obj] IN
  /\ at[t].pc = "clear"
  /\ Live(at[t].obj)
  /\ unsure' = [unsure EXCEPT ![d.name] = @ \cup Doubted(d)]
  /\ Goto(t, Idle)
  /\ UNCHANGED <<running, db, obj, aof, left>>

(* What waits in the buffer is written behind the truncation.              *)
ClearFiles(t) ==
  LET d == obj[at[t].obj] IN
  /\ at[t].pc = "clear"
  /\ Live(at[t].obj)
  /\ aof' = [aof EXCEPT ![d.name] = <<>>]
  /\ unsure' = [unsure EXCEPT ![d.name] = @ \cup Doubted(d)]
  /\ Goto(t, Idle)
  /\ UNCHANGED <<running, db, obj, left>>

(* The flusher of object o.                                                *)
Written(o) ==
  IF obj[o].file = NoName THEN aof
  ELSE [aof EXCEPT ![obj[o].file] = @ \o obj[o].buffer]

Flush(o) ==
  /\ Live(o)
  /\ obj[o].open
  /\ obj[o].buffer # <<>>
  /\ aof' = Written(o)
  /\ obj' = [obj EXCEPT ![o].buffer = <<>>]
  /\ UNCHANGED <<running, db, at, history>>
-----------------------------------------------------------------------------
(* shutdown(), called by use (call "use"), by quit, by ~Server ("server"), *)
(* and by ~DB of a DB that use replaced ("replaced") or of ~Server's       *)
(* member ("member").                                                      *)
Shutdown(t, call, x) ==
  /\ Goto(t, [pc |-> "close", obj |-> db, call |-> call, to |-> x])
  /\ unsure' = [y \in Name |-> unsure[y] \cup
                  IF Shared(y) THEN Mentioned(DOMAIN at) ELSE {}]
  /\ UNCHANGED <<db, obj, aof, left>>

Use_ConstructsFirst(t, x) ==   \* mutant: the old DB is left to its destructor
  /\ Ready(t)
  /\ Goto(t, [pc |-> "construct", obj |-> NoObj, call |-> "use", to |-> x])
  /\ unsure' = [y \in Name |-> unsure[y] \cup
                  IF Shared(y) THEN Mentioned(DOMAIN at) ELSE {}]
  /\ UNCHANGED <<running, db, obj, aof, left>>

Use(t, x) ==
  /\ Ready(t)
  /\ Shutdown(t, "use", x)
  /\ UNCHANGED running

Quit(t) ==
  /\ Ready(t)
  /\ Shutdown(t, "quit", NoName)
  /\ running' = FALSE

Exit ==
  /\ db # NoObj
  /\ at[Main].pc = "idle"
  /\ Shutdown(Main, "server", NoName)
  /\ running' = FALSE

CloseLog(t) ==
  LET o == at[t].obj IN
  /\ at[t].pc = "close"
  /\ Live(o)
  /\ aof' = Written(o)
  /\ obj' = [obj EXCEPT ![o].buffer = <<>>, ![o].open = FALSE, ![o].file = NoName]
  /\ Goto(t, [at[t] EXCEPT !.pc = "compact"])
  /\ UNCHANGED <<running, db, history>>

Stored(d) == {k \in Key : d.store[k] # NoValue}

Dumps_Short(d) ==   \* mutant: the last line is not written
  {[i \in 1..(Len(ks) - 1) |-> PutLine(ks[i], d.store[ks[i]])] :
     ks \in SetToSeqs(Stored(d))}

Dumps(d) ==
  {[i \in DOMAIN ks |-> PutLine(ks[i], d.store[ks[i]])] : ks \in SetToSeqs(Stored(d))}

(* The temporary file's name is made from a name that may be gone.         *)
TempNames(d) ==
  IF d.borrowed THEN {Temp[x] : x \in Name} \cup {NoName} ELSE {Temp[d.name]}

(* The file of path tmp becomes that of path x.                            *)
Relinked(d, tmp, x) ==
  IF d = Freed \/ tmp = x THEN d
  ELSE [d EXCEPT !.file = IF @ = x THEN NoName ELSE IF @ = tmp /\ tmp # NoName THEN x ELSE @]

(* An empty table is not written, also when it has become empty.           *)
CompactLog(t) ==
  LET o == at[t].obj
      d == obj[o] IN
  /\ at[t].pc = "compact"
  /\ Live(o)
  /\ \/ /\ ~d.dirty
        /\ UNCHANGED <<obj, aof, unsure>>
     \/ /\ d.dirty /\ Stored(d) = {}
        /\ unsure' = [unsure EXCEPT ![d.name] =
                        @ \cup {k \in Key : ~Recovers(aof[d.name], k, NoValue)}]
        /\ UNCHANGED <<obj, aof>>
     \/ /\ d.dirty /\ Stored(d) # {}
        /\ \E tmp \in TempNames(d), dump \in Dumps(d) :
             /\ aof' = [x \in Name |-> IF x = d.name THEN dump
                                       ELSE IF x = tmp THEN <<>> ELSE aof[x]]
             /\ obj' = [p \in Obj |-> Relinked(obj[p], tmp, d.name)]
        /\ UNCHANGED unsure
  /\ Goto(t, [at[t] EXCEPT !.pc = "snapshot"])
  /\ UNCHANGED <<running, db, left>>

(* The temporary file cannot be opened and rename throws, or LZ4 refuses   *)
(* the table and compress does: use answers with an error, quit ends its   *)
(* client's thread, and a destructor the process (Crash).                  *)
ShutdownThrows(t) ==
  LET d == obj[at[t].obj] IN
  /\ at[t].pc \in {"compact", "snapshot"}
  /\ Live(at[t].obj)
  /\ at[t].call \in {"use", "quit"}
  /\ Stored(d) # {}
  /\ at[t].pc = "compact" => d.dirty
  /\ Goto(t, Idle)
  /\ UNCHANGED <<running, db, obj, aof, history>>

(* The end of shutdown(), whether or not the .db file could be opened.     *)
(* Behind it, use constructs the new DB; ~DB frees its object, and behind  *)
(* ~Server the process ends.                                               *)
WriteSnapshot(t) ==
  LET o == at[t].obj
      x == obj[o].name
      call == at[t].call
      freed == [obj EXCEPT ![o] = Freed]
      last  == \A p \in Obj : freed[p].name # x
      leave == [left EXCEPT ![x] = IF last THEN {obj[o].store} ELSE @]
  IN
  /\ at[t].pc = "snapshot"
  /\ Live(o)
  /\ \/ /\ call = "quit"
        /\ Goto(t, Idle)
        /\ UNCHANGED <<db, obj, left>>
     \/ /\ call = "use"
        /\ Goto(t, [at[t] EXCEPT !.pc = "construct", !.obj = NoObj])
        /\ UNCHANGED <<db, obj, left>>
     \/ /\ call = "server"
        /\ Goto(t, [at[t] EXCEPT !.pc = "close", !.obj = db, !.call = "member"])
        /\ UNCHANGED <<db, obj, left>>
     \/ /\ call = "replaced"
        /\ Goto(t, Idle)
        /\ obj' = freed
        /\ left' = leave
        /\ UNCHANGED db
     \/ /\ call = "member"
        /\ at' = [u \in DOMAIN at |-> Idle]
        /\ db' = NoObj
        /\ obj' = [p \in Obj |-> Freed]
        /\ left' = leave
  /\ UNCHANGED <<running, aof, unsure>>
-----------------------------------------------------------------------------
(* make_unique<DB>(tokens[1]).                                             *)
Construct(t) ==
  LET x == at[t].to IN
  /\ at[t].pc = "construct"
  /\ \E o \in Obj :
       /\ ~Live(o) /\ Inside(o) = {}
       /\ \E d \in Constructed(x, TRUE) : obj' = [obj EXCEPT ![o] = d]
       /\ Goto(t, [at[t] EXCEPT !.pc = "swap", !.obj = o])
  /\ left' = [left EXCEPT ![x] = {}]
  /\ unsure' = IF Shared(x) THEN unsure ELSE [unsure EXCEPT ![x] = {}]
  /\ UNCHANGED <<running, db, aof>>

(* Its AOF cannot be opened: the constructor throws and use reports it.    *)
UseFails(t) ==
  /\ at[t].pc = "construct"
  /\ Goto(t, Idle)
  /\ UNCHANGED <<running, db, obj, aof, history>>

(* The assignment to db: the pointer first, then the old DB's destructor.  *)
Swap(t) ==
  /\ at[t].pc = "swap"
  /\ db' = at[t].obj
  /\ Goto(t, [at[t] EXCEPT !.pc = "close", !.obj = db, !.call = "replaced"])
  /\ UNCHANGED <<running, obj, aof, history>>

(* The process is killed, or fails.  A thread whose DB has been freed has  *)
(* no other step: what it would do is undefined.                           *)
Crash ==
  /\ db # NoObj
  /\ running' = FALSE
  /\ db' = NoObj
  /\ obj' = [o \in Obj |-> Freed]
  /\ at' = [t \in DOMAIN at |-> Idle]
  /\ UNCHANGED <<aof, history>>
-----------------------------------------------------------------------------
Command(t) ==
  \/ \E k \in Key, v \in Value : Single(t, PutLine(k, v))
  \/ \E k \in Key : Single(t, DelLine(k))
  \/ \E j, k \in Key, v, w \in Value : Multi(t, <<PutLine(j, v), PutLine(k, w)>>)
  \/ \E j, k \in Key : Multi(t, <<DelLine(j), DelLine(k)>>)
  \/ Clear(t)
  \/ \E x \in Name : Use(t, x)
  \/ Quit(t)

Proceed(t) ==
  \/ Step(t)
  \/ ClearFiles(t)
  \/ CloseLog(t)
  \/ CompactLog(t)
  \/ ShutdownThrows(t)
  \/ WriteSnapshot(t)
  \/ Construct(t)
  \/ UseFails(t)
  \/ Swap(t)

Next ==
  \/ \E x \in Name : Start(x)
  \/ \E t \in Thread : Command(t)
  \/ Exit
  \/ \E t \in Thread \cup {Main} : Proceed(t)
  \/ \E o \in Obj : Flush(o)
  \/ Crash

Spec == Init /\ [][Next]_vars
-----------------------------------------------------------------------------
Call == [pc : {"idle"}]
   \cup [pc : {"run"}, obj : Obj, todo : Seq(Micro)]
   \cup [pc : {"clear", "close", "compact", "snapshot", "construct", "swap"},
         obj : Obj \cup {NoObj}, to : Name \cup {NoName},
         call : {"clear", "use", "quit", "server", "replaced", "member"}]

DB == [name : Name, store : Content, replaying : BOOLEAN, dirty : BOOLEAN,
       open : BOOLEAN, file : Name \cup {NoName}, buffer : Seq(Line),
       borrowed : BOOLEAN]

TypeOK ==
  /\ running \in BOOLEAN
  /\ db \in Obj \cup {NoObj}
  /\ obj \in [Obj -> DB \cup {Freed}]
  /\ at \in [Thread \cup {Main} -> Call]
  /\ aof \in [Name -> Seq(Line)]
  /\ left \in [Name -> SUBSET Content]
  /\ unsure \in [Name -> SUBSET Key]

(* However the steps of several clients interleave on one DB, its log and  *)
(* its table can differ only about keys that two of them changed at the    *)
(* same time, or that were changed while the DB was being replaced, shut   *)
(* down or cleared, or while it took itself to be replaying.               *)
OnlyOverlapsDisagree ==
  \A o \in Obj :
    Live(o) /\ Inside(o) = {} /\ obj[o].open /\ obj[o].file = obj[o].name =>
      \A k \in Key \ unsure[obj[o].name] :
        Recovers(aof[obj[o].name] \o obj[o].buffer, k, obj[o].store[k])

(* A keyspace that has been left by use or by the end of the server is     *)
(* kept: whatever other keyspaces go through, a load of its AOF gives what *)
(* its last DB held, also when that DB had lost its log to a failed use, a *)
(* quit or a rename.  In doubt are, besides the keys of overlapping calls, *)
(* those that an empty table leaves in an AOF it does not compact.         *)
LeftMeansKept ==
  \A x \in Name :
    \A store \in left[x], k \in Key \ unsure[x] : Recovers(aof[x], k, store[k])

(* No two DB objects append to one file.                                   *)
OneWriterPerAof ==
  \A o, p \in Obj :
    o # p /\ Live(o) /\ Live(p) /\ obj[o].open /\ obj[p].open =>
      obj[o].file = NoName \/ obj[o].file # obj[p].file
-----------------------------------------------------------------------------
Quiet == \A t \in DOMAIN at : at[t].pc = "idle"

(* "may potentially lose data ... if the buffer is not flushed" (docs.md): *)
(* when it has been flushed, a crash loses no stored value.                *)
FlushedIsDurable ==
  Quiet /\ db # NoObj /\ obj[db].open /\ ~obj[db].replaying /\ obj[db].buffer = <<>> =>
    \A k \in Stored(obj[db]) : Recovers(aof[obj[db].name], k, obj[db].store[k])

(* AOFs "append the mutable query commands ... entered during runtime"     *)
(* (docs.md): a server that nobody told to stop has a log to append to.    *)
ServingMeansLogging == Quiet /\ running => obj[db].open

(* "Dispatch incoming commands from client to DB, and then return a        *)
(* response" (server.cpp, dispatcher): the DB is there until it returns.   *)
CallsHaveADB ==
  \A t \in DOMAIN at : at[t].pc \notin {"idle", "construct"} => Live(at[t].obj)
=============================================================================
