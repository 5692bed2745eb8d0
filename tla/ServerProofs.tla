---------------------------- MODULE ServerProofs -----------------------------
(***************************************************************************)
(* Proofs about Server for any client threads, keyspaces, keys, values and *)
(* number of DB objects: the types; one thread means one writer; table and *)
(* log of the DB in use agree about every key that no two overlapping      *)
(* calls have changed; and a keyspace that has been left is kept.          *)
(***************************************************************************)
EXTENDS Server, AofProofs, FiniteSetTheorems

Caller == Thread \cup {Main}

(* What a thread may be doing when it holds an object: a DB that is going  *)
(* to be swapped in is its own, one that has been swapped out is no longer *)
(* the server's.                                                           *)
Holds(t) ==
  /\ at[t].pc = "run" => at[t].todo # <<>>
  /\ at[t].pc = "clear" => at[t].call = "clear"
  /\ at[t].pc \in {"construct", "swap"} => at[t].call = "use"
  /\ Busy(t) /\ at[t].call = "use" => at[t].to \in Name
  /\ Busy(t) /\ at[t].call = "replaced" => at[t].obj # db
  /\ at[t].pc = "swap" =>
       /\ Live(at[t].obj) /\ at[t].obj # db
       /\ \A u \in Caller : u # t => at[u].pc = "idle" \/ at[u].obj # at[t].obj

(* Without a process there is neither an object nor a call.                *)
NoProcess ==
  /\ \A o \in Obj : obj[o] = Freed
  /\ \A t \in Caller : at[t] = Idle

ObjectInv ==
  /\ db # NoObj => Live(db)
  /\ db = NoObj => NoProcess
  /\ \A t \in Caller : Holds(t)

TypeInv == TypeOK /\ ObjectInv
-----------------------------------------------------------------------------
(* A DB is not the freed object.                                           *)
LEMMA DBIsLive ==
  /\ Freed \notin DB
  /\ \A d \in DB : d.name \in Name /\ d.name # NoName /\ d # Freed
BY NamesAssumption DEF Freed, DB

(* The objects that live are DBs.                                          *)
LEMMA LiveIsDB ==
  ASSUME TypeOK, NEW o
  PROVE  Live(o) <=> o \in Obj /\ obj[o] \in DB
BY DBIsLive DEF TypeOK, Live

(* The call of a thread, by its position.                                  *)
LEMMA CallCases ==
  ASSUME TypeOK, NEW t \in Caller
  PROVE  /\ at[t] \in Call
         /\ at[t].pc = "run" => at[t].obj \in Obj /\ at[t].todo \in Seq(Micro)
         /\ Busy(t) => /\ at[t].pc \in {"clear", "close", "compact", "snapshot",
                                         "construct", "swap"}
                       /\ at[t].obj \in Obj \cup {NoObj} /\ at[t].to \in Name \cup {NoName}
                       /\ at[t].call \in {"clear", "use", "quit", "server", "replaced", "member"}
BY DEF TypeOK, Call, Busy, Caller

(* A constructed DB: replaying any AOF leaves each key some value.         *)
LEMMA ConstructedType ==
  ASSUME TypeOK, NEW x \in Name, NEW borrowed \in BOOLEAN, NEW d \in Constructed(x, borrowed)
  PROVE  /\ d \in DB
         /\ d.name = x /\ d.file = x /\ d.open = TRUE /\ d.buffer = <<>> /\ d.dirty = FALSE
         /\ \A k \in Key : Recovers(aof[x], k, d.store[k])
<1>1. aof[x] \in Seq(Line) /\ Len(aof[x]) \in Nat
  <2>1. aof[x] \in Seq(Line)
    BY DEF TypeOK
  <2> QED  BY <2>1
<1>2. ASSUME NEW k \in Key
      PROVE  \E v \in Value \cup {NoValue} : Recovers(aof[x], k, v)
  <2>1. PICK v : Leaves(NoValue, aof[x], k, v)
    BY <1>1, LeavesSome
  <2>2. \A i \in 1..Len(aof[x]) : aof[x][i].val \in Value \cup {NoValue}
    <3>1. \A l \in Line : l.val \in Value \cup {NoValue}
      BY DEF Line
    <3> QED  BY <1>1, <3>1
  <2>3. v \in Value \cup {NoValue}
    BY <2>1, <2>2 DEF Leaves
  <2> QED  BY <2>1, <2>3 DEF Recovers
<1>3. Replayed(aof[x]) \in Content
      /\ \A k \in Key : Recovers(aof[x], k, Replayed(aof[x])[k])
  BY <1>2 DEF Replayed, Content
<1>4. PICK r \in BOOLEAN :
        d = [name |-> x, store |-> Replayed(aof[x]), replaying |-> r, dirty |-> FALSE,
             open |-> TRUE, file |-> x, buffer |-> <<>>, borrowed |-> borrowed]
  BY DEF Constructed
<1>5. <<>> \in Seq(Line)
  OBVIOUS
<1> QED  BY <1>3, <1>4, <1>5 DEF DB

(* The lines that compaction writes.                                       *)
LEMMA DumpType ==
  ASSUME NEW d \in DB, NEW dump \in Dumps(d)
  PROVE  dump \in Seq(Line)
<1>1. IsFiniteSet(Stored(d))
  BY KeyAssumption, FS_Subset DEF Stored
<1>2. Cardinality(Stored(d)) \in Nat
  BY <1>1, FS_CardinalityType
<1>3. PICK ks \in SetToSeqs(Stored(d)) :
        dump = [i \in DOMAIN ks |-> PutLine(ks[i], d.store[ks[i]])]
  BY DEF Dumps
<1>4. ks \in [1..Cardinality(Stored(d)) -> Stored(d)]
  BY <1>3 DEF SetToSeqs
<1>5. \A k \in Stored(d) : PutLine(k, d.store[k]) \in Line
  BY DEF Stored, PutLine, Line, DB, Content
<1>6. /\ DOMAIN ks = 1..Cardinality(Stored(d))
      /\ \A i \in 1..Cardinality(Stored(d)) : PutLine(ks[i], d.store[ks[i]]) \in Line
  BY <1>4, <1>5
<1> QED  BY <1>2, <1>3, <1>6

(* What the steps of a command make of a DB.                               *)
LEMMA AppliedType ==
  ASSUME NEW d \in DB, NEW l \in Line
  PROVE  /\ Applied(d, l) \in DB
         /\ Applied(d, l).name = d.name /\ Applied(d, l).open = d.open
         /\ Applied(d, l).file = d.file /\ Applied(d, l).buffer = d.buffer
         /\ Applied(d, l).store = [d.store EXCEPT ![l.key] = l.val]
<1>1. [d.store EXCEPT ![l.key] = l.val] \in Content
  BY DEF DB, Content, Line
<1>2. (d.dirty \/ (~d.replaying /\ (l.val # NoValue \/ d.store[l.key] # NoValue))) \in BOOLEAN
  OBVIOUS
<1> QED  BY <1>1, <1>2 DEF Applied, DB

(* appendCommand leaves a DB, whose table is as before.                    *)
LEMMA AppendedType ==
  ASSUME NEW d \in DB, NEW l \in Line
  PROVE  /\ Appended(d, l) \in DB
         /\ Appended(d, l).name = d.name /\ Appended(d, l).open = d.open
         /\ Appended(d, l).file = d.file /\ Appended(d, l).store = d.store
         /\ Appended(d, l).buffer = IF d.open THEN Append(d.buffer, l) ELSE d.buffer
<1>1. Append(d.buffer, l) \in Seq(Line)
  BY DEF DB
<1> QED  BY <1>1 DEF Appended, DB

(* A renamed file leaves a DB what it is but for its file.                 *)
LEMMA RelinkedType ==
  ASSUME NEW d \in DB \cup {Freed}, NEW tmp \in Name \cup {NoName}, NEW x \in Name
  PROVE  /\ Relinked(d, tmp, x) \in DB \cup {Freed}
         /\ Relinked(d, tmp, x) = Freed <=> d = Freed
         /\ d # Freed => /\ Relinked(d, tmp, x).name = d.name
                         /\ Relinked(d, tmp, x).open = d.open
                         /\ Relinked(d, tmp, x).store = d.store
                         /\ Relinked(d, tmp, x).buffer = d.buffer
                         /\ Relinked(d, tmp, x).dirty = d.dirty
<1>1. CASE d = Freed
  BY <1>1 DEF Relinked
<1>2. CASE d \in DB
  <2>1. (IF d.file = x THEN NoName ELSE IF d.file = tmp /\ tmp # NoName THEN x ELSE d.file)
          \in Name \cup {NoName}
    BY <1>2 DEF DB
  <2>2. [d EXCEPT !.file = IF @ = x THEN NoName ELSE IF @ = tmp /\ tmp # NoName THEN x ELSE @]
          \in DB
    BY <1>2, <2>1 DEF DB
  <2> QED  BY <1>2, <2>2, DBIsLive DEF Relinked, DB
<1> QED  BY <1>1, <1>2
-----------------------------------------------------------------------------
(* At the start there is no process.                                       *)
LEMMA TypeInit == Init => TypeInv
<1> SUFFICES ASSUME Init PROVE TypeInv
  OBVIOUS
<1>1. /\ obj \in [Obj -> DB \cup {Freed}]
      /\ at \in [Thread \cup {Main} -> Call]
      /\ aof \in [Name -> Seq(Line)]
      /\ left \in [Name -> SUBSET Content]
      /\ unsure \in [Name -> SUBSET Key]
  <2>1. Idle \in Call
    BY DEF Idle, Call
  <2>2. <<>> \in Seq(Line)
    OBVIOUS
  <2> QED  BY <2>1, <2>2 DEF Init
<1>2. running \in BOOLEAN
  BY Zenon DEF Init
<1>3. NoProcess
  BY DEF Init, NoProcess, Caller
<1>4. \A t \in Caller : at[t] = Idle
  BY <1>3 DEF NoProcess
<1>5. \A t \in Caller : Holds(t)
  BY <1>4 DEF Holds, Busy, Idle
<1> QED  BY <1>1, <1>2, <1>3, <1>5 DEF Init, TypeInv, TypeOK, ObjectInv

(* What a call may become that does not wait to be swapped in.             *)
Fits(t, call) ==
  /\ call \in Call
  /\ call.pc = "run" => call.todo # <<>>
  /\ call.pc # "swap"
  /\ call.pc = "clear" => call.call = "clear"
  /\ call.pc = "construct" => call.call = "use"
  /\ call.pc \notin {"idle", "run"} /\ call.call = "use" => call.to \in Name
  /\ call.pc \notin {"idle", "run"} /\ call.call = "replaced" => call.obj # db
  /\ call.pc = "idle" \/ call.obj \in {db, NoObj}
       \/ (call.obj = at[t].obj /\ at[t].pc # "idle")

(* The other threads' calls do not notice it, as long as their DBs live.   *)
LEMMA FitsKeeps ==
  ASSUME TypeInv, NEW t \in Caller, NEW call, Fits(t, call), Goto(t, call),
         db' = db, db # NoObj, obj' \in [Obj -> DB \cup {Freed}],
         \A o \in Obj : obj[o] # Freed => obj'[o] # Freed
  PROVE  /\ at' \in [Thread \cup {Main} -> Call]
         /\ ObjectInv'
<1>1. /\ at \in [Caller -> Call]
      /\ at' = [at EXCEPT ![t] = call]
  BY DEF TypeInv, TypeOK, Goto, Caller
<1>2. at' \in [Caller -> Call]
  BY <1>1 DEF Fits
<1>3. ASSUME NEW u \in Caller, u # t PROVE Holds(u)'
  <2>1. at'[u] = at[u] /\ Holds(u)
    BY <1>1, <1>3 DEF TypeInv, ObjectInv
  <2>2. CASE at[u].pc = "swap"
    <3>1. Live(at[u].obj) /\ at[u].obj # db
          /\ \A v \in Caller : v # u => at[v].pc = "idle" \/ at[v].obj # at[u].obj
      BY <2>1, <2>2 DEF Holds
    <3>2. at[u].obj \in Obj /\ obj'[at[u].obj] # Freed
      BY <3>1 DEF Live
    <3>3. at[u].obj # NoObj
      BY <3>2, NamesAssumption
    <3>4. call.pc = "idle" \/ call.obj # at[u].obj
      BY <3>1, <3>3, <1>3 DEF Fits
    <3>5. \A v \in Caller : v # u => at'[v].pc = "idle" \/ at'[v].obj # at[u].obj
      BY <1>1, <3>1, <3>4
    <3> QED  BY <2>1, <2>2, <3>1, <3>2, <3>5 DEF Holds, Live, Busy
  <2>3. CASE at[u].pc # "swap"
    BY <2>1, <2>3 DEF Holds, Busy
  <2> QED  BY <2>2, <2>3
<1>4. Holds(t)'
  <2>1. at'[t] = call
    BY <1>1
  <2> QED  BY <2>1 DEF Holds, Fits, Busy
<1>5. Live(db)'
  BY DEF TypeInv, ObjectInv, Live
<1> QED  BY <1>2, <1>3, <1>4, <1>5 DEF ObjectInv, Caller

(* Nor do they notice what happens to the content of a DB.                 *)
LEMMA ContentKeeps ==
  ASSUME TypeInv, UNCHANGED <<db, at>>, db # NoObj,
         \A o \in Obj : obj[o] # Freed => obj'[o] # Freed
  PROVE  ObjectInv'
<1>1. ASSUME NEW t \in Caller PROVE Holds(t)'
  <2>1. Holds(t)
    BY DEF TypeInv, ObjectInv
  <2>2. Live(at[t].obj) => Live(at[t].obj)'
    BY DEF Live
  <2> QED  BY <2>1, <2>2 DEF Holds, Busy
<1>2. Live(db)'
  BY DEF TypeInv, ObjectInv, Live
<1> QED  BY <1>1, <1>2 DEF ObjectInv

(* A thread that is in a call has a server.                                *)
LEMMA CallsNeedServer ==
  ASSUME TypeInv, NEW t \in Caller, at[t].pc # "idle"
  PROVE  db # NoObj /\ db \in Obj /\ obj[db] \in DB
<1>1. db # NoObj
  BY DEF TypeInv, ObjectInv, NoProcess, Idle
<1>2. Live(db)
  BY <1>1 DEF TypeInv, ObjectInv
<1> QED  BY <1>1, <1>2, LiveIsDB DEF TypeInv
-----------------------------------------------------------------------------
(* The steps that a command makes are a sequence of micro-steps.           *)
LEMMA MicrosType ==
  ASSUME NEW do \in {"apply", "append"}, NEW ls \in Seq(Line)
  PROVE  /\ Micros(do, ls) \in Seq(Micro) /\ Len(Micros(do, ls)) = Len(ls)
         /\ \A i \in 1..Len(ls) : Micros(do, ls)[i] = [do |-> do, line |-> ls[i]]
<1>1. \A i \in 1..Len(ls) : [do |-> do, line |-> ls[i]] \in Micro
  BY DEF Micro
<1>2. Micros(do, ls) = [i \in 1..Len(ls) |-> [do |-> do, line |-> ls[i]]]
  BY DEF Micros
<1>3. Len(ls) \in Nat
  OBVIOUS
<1> QED  BY <1>1, <1>2, <1>3

(* The micro-steps of single commands and of multi commands.               *)
SingleTodo(l, replaying) ==
  Micros("apply", <<l>>) \o (IF replaying THEN <<>> ELSE Micros("append", <<l>>))

MultiTodo(ls) == Micros("append", ls) \o Micros("apply", ls)

(* How the micro-steps of two sequences lie in their concatenation.        *)
LEMMA MicroIndices ==
  ASSUME NEW s \in Seq(Micro), NEW t \in Seq(Micro)
  PROVE  /\ s \o t \in Seq(Micro) /\ Len(s \o t) = Len(s) + Len(t)
         /\ \A i \in 1..Len(s) : (s \o t)[i] = s[i]
         /\ \A i \in 1..Len(t) : (s \o t)[Len(s) + i] = t[i]
OBVIOUS

(* One step for the table and, unless the DB replays, one for the log.     *)
LEMMA SingleTodoIs ==
  ASSUME NEW l \in Line, NEW replaying
  PROVE  LET todo == SingleTodo(l, replaying) IN
         /\ todo \in Seq(Micro) /\ Len(todo) = (IF replaying THEN 1 ELSE 2)
         /\ todo[1] = [do |-> "apply", line |-> l]
         /\ ~replaying => todo[2] = [do |-> "append", line |-> l]
<1>1. PICK ls \in Seq(Line) : ls = <<l>> /\ Len(ls) = 1 /\ ls[1] = l
  <2>1. <<l>> \in Seq(Line) /\ Len(<<l>>) = 1 /\ <<l>>[1] = l
    OBVIOUS
  <2> QED  BY <2>1, Zenon
<1> DEFINE a == Micros("apply", ls)
           c == Micros("append", ls)
           b == IF replaying THEN <<>> ELSE c
<1>0. /\ a \in Seq(Micro) /\ Len(a) = Len(ls)
      /\ \A i \in 1..Len(ls) : a[i] = [do |-> "apply", line |-> ls[i]]
      /\ c \in Seq(Micro) /\ Len(c) = Len(ls)
      /\ \A i \in 1..Len(ls) : c[i] = [do |-> "append", line |-> ls[i]]
  BY MicrosType, Zenon
<1>4. PICK s : s = SingleTodo(l, replaying)
  OBVIOUS
<1>5. s = a \o b
  BY <1>1, <1>4, Zenon DEF SingleTodo
<1> HIDE DEF a, c
<1>2. a \in Seq(Micro) /\ Len(a) = 1 /\ a[1] = [do |-> "apply", line |-> l]
  BY <1>0, <1>1
<1>3. /\ b \in Seq(Micro) /\ Len(b) = (IF replaying THEN 0 ELSE 1)
      /\ ~replaying => b[1] = [do |-> "append", line |-> l]
  <2>1. <<>> \in Seq(Micro) /\ Len(<<>>) = 0
    OBVIOUS
  <2>2. c[1] = [do |-> "append", line |-> l] /\ Len(c) = 1
    BY <1>0, <1>1
  <2>3. replaying => b = <<>>
    OBVIOUS
  <2>4. ~replaying => b = c
    OBVIOUS
  <2> HIDE DEF b
  <2>5. CASE replaying
    <3>1. b = <<>>
      BY <2>3, <2>5
    <3>2. b \in Seq(Micro) /\ Len(b) = 0
      BY <2>1, <3>1
    <3> QED  BY <2>5, <3>2, Zenon
  <2>6. CASE ~replaying
    BY <1>0, <2>2, <2>4, <2>6, Zenon
  <2> QED  BY <2>5, <2>6
<1> HIDE DEF b
<1>6. /\ s \in Seq(Micro) /\ Len(s) = Len(a) + Len(b)
      /\ \A i \in 1..Len(a) : s[i] = a[i]
      /\ \A i \in 1..Len(b) : s[Len(a) + i] = b[i]
  BY <1>2, <1>3, <1>5, MicroIndices, Zenon
<1>7. s[1] = a[1] /\ ~replaying => s[2] = b[1]
  BY <1>2, <1>3, <1>6
<1>8. s[1] = a[1]
  BY <1>2, <1>6
<1>9. Len(s) = (IF replaying THEN 1 ELSE 2)
  BY <1>2, <1>3, <1>6
<1> QED  BY <1>2, <1>3, <1>4, <1>6, <1>7, <1>8, <1>9

(* First the lines, then the table.                                        *)
LEMMA MultiTodoIs ==
  ASSUME NEW l \in Line, NEW m \in Line
  PROVE  LET todo == MultiTodo(<<l, m>>) IN
         /\ todo \in Seq(Micro) /\ Len(todo) = 4
         /\ todo[1] = [do |-> "append", line |-> l]
         /\ todo[2] = [do |-> "append", line |-> m]
         /\ todo[3] = [do |-> "apply", line |-> l]
         /\ todo[4] = [do |-> "apply", line |-> m]
<1>1. PICK ls \in Seq(Line) : ls = <<l, m>> /\ Len(ls) = 2 /\ ls[1] = l /\ ls[2] = m
  <2>1. <<l, m>> \in Seq(Line) /\ Len(<<l, m>>) = 2 /\ <<l, m>>[1] = l /\ <<l, m>>[2] = m
    OBVIOUS
  <2> QED  BY <2>1, Zenon
<1> DEFINE a == Micros("append", ls)
           b == Micros("apply", ls)
<1>0. /\ a \in Seq(Micro) /\ Len(a) = Len(ls)
      /\ \A i \in 1..Len(ls) : a[i] = [do |-> "append", line |-> ls[i]]
      /\ b \in Seq(Micro) /\ Len(b) = Len(ls)
      /\ \A i \in 1..Len(ls) : b[i] = [do |-> "apply", line |-> ls[i]]
  BY MicrosType, Zenon
<1>4. PICK s : s = MultiTodo(<<l, m>>)
  OBVIOUS
<1>5. s = a \o b
  BY <1>1, <1>4, Zenon DEF MultiTodo
<1> HIDE DEF a, b
<1>9. 1 \in 1..Len(ls) /\ 2 \in 1..Len(ls)
  BY <1>1
<1>2. /\ a \in Seq(Micro) /\ Len(a) = 2
      /\ a[1] = [do |-> "append", line |-> l] /\ a[2] = [do |-> "append", line |-> m]
  BY <1>0, <1>1, <1>9, Zenon
<1>3. /\ b \in Seq(Micro) /\ Len(b) = 2
      /\ b[1] = [do |-> "apply", line |-> l] /\ b[2] = [do |-> "apply", line |-> m]
  BY <1>0, <1>1, <1>9, Zenon
<1>6. /\ s \in Seq(Micro) /\ Len(s) = Len(a) + Len(b)
      /\ \A i \in 1..Len(a) : s[i] = a[i]
      /\ \A i \in 1..Len(b) : s[Len(a) + i] = b[i]
  BY <1>2, <1>3, <1>5, MicroIndices, Zenon
<1>7. s[1] = a[1] /\ s[2] = a[2] /\ s[3] = b[1] /\ s[4] = b[2]
  BY <1>2, <1>3, <1>6
<1>8. Len(s) = 4
  BY <1>2, <1>3, <1>6
<1> QED  BY <1>2, <1>3, <1>4, <1>6, <1>7, <1>8

(* A command begins.                                                       *)
LEMMA RunType ==
  ASSUME TypeInv, NEW t \in Thread, NEW ls \in Seq(Line),
         NEW todo \in Seq(Micro), todo # <<>>, Run(t, ls, todo)
  PROVE  TypeInv'
<1> DEFINE call == [pc |-> "run", obj |-> db, todo |-> todo]
           touched == {ls[i].key : i \in DOMAIN ls}
<1>1. db \in Obj /\ db # NoObj
  BY DEF Run, Ready, TypeInv, TypeOK
<1>2. Fits(t, call)
  BY <1>1 DEF Fits, Call
<1>3. t \in Caller /\ Goto(t, call) /\ UNCHANGED <<running, db, obj, aof, left>>
  BY DEF Run, Caller
<1>4. obj' \in [Obj -> DB \cup {Freed}]
  BY <1>3 DEF TypeInv, TypeOK
<1>5. at' \in [Thread \cup {Main} -> Call] /\ ObjectInv'
  BY <1>1, <1>2, <1>3, <1>4, FitsKeeps
<1>6. touched \in SUBSET Key
  <2>1. \A i \in DOMAIN ls : ls[i] \in Line
    OBVIOUS
  <2> QED  BY <2>1 DEF Line
<1>7. unsure' \in [Name -> SUBSET Key]
  <2>1. PICK gone \in SUBSET touched, extra \in SUBSET touched :
          unsure' = [unsure EXCEPT ![obj[db].name] = (@ \ gone) \cup extra]
    <3> DEFINE logged == obj[db].open /\ obj[db].file = obj[db].name
               others == DOMAIN at \ {t}
               clash  == obj[db].replaying \/ \E u \in others : Busy(u)
               extra  == IF clash THEN touched ELSE touched \cap Mentioned(others)
    <3>1. unsure' = [unsure EXCEPT ![obj[db].name] =
                       (IF logged THEN @ \ touched ELSE @) \cup extra]
      BY DEF Run
    <3>2. extra \in SUBSET touched
      OBVIOUS
    <3> HIDE DEF extra, logged, touched
    <3>3. CASE logged
      BY <3>1, <3>2, <3>3
    <3>4. CASE ~logged
      <4>1. unsure' = [unsure EXCEPT ![obj[db].name] = (@ \ {}) \cup extra]
        BY <3>1, <3>4
      <4> QED  BY <3>2, <4>1
    <3> QED  BY <3>3, <3>4
  <2>2. unsure \in [Name -> SUBSET Key]
    BY DEF TypeInv, TypeOK
  <2> HIDE DEF touched
  <2> QED  BY <1>6, <2>1, <2>2
<1> QED  BY <1>3, <1>4, <1>5, <1>7 DEF TypeInv, TypeOK

(* put, del, mput and mdel begin.                                          *)
LEMMA CommandsType ==
  ASSUME TypeInv, NEW t \in Thread,
         \/ \E l \in Line : Single(t, l)
         \/ \E l, m \in Line : Multi(t, <<l, m>>)
  PROVE  TypeInv'
<1>1. ASSUME NEW l \in Line, Single(t, l) PROVE TypeInv'
  <2>1. ASSUME NEW r
        PROVE  SingleTodo(l, r) \in Seq(Micro) /\ Len(SingleTodo(l, r)) > 0
    <3>1. Len(SingleTodo(l, r)) = (IF r THEN 1 ELSE 2) /\ SingleTodo(l, r) \in Seq(Micro)
      BY SingleTodoIs, ZenonT(40)
    <3> QED  BY <3>1
  <2>2. \A r : SingleTodo(l, r) # <<>>
    BY <2>1
  <2>3. <<l>> \in Seq(Line) /\ Run(t, <<l>>, SingleTodo(l, obj[db].replaying))
    BY <1>1 DEF Single, SingleTodo
  <2> QED  BY <2>1, <2>2, <2>3, RunType
<1>2. ASSUME NEW l \in Line, NEW m \in Line, Multi(t, <<l, m>>) PROVE TypeInv'
  <2>1. MultiTodo(<<l, m>>) \in Seq(Micro) /\ Len(MultiTodo(<<l, m>>)) = 4
    BY MultiTodoIs, ZenonT(40)
  <2>2. MultiTodo(<<l, m>>) # <<>>
    BY <2>1, SMTT(30)
  <2>3. <<l, m>> \in Seq(Line) /\ Run(t, <<l, m>>, MultiTodo(<<l, m>>))
    BY <1>2 DEF Multi, MultiTodo
  <2> QED  BY <2>1, <2>2, <2>3, RunType
<1> QED  BY <1>1, <1>2

(* The keys of the commands that run are keys.                             *)
LEMMA MentionedType ==
  ASSUME NEW ts
  PROVE  Mentioned(ts) \in SUBSET Key
BY DEF Mentioned

(* What is left of a command's micro-steps after the first.                *)
LEMMA TailMicros ==
  ASSUME NEW s \in Seq(Micro), s # <<>>
  PROVE  /\ Len(s) \in Nat \ {0} /\ Head(s) = s[1] /\ Head(s) \in Micro
         /\ Tail(s) \in Seq(Micro) /\ Len(Tail(s)) = Len(s) - 1
         /\ \A i \in 1..(Len(s) - 1) : Tail(s)[i] = s[i + 1]
         /\ Len(s) # 1 => Tail(s) # <<>>
<1>1. Len(s) \in Nat \ {0} /\ Head(s) = s[1] /\ Head(s) \in Micro
  OBVIOUS
<1>2. PICK r : r = Tail(s)
  OBVIOUS
<1>3. /\ r \in Seq(Micro) /\ Len(r) = Len(s) - 1
      /\ \A i \in 1..(Len(s) - 1) : r[i] = s[i + 1]
  BY <1>1, <1>2
<1>4. Len(s) # 1 => r # <<>>
  BY <1>1, <1>3
<1> QED  BY <1>1, <1>2, <1>3, <1>4, Zenon

(* A micro-step of a command, while its DB lives.                          *)
LEMMA StepType ==
  ASSUME TypeInv, NEW t \in Caller, Step(t)
  PROVE  TypeInv'
<1> DEFINE o == at[t].obj
           m == Head(at[t].todo)
           call == IF Len(at[t].todo) = 1 THEN Idle ELSE [at[t] EXCEPT !.todo = Tail(@)]
<1>1. /\ o \in Obj /\ obj[o] \in DB /\ at[t].pc = "run"
      /\ at[t].todo \in Seq(Micro) /\ at[t].todo # <<>>
  BY CallCases, LiveIsDB DEF Step, TypeInv, ObjectInv, Holds
<1>2. m \in Micro /\ m.line \in Line
  <2>1. m \in Micro
    BY <1>1
  <2> QED  BY <2>1 DEF Micro
<1>3. /\ Tail(at[t].todo) \in Seq(Micro)
      /\ Len(at[t].todo) # 1 => Tail(at[t].todo) # <<>>
  BY <1>1, TailMicros, Zenon
<1>4. /\ call \in Call
      /\ call = Idle \/ (call.pc = "run" /\ call.obj = o /\ call.todo # <<>>)
  <2>1. Idle \in Call
    BY DEF Idle, Call
  <2>2. at[t] \in [pc : {"run"}, obj : Obj, todo : Seq(Micro)]
    BY <1>1, CallCases DEF TypeInv, Call
  <2>3. Len(at[t].todo) # 1 =>
          /\ [at[t] EXCEPT !.todo = Tail(@)] \in [pc : {"run"}, obj : Obj, todo : Seq(Micro)]
          /\ [at[t] EXCEPT !.todo = Tail(@)].todo # <<>>
          /\ [at[t] EXCEPT !.todo = Tail(@)].obj = o
    BY <1>3, <2>2
  <2>4. CASE Len(at[t].todo) = 1
    BY <2>1, <2>4
  <2>5. CASE Len(at[t].todo) # 1
    <3>1. call = [at[t] EXCEPT !.todo = Tail(@)]
      BY <2>5
    <3>2. call \in [pc : {"run"}, obj : Obj, todo : Seq(Micro)]
          /\ call.todo # <<>> /\ call.obj = o
      BY <2>3, <2>5, <3>1
    <3> HIDE DEF call
    <3> QED  BY <3>2 DEF Call
  <2> QED  BY <2>4, <2>5
<1>5. Fits(t, call)
  <2>1. call = Idle => call.pc = "idle"
    BY DEF Idle
  <2> HIDE DEF call
  <2> QED  BY <1>1, <1>4, <2>1 DEF Fits, Idle
<1>6. PICK d \in DB : obj' = [obj EXCEPT ![o] = d]
  <2>1. Applied(obj[o], m.line) \in DB /\ Appended(obj[o], m.line) \in DB
    BY <1>1, <1>2, AppliedType, AppendedType
  <2>2. obj' = [obj EXCEPT ![o] = IF m.do = "apply" THEN Applied(obj[o], m.line)
                                  ELSE Appended(obj[o], m.line)]
    BY DEF Step
  <2> QED  BY <2>1, <2>2
<1>7. /\ obj' \in [Obj -> DB \cup {Freed}]
      /\ \A p \in Obj : obj[p] # Freed => obj'[p] # Freed
  BY <1>1, <1>6, DBIsLive DEF TypeInv, TypeOK
<1>8. Goto(t, call) /\ UNCHANGED <<running, db, aof, history>>
  BY DEF Step
<1>9. db # NoObj
  BY <1>1, CallsNeedServer
<1> HIDE DEF call
<1>10. at' \in [Thread \cup {Main} -> Call] /\ ObjectInv'
  BY <1>5, <1>7, <1>8, <1>9, FitsKeeps
<1> QED  BY <1>7, <1>8, <1>10 DEF TypeInv, TypeOK, history

(* clear empties the table and goes on to the files.                       *)
LEMMA ClearType ==
  ASSUME TypeInv, NEW t \in Thread, Clear(t)
  PROVE  TypeInv'
<1> DEFINE call == [pc |-> "clear", obj |-> db, call |-> "clear", to |-> NoName]
<1>1. db # NoObj /\ db \in Obj /\ obj[db] \in DB /\ t \in Caller
  BY LiveIsDB DEF Clear, Ready, TypeInv, TypeOK, ObjectInv, Caller
<1>2. Fits(t, call)
  BY <1>1 DEF Fits, Call
<1>3. obj' = [obj EXCEPT ![db] = [@ EXCEPT !.store = NoKeys]]
  BY DEF Clear
<1>4. [obj[db] EXCEPT !.store = NoKeys] \in DB
  BY <1>1 DEF DB, Content, NoKeys
<1>5. /\ obj' \in [Obj -> DB \cup {Freed}]
      /\ \A p \in Obj : obj[p] # Freed => obj'[p] # Freed
  BY <1>1, <1>3, <1>4, DBIsLive DEF TypeInv, TypeOK
<1>6. Goto(t, call) /\ UNCHANGED <<running, db, aof, left>>
  BY DEF Clear
<1>7. at' \in [Thread \cup {Main} -> Call] /\ ObjectInv'
  BY <1>1, <1>2, <1>5, <1>6, FitsKeeps
<1>8. unsure' \in [Name -> SUBSET Key]
  <2>1. Mentioned(DOMAIN at) \in SUBSET Key
    <3>1. DOMAIN at \in SUBSET Caller
      BY DEF TypeInv, TypeOK, Caller
    <3> QED  BY <3>1, MentionedType
  <2>2. PICK K \in SUBSET Key : unsure' = [unsure EXCEPT ![obj[db].name] = K]
    BY <2>1 DEF Clear
  <2> QED  BY <2>2 DEF TypeInv, TypeOK
<1> QED  BY <1>5, <1>6, <1>7, <1>8 DEF TypeInv, TypeOK

(* The keys that a buffer speaks of are keys.                              *)
LEMMA DoubtedType ==
  ASSUME NEW d \in DB
  PROVE  Doubted(d) \in SUBSET Key
<1>1. d.buffer \in Seq(Line)
  BY DEF DB
<1>2. \A l \in ToSet(d.buffer) : l \in Line
  BY <1>1 DEF ToSet
<1> QED  BY <1>2 DEF Line, Doubted

(* clear truncates the files.                                              *)
LEMMA ClearFilesType ==
  ASSUME TypeInv, NEW t \in Caller, ClearFiles(t)
  PROVE  TypeInv'
<1> DEFINE o == at[t].obj
<1>1. o \in Obj /\ obj[o] \in DB /\ at[t].pc = "clear"
  BY LiveIsDB DEF ClearFiles, TypeInv
<1>2. Goto(t, Idle) /\ UNCHANGED <<running, db, obj, left>>
  BY DEF ClearFiles
<1>3. Fits(t, Idle)
  BY DEF Fits, Idle, Call
<1>4. /\ obj' \in [Obj -> DB \cup {Freed}]
      /\ \A p \in Obj : obj[p] # Freed => obj'[p] # Freed
  BY <1>2 DEF TypeInv, TypeOK
<1>5. db # NoObj
  BY <1>1, CallsNeedServer
<1>6. at' \in [Thread \cup {Main} -> Call] /\ ObjectInv'
  BY <1>2, <1>3, <1>4, <1>5, FitsKeeps
<1>7. aof' \in [Name -> Seq(Line)]
  <2>1. <<>> \in Seq(Line)
    OBVIOUS
  <2> QED  BY <2>1 DEF ClearFiles, TypeInv, TypeOK
<1>8. unsure' \in [Name -> SUBSET Key]
  <2>1. Doubted(obj[o]) \in SUBSET Key
    BY <1>1, DoubtedType
  <2> QED  BY <2>1 DEF ClearFiles, TypeInv, TypeOK
<1> QED  BY <1>2, <1>4, <1>6, <1>7, <1>8 DEF TypeInv, TypeOK

(* What the flusher appends are lines.                                     *)
LEMMA WrittenType ==
  ASSUME TypeInv, NEW o \in Obj, obj[o] \in DB
  PROVE  Written(o) \in [Name -> Seq(Line)]
<1>1. obj[o].buffer \in Seq(Line) /\ obj[o].file \in Name \cup {NoName}
  BY DEF DB
<1>2. aof \in [Name -> Seq(Line)]
  BY DEF TypeInv, TypeOK
<1>3. obj[o].file # NoName => aof[obj[o].file] \o obj[o].buffer \in Seq(Line)
  <2> SUFFICES ASSUME obj[o].file # NoName
               PROVE  aof[obj[o].file] \o obj[o].buffer \in Seq(Line)
    OBVIOUS
  <2>1. aof[obj[o].file] \in Seq(Line)
    BY <1>1, <1>2
  <2> QED  BY <1>1, <2>1, ConcatIndices
<1> QED  BY <1>2, <1>3 DEF Written

(* A flush.                                                                *)
LEMMA FlushType ==
  ASSUME TypeInv, NEW o \in Obj, Flush(o)
  PROVE  TypeInv'
<1>1. obj[o] \in DB
  BY LiveIsDB DEF Flush, TypeInv
<1>2. obj' = [obj EXCEPT ![o] = [@ EXCEPT !.buffer = <<>>]]
  BY DEF Flush
<1>3. [obj[o] EXCEPT !.buffer = <<>>] \in DB
  <2>1. <<>> \in Seq(Line)
    OBVIOUS
  <2> QED  BY <1>1, <2>1 DEF DB
<1>4. /\ obj' \in [Obj -> DB \cup {Freed}]
      /\ \A p \in Obj : obj[p] # Freed => obj'[p] # Freed
  BY <1>2, <1>3, DBIsLive DEF TypeInv, TypeOK
<1>5. UNCHANGED <<running, db, at, history>>
  BY DEF Flush
<1>6. db # NoObj
  BY <1>1, DBIsLive DEF TypeInv, ObjectInv, NoProcess
<1>7. ObjectInv'
  BY <1>4, <1>5, <1>6, ContentKeeps
<1>8. aof' \in [Name -> Seq(Line)]
  BY <1>1, WrittenType DEF Flush
<1> QED  BY <1>4, <1>5, <1>7, <1>8 DEF TypeInv, TypeOK, history

(* use, quit and ~Server enter shutdown().                                 *)
LEMMA ShutdownType ==
  ASSUME TypeInv, db # NoObj, NEW t \in Caller, NEW call \in {"use", "quit", "server"},
         NEW x \in Name \cup {NoName}, call = "use" => x \in Name,
         Shutdown(t, call, x), running' \in BOOLEAN
  PROVE  TypeInv'
<1> DEFINE c == [pc |-> "close", obj |-> db, call |-> call, to |-> x]
<1>1. db \in Obj
  BY DEF TypeInv, TypeOK
<1>2. Fits(t, c)
  BY <1>1 DEF Fits, Call
<1>3. Goto(t, c) /\ UNCHANGED <<db, obj, aof, left>>
  BY DEF Shutdown
<1>4. obj' \in [Obj -> DB \cup {Freed}] /\ \A p \in Obj : obj[p] # Freed => obj'[p] # Freed
  BY <1>3 DEF TypeInv, TypeOK
<1>5. at' \in [Thread \cup {Main} -> Call] /\ ObjectInv'
  BY <1>2, <1>3, <1>4, FitsKeeps
<1>6. unsure' \in [Name -> SUBSET Key]
  <2>1. DOMAIN at \in SUBSET Caller
    BY DEF TypeInv, TypeOK, Caller
  <2>2. Mentioned(DOMAIN at) \in SUBSET Key
    BY <2>1, MentionedType
  <2> QED  BY <2>2 DEF Shutdown, TypeInv, TypeOK
<1> QED  BY <1>3, <1>4, <1>5, <1>6 DEF TypeInv, TypeOK

(* closeLog, within shutdown().                                            *)
LEMMA CloseLogType ==
  ASSUME TypeInv, NEW t \in Caller, CloseLog(t)
  PROVE  TypeInv'
<1> DEFINE o == at[t].obj
           call == [at[t] EXCEPT !.pc = "compact"]
           d == [obj[o] EXCEPT !.buffer = <<>>, !.open = FALSE, !.file = NoName]
<1>1. o \in Obj /\ obj[o] \in DB /\ at[t].pc = "close"
  BY LiveIsDB DEF CloseLog, TypeInv
<1>2. Busy(t) /\ Holds(t)
  BY <1>1 DEF Busy, TypeInv, ObjectInv
<1>3. Fits(t, call)
  <2>1. at[t] \in [pc : {"clear", "close", "compact", "snapshot", "construct", "swap"},
                   obj : Obj \cup {NoObj}, to : Name \cup {NoName},
                   call : {"clear", "use", "quit", "server", "replaced", "member"}]
    BY <1>1, CallCases DEF TypeInv, Call
  <2>2. /\ call \in Call /\ call.pc = "compact" /\ call.obj = at[t].obj
        /\ call.call = at[t].call /\ call.to = at[t].to
    BY <2>1 DEF Call
  <2> HIDE DEF call
  <2> QED  BY <1>1, <1>2, <2>2 DEF Fits, Holds
<1>4. d \in DB
  <2>1. <<>> \in Seq(Line)
    OBVIOUS
  <2> QED  BY <1>1, <2>1 DEF DB
<1>5. obj' = [obj EXCEPT ![o] = d]
  BY DEF CloseLog
<1>6. /\ obj' \in [Obj -> DB \cup {Freed}]
      /\ \A p \in Obj : obj[p] # Freed => obj'[p] # Freed
  BY <1>4, <1>5, DBIsLive DEF TypeInv, TypeOK
<1>7. Goto(t, call) /\ UNCHANGED <<running, db, history>> /\ aof' = Written(o)
  BY DEF CloseLog
<1>8. db # NoObj
  BY <1>1, CallsNeedServer
<1> HIDE DEF call, d
<1>9. at' \in [Thread \cup {Main} -> Call] /\ ObjectInv'
  BY <1>3, <1>6, <1>7, <1>8, FitsKeeps
<1>10. aof' \in [Name -> Seq(Line)]
  BY <1>1, <1>7, WrittenType
<1> QED  BY <1>6, <1>7, <1>9, <1>10 DEF TypeInv, TypeOK, history

(* The temporary file of a DB has a name, or none that matters.            *)
LEMMA TempNamesType ==
  ASSUME NEW d \in DB
  PROVE  TempNames(d) \in SUBSET (Name \cup {NoName})
BY TempAssumption DEF TempNames, DB

(* compactLog, within shutdown().                                          *)
LEMMA CompactLogType ==
  ASSUME TypeInv, NEW t \in Caller, CompactLog(t)
  PROVE  TypeInv'
<1> DEFINE o == at[t].obj
           call == [at[t] EXCEPT !.pc = "snapshot"]
<1>1. o \in Obj /\ obj[o] \in DB /\ at[t].pc = "compact"
  BY LiveIsDB DEF CompactLog, TypeInv
<1>2. Busy(t) /\ Holds(t)
  BY <1>1 DEF Busy, TypeInv, ObjectInv
<1>3. Fits(t, call)
  <2>1. at[t] \in [pc : {"clear", "close", "compact", "snapshot", "construct", "swap"},
                   obj : Obj \cup {NoObj}, to : Name \cup {NoName},
                   call : {"clear", "use", "quit", "server", "replaced", "member"}]
    BY <1>1, CallCases DEF TypeInv, Call
  <2>2. /\ call \in Call /\ call.pc = "snapshot" /\ call.obj = at[t].obj
        /\ call.call = at[t].call /\ call.to = at[t].to
    BY <2>1 DEF Call
  <2> HIDE DEF call
  <2> QED  BY <1>1, <1>2, <2>2 DEF Fits, Holds
<1>4. Goto(t, call) /\ UNCHANGED <<running, db, left>>
  BY DEF CompactLog
<1>9. unsure' \in [Name -> SUBSET Key]
  <2>1. unsure \in [Name -> SUBSET Key]
    BY DEF TypeInv, TypeOK
  <2> QED  BY <2>1 DEF CompactLog
<1>5. /\ aof' \in [Name -> Seq(Line)]
      /\ obj' \in [Obj -> DB \cup {Freed}]
      /\ \A p \in Obj : obj[p] # Freed => obj'[p] # Freed
  <2>1. CASE UNCHANGED <<obj, aof>>
    BY <2>1 DEF TypeInv, TypeOK
  <2>2. ASSUME NEW tmp \in TempNames(obj[o]), NEW dump \in Dumps(obj[o]),
               aof' = [x \in Name |-> IF x = obj[o].name THEN dump
                                      ELSE IF x = tmp THEN <<>> ELSE aof[x]],
               obj' = [p \in Obj |-> Relinked(obj[p], tmp, obj[o].name)]
        PROVE  <1>5!1 /\ <1>5!2 /\ <1>5!3
    <3>1. dump \in Seq(Line) /\ <<>> \in Seq(Line)
      BY <1>1, DumpType
    <3>2. tmp \in Name \cup {NoName} /\ obj[o].name \in Name
      BY <1>1, TempNamesType DEF DB
    <3>3. \A p \in Obj : obj[p] \in DB \cup {Freed}
      BY DEF TypeInv, TypeOK
    <3>4. \A p \in Obj : /\ obj'[p] \in DB \cup {Freed}
                         /\ obj[p] # Freed => obj'[p] # Freed
      BY <2>2, <3>2, <3>3, RelinkedType
    <3>5. DOMAIN obj' = Obj /\ obj' = [p \in Obj |-> obj'[p]]
      BY <2>2
    <3> QED  BY <2>2, <3>1, <3>4, <3>5 DEF TypeInv, TypeOK
  <2> QED  BY <2>1, <2>2 DEF CompactLog
<1>6. db # NoObj
  BY <1>1, CallsNeedServer
<1> HIDE DEF call
<1>7. at' \in [Thread \cup {Main} -> Call] /\ ObjectInv'
  BY <1>3, <1>4, <1>5, <1>6, FitsKeeps
<1> QED  BY <1>4, <1>5, <1>7, <1>9 DEF TypeInv, TypeOK

(* A call that fails or ends leaves its thread idle.                       *)
LEMMA GivesUpType ==
  ASSUME TypeInv, NEW t \in Caller, at[t].pc # "idle", Goto(t, Idle),
         UNCHANGED <<running, db, obj, aof, history>>
  PROVE  TypeInv'
<1>1. Fits(t, Idle)
  BY DEF Fits, Idle, Call
<1>2. /\ obj' \in [Obj -> DB \cup {Freed}]
      /\ \A p \in Obj : obj[p] # Freed => obj'[p] # Freed
  BY DEF TypeInv, TypeOK
<1>3. at' \in [Thread \cup {Main} -> Call] /\ ObjectInv'
  BY <1>1, <1>2, CallsNeedServer, FitsKeeps
<1> QED  BY <1>2, <1>3 DEF TypeInv, TypeOK, history

(* The end of shutdown(), and what follows it in the five calls.           *)
LEMMA WriteSnapshotType ==
  ASSUME TypeInv, NEW t \in Caller, WriteSnapshot(t)
  PROVE  TypeInv'
<1> DEFINE o == at[t].obj
           x == obj[o].name
<1>1. o \in Obj /\ obj[o] \in DB /\ at[t].pc = "snapshot"
  BY LiveIsDB DEF WriteSnapshot, TypeInv
<1>2. Busy(t) /\ Holds(t)
  BY <1>1 DEF Busy, TypeInv, ObjectInv
<1>3. db # NoObj /\ db \in Obj /\ obj[db] \in DB
  BY <1>1, CallsNeedServer
<1>4. x \in Name
  BY <1>1 DEF DB
<1>5. ASSUME NEW gone
      PROVE  [left EXCEPT ![x] = IF gone THEN {obj[o].store} ELSE @] \in [Name -> SUBSET Content]
  <2>1. obj[o].store \in Content
    BY <1>1 DEF DB
  <2> QED  BY <1>4, <2>1 DEF TypeInv, TypeOK
<1>6. UNCHANGED <<running, aof, unsure>>
  BY DEF WriteSnapshot
<1>7. at[t] \in [pc : {"clear", "close", "compact", "snapshot", "construct", "swap"},
                 obj : Obj \cup {NoObj}, to : Name \cup {NoName},
                 call : {"clear", "use", "quit", "server", "replaced", "member"}]
  BY <1>1, CallCases DEF TypeInv, Call
<1>8. CASE at[t].call = "quit"
  <2>1. Goto(t, Idle) /\ UNCHANGED <<db, obj, left>>
    BY <1>8 DEF WriteSnapshot
  <2> QED  BY <1>1, <1>6, <2>1, GivesUpType DEF history
<1>9. ASSUME NEW call, Fits(t, call), Goto(t, call), UNCHANGED <<db, obj, left>>
      PROVE  TypeInv'
  <2>1. /\ obj' \in [Obj -> DB \cup {Freed}]
        /\ \A p \in Obj : obj[p] # Freed => obj'[p] # Freed
    BY <1>9 DEF TypeInv, TypeOK
  <2>2. at' \in [Thread \cup {Main} -> Call] /\ ObjectInv'
    BY <1>3, <1>9, <2>1, FitsKeeps
  <2> QED  BY <1>6, <1>9, <2>1, <2>2 DEF TypeInv, TypeOK
<1>10. CASE at[t].call = "use"
  <2> DEFINE call == [at[t] EXCEPT !.pc = "construct", !.obj = NoObj]
  <2>1. Goto(t, call) /\ UNCHANGED <<db, obj, left>>
    BY <1>10 DEF WriteSnapshot
  <2>2. /\ call \in Call /\ call.pc = "construct" /\ call.call = "use"
        /\ call.obj = NoObj /\ call.to = at[t].to
    BY <1>7, <1>10 DEF Call
  <2> HIDE DEF call
  <2>3. Fits(t, call)
    BY <1>2, <1>10, <2>2 DEF Fits, Holds
  <2> QED  BY <1>9, <2>1, <2>3
<1>11. CASE at[t].call = "server"
  <2> DEFINE call == [at[t] EXCEPT !.pc = "close", !.obj = db, !.call = "member"]
  <2>1. Goto(t, call) /\ UNCHANGED <<db, obj, left>>
    BY <1>11 DEF WriteSnapshot
  <2>2. /\ call \in Call /\ call.pc = "close" /\ call.call = "member" /\ call.obj = db
    BY <1>3, <1>7 DEF Call
  <2> HIDE DEF call
  <2>3. Fits(t, call)
    BY <2>2 DEF Fits
  <2> QED  BY <1>9, <2>1, <2>3
<1>12. CASE at[t].call = "replaced"
  <2>1. /\ at' = [at EXCEPT ![t] = Idle] /\ obj' = [obj EXCEPT ![o] = Freed]
        /\ db' = db
        /\ \E gone : left' = [left EXCEPT ![x] = IF gone THEN {obj[o].store} ELSE @]
    BY <1>12 DEF WriteSnapshot, Goto
  <2>2. at \in [Caller -> Call] /\ Idle \in Call
    BY DEF TypeInv, TypeOK, Caller, Idle, Call
  <2>3. /\ at' \in [Caller -> Call] /\ obj' \in [Obj -> DB \cup {Freed}]
        /\ left' \in [Name -> SUBSET Content]
    BY <1>5, <2>1, <2>2 DEF TypeInv, TypeOK
  <2>4. o # db
    BY <1>2, <1>12 DEF Holds
  <2>5. Live(db)'
    BY <1>3, <2>1, <2>4, DBIsLive DEF Live
  <2>6. ASSUME NEW u \in Caller PROVE Holds(u)'
    <3>1. CASE u = t
      BY <2>1, <2>2, <3>1 DEF Holds, Busy, Idle
    <3>2. CASE u # t
      <4>1. at'[u] = at[u] /\ Holds(u)
        BY <2>1, <2>2, <3>2 DEF TypeInv, ObjectInv
      <4>2. CASE at[u].pc = "swap"
        <5>1. Live(at[u].obj) /\ at[u].obj # db /\ at[u].obj # o
          BY <1>1, <3>2, <4>1, <4>2 DEF Holds
        <5>2. Live(at[u].obj)'
          BY <2>1, <4>1, <5>1 DEF Live, TypeInv, TypeOK
        <5>3. \A v \in Caller : v # u => at'[v].pc = "idle" \/ at'[v].obj # at'[u].obj
          BY <2>1, <2>2, <4>1, <4>2 DEF Holds, Idle
        <5> QED  BY <2>1, <4>1, <4>2, <5>1, <5>2, <5>3 DEF Holds, Busy
      <4>3. CASE at[u].pc # "swap"
        BY <2>1, <4>1, <4>3 DEF Holds, Busy
      <4> QED  BY <4>2, <4>3
    <3> QED  BY <3>1, <3>2
  <2> QED  BY <1>3, <1>6, <2>1, <2>3, <2>5, <2>6 DEF TypeInv, TypeOK, ObjectInv, Caller
<1>13. CASE at[t].call = "member"
  <2>1. /\ at' = [u \in DOMAIN at |-> Idle] /\ obj' = [p \in Obj |-> Freed]
        /\ db' = NoObj
        /\ \E gone : left' = [left EXCEPT ![x] = IF gone THEN {obj[o].store} ELSE @]
    BY <1>13 DEF WriteSnapshot
  <2>2. DOMAIN at = Caller /\ Idle \in Call
    BY DEF TypeInv, TypeOK, Caller, Idle, Call
  <2>3. /\ at' \in [Caller -> Call] /\ obj' \in [Obj -> DB \cup {Freed}]
        /\ left' \in [Name -> SUBSET Content]
    BY <1>5, <2>1, <2>2 DEF TypeInv, TypeOK
  <2>4. NoProcess'
    BY <2>1, <2>2 DEF NoProcess
  <2>5. \A u \in Caller : Holds(u)'
    BY <2>4 DEF NoProcess, Holds, Busy, Idle
  <2> QED  BY <1>6, <2>1, <2>3, <2>4, <2>5 DEF TypeInv, TypeOK, ObjectInv, Caller
<1>14. at[t].call \in {"use", "quit", "server", "replaced", "member"}
  BY DEF WriteSnapshot
<1> QED  BY <1>8, <1>10, <1>11, <1>12, <1>13, <1>14

(* use constructs its new DB in an object that nobody holds.               *)
LEMMA ConstructType ==
  ASSUME TypeInv, NEW t \in Caller, Construct(t)
  PROVE  TypeInv'
<1> DEFINE x == at[t].to
<1>1. at[t].pc = "construct" /\ Busy(t) /\ Holds(t)
  BY DEF Construct, Busy, TypeInv, ObjectInv
<1>2. at[t].call = "use" /\ x \in Name
  BY <1>1 DEF Holds
<1>3. PICK o \in Obj, d \in Constructed(x, TRUE) :
        /\ ~Live(o) /\ Inside(o) = {}
        /\ obj' = [obj EXCEPT ![o] = d]
        /\ at' = [at EXCEPT ![t] = [at[t] EXCEPT !.pc = "swap", !.obj = o]]
  BY DEF Construct, Goto
<1> DEFINE call == [at[t] EXCEPT !.pc = "swap", !.obj = o]
<1>4. d \in DB
  BY <1>2, ConstructedType DEF TypeInv
<1>5. db # NoObj /\ db \in Obj /\ obj[db] \in DB
  BY <1>1, CallsNeedServer
<1>6. o # db
  BY <1>3, <1>5, DBIsLive DEF Live
<1>7. /\ call \in Call /\ call.pc = "swap" /\ call.obj = o
      /\ call.call = "use" /\ call.to = x
  <2>1. at[t] \in [pc : {"clear", "close", "compact", "snapshot", "construct", "swap"},
                   obj : Obj \cup {NoObj}, to : Name \cup {NoName},
                   call : {"clear", "use", "quit", "server", "replaced", "member"}]
    BY <1>1, CallCases DEF TypeInv, Call
  <2> QED  BY <1>2, <2>1 DEF Call
<1>8. at' = [at EXCEPT ![t] = call] /\ at \in [Caller -> Call]
  BY <1>3 DEF TypeInv, TypeOK, Caller
<1>9. obj' \in [Obj -> DB \cup {Freed}] /\ obj'[o] = d
      /\ \A p \in Obj : p # o => obj'[p] = obj[p]
  BY <1>3, <1>4 DEF TypeInv, TypeOK
<1> HIDE DEF call
<1>10. at' \in [Caller -> Call]
  BY <1>7, <1>8
<1>11. UNCHANGED <<running, db, aof>>
  BY DEF Construct
<1>12. \A u \in Caller : at[u].pc = "idle" \/ at[u].obj # o
  BY <1>3, <1>8 DEF Inside
<1>13. ASSUME NEW u \in Caller PROVE Holds(u)'
  <2>1. CASE u = t
    <3>1. at'[u] = call /\ Live(o)'
      BY <1>4, <1>8, <1>9, <2>1, DBIsLive DEF Live
    <3>2. \A v \in Caller : v # u => at'[v].pc = "idle" \/ at'[v].obj # o
      BY <1>8, <1>12, <2>1
    <3> QED  BY <1>2, <1>6, <1>7, <1>11, <3>1, <3>2 DEF Holds, Busy
  <2>2. CASE u # t
    <3>1. at'[u] = at[u] /\ Holds(u)
      BY <1>8, <2>2 DEF TypeInv, ObjectInv
    <3>2. CASE at[u].pc = "swap"
      <4>1. Live(at[u].obj) /\ at[u].obj # o
        BY <1>12, <3>1, <3>2 DEF Holds
      <4>2. Live(at[u].obj)'
        BY <1>9, <3>1, <4>1 DEF Live
      <4>3. \A v \in Caller : v # u => at'[v].pc = "idle" \/ at'[v].obj # at'[u].obj
        BY <1>7, <1>8, <3>1, <3>2, <4>1 DEF Holds
      <4> QED  BY <1>11, <3>1, <3>2, <4>2, <4>3 DEF Holds, Busy
    <3>3. CASE at[u].pc # "swap"
      BY <1>11, <3>1, <3>3 DEF Holds, Busy
    <3> QED  BY <3>2, <3>3
  <2> QED  BY <2>1, <2>2
<1>14. Live(db)'
  BY <1>5, <1>6, <1>9, <1>11, DBIsLive DEF Live
<1>15. left' \in [Name -> SUBSET Content] /\ unsure' \in [Name -> SUBSET Key]
  BY DEF Construct, TypeInv, TypeOK
<1>16. aof' \in [Name -> Seq(Line)]
  BY <1>11 DEF TypeInv, TypeOK
<1>17. running' \in BOOLEAN /\ db' \in Obj \cup {NoObj}
  BY <1>11, Zenon DEF TypeInv, TypeOK
<1> QED  BY <1>5, <1>9, <1>10, <1>11, <1>13, <1>14, <1>15, <1>16, <1>17
         DEF TypeInv, TypeOK, ObjectInv, Caller

(* The new DB becomes the server's, and its thread holds the old one.      *)
LEMMA SwapType ==
  ASSUME TypeInv, NEW t \in Caller, Swap(t)
  PROVE  TypeInv'
<1> DEFINE o == at[t].obj
           call == [at[t] EXCEPT !.pc = "close", !.obj = db, !.call = "replaced"]
<1>1. at[t].pc = "swap" /\ Busy(t) /\ Holds(t)
  BY DEF Swap, Busy, TypeInv, ObjectInv
<1>2. /\ o \in Obj /\ Live(o) /\ o # db
      /\ \A u \in Caller : u # t => at[u].pc = "idle" \/ at[u].obj # o
  BY <1>1 DEF Holds, Live
<1>3. db # NoObj /\ db \in Obj /\ obj[db] \in DB
  BY <1>1, CallsNeedServer
<1>4. call \in Call /\ call.pc = "close" /\ call.obj = db /\ call.call = "replaced"
  <2>1. at[t] \in [pc : {"clear", "close", "compact", "snapshot", "construct", "swap"},
                   obj : Obj \cup {NoObj}, to : Name \cup {NoName},
                   call : {"clear", "use", "quit", "server", "replaced", "member"}]
    BY <1>1, CallCases DEF TypeInv, Call
  <2> QED  BY <1>3, <2>1 DEF Call
<1>5. /\ at' = [at EXCEPT ![t] = call] /\ at \in [Caller -> Call]
      /\ db' = o /\ UNCHANGED <<running, obj, aof, history>>
  BY DEF Swap, Goto, TypeInv, TypeOK, Caller
<1> HIDE DEF call
<1>6. at' \in [Caller -> Call] /\ at'[t] = call
      /\ \A u \in Caller : u # t => at'[u] = at[u]
  BY <1>4, <1>5
<1>7. ASSUME NEW u \in Caller PROVE Holds(u)'
  <2>1. CASE u = t
    BY <1>2, <1>4, <1>5, <1>6, <2>1 DEF Holds, Busy
  <2>2. CASE u # t
    <3>1. at'[u] = at[u] /\ Holds(u) /\ (at[u].pc = "idle" \/ at[u].obj # o)
      BY <1>2, <1>6, <2>2 DEF TypeInv, ObjectInv
    <3>2. CASE at[u].pc = "swap"
      <4>1. Live(at[u].obj) /\ at[u].obj # db /\ at[u].obj # o
        BY <3>1, <3>2 DEF Holds
      <4>2. Live(at[u].obj)'
        BY <1>5, <3>1, <4>1 DEF Live
      <4>3. \A v \in Caller : v # u => at'[v].pc = "idle" \/ at'[v].obj # at'[u].obj
        BY <1>4, <1>6, <3>1, <3>2, <4>1 DEF Holds
      <4> QED  BY <1>5, <3>1, <3>2, <4>1, <4>2, <4>3 DEF Holds, Busy
    <3>3. CASE at[u].pc # "swap"
      BY <1>5, <3>1, <3>3 DEF Holds, Busy
    <3> QED  BY <3>2, <3>3
  <2> QED  BY <2>1, <2>2
<1>8. Live(db)' /\ db' # NoObj
  BY <1>2, <1>5, NamesAssumption DEF Live
<1>9. running' \in BOOLEAN /\ db' \in Obj \cup {NoObj}
  BY <1>2, <1>5, Zenon DEF TypeInv, TypeOK
<1> QED  BY <1>5, <1>6, <1>7, <1>8, <1>9 DEF TypeInv, TypeOK, ObjectInv, Caller, history

(* Nothing of the process survives a crash.                                *)
LEMMA CrashType == TypeInv /\ Crash => TypeInv'
<1> SUFFICES ASSUME TypeInv, Crash PROVE TypeInv'
  OBVIOUS
<1>1. DOMAIN at = Caller /\ Idle \in Call
  BY DEF TypeInv, TypeOK, Caller, Idle, Call
<1>2. at' \in [Caller -> Call] /\ obj' \in [Obj -> DB \cup {Freed}]
  BY <1>1 DEF Crash
<1>3. NoProcess'
  BY <1>1 DEF Crash, NoProcess
<1>4. \A u \in Caller : Holds(u)'
  BY <1>3 DEF NoProcess, Holds, Busy, Idle
<1>5. running' \in BOOLEAN
  BY Zenon DEF Crash
<1> QED  BY <1>2, <1>3, <1>4, <1>5 DEF Crash, TypeInv, TypeOK, ObjectInv, Caller, history

(* A server starts with one DB and no call.                                *)
LEMMA StartType ==
  ASSUME TypeInv, NEW x \in Name, Start(x)
  PROVE  TypeInv'
<1>1. NoProcess
  BY DEF Start, TypeInv, ObjectInv
<1>2. PICK d \in Constructed(x, FALSE) : obj' = [obj EXCEPT ![db'] = d]
  BY DEF Start
<1>3. d \in DB /\ db' \in Obj
  BY ConstructedType DEF Start, TypeInv
<1>4. UNCHANGED <<at, aof>>
  BY DEF Start
<1>5. obj' \in [Obj -> DB \cup {Freed}] /\ Live(db)' /\ db' # NoObj
  BY <1>2, <1>3, DBIsLive, NamesAssumption DEF TypeInv, TypeOK, Live
<1>6. \A u \in Caller : Holds(u)'
  BY <1>1, <1>4 DEF NoProcess, Holds, Busy, Idle
<1>7. running' \in BOOLEAN
  BY Zenon DEF Start
<1>8. left' \in [Name -> SUBSET Content] /\ unsure' \in [Name -> SUBSET Key]
  BY DEF Start, TypeInv, TypeOK
<1> QED  BY <1>3, <1>4, <1>5, <1>6, <1>7, <1>8 DEF TypeInv, TypeOK, ObjectInv

(* Every step keeps the types.                                             *)
LEMMA TypeStep == TypeInv /\ [Next]_vars => TypeInv'
<1> SUFFICES ASSUME TypeInv, [Next]_vars PROVE TypeInv'
  OBVIOUS
<1>1. ASSUME NEW x \in Name, Start(x) PROVE TypeInv'
  BY <1>1, StartType
<1>2. ASSUME NEW t \in Thread, Command(t) PROVE TypeInv'
  <2>1. /\ t \in Caller
        /\ \A k \in Key : DelLine(k) \in Line
        /\ \A k \in Key, v \in Value : PutLine(k, v) \in Line
    BY DEF Caller, PutLine, DelLine, Line
  <2>2. CASE \/ \E k \in Key, v \in Value : Single(t, PutLine(k, v))
             \/ \E k \in Key : Single(t, DelLine(k))
    BY <2>1, <2>2, CommandsType
  <2>3. CASE \/ \E j, k \in Key, v, w \in Value : Multi(t, <<PutLine(j, v), PutLine(k, w)>>)
             \/ \E j, k \in Key : Multi(t, <<DelLine(j), DelLine(k)>>)
    BY <2>1, <2>3, CommandsType
  <2>4. CASE Clear(t)
    BY <2>4, ClearType
  <2>5. ASSUME NEW x \in Name, Use(t, x) PROVE TypeInv'
    <3>1. db # NoObj /\ running' \in BOOLEAN
      BY <2>5, Zenon DEF Use, Ready, TypeInv, TypeOK
    <3> QED  BY <2>1, <2>5, <3>1, ShutdownType DEF Use
  <2>6. CASE Quit(t)
    <3>1. db # NoObj /\ running' \in BOOLEAN
      BY <2>6, Zenon DEF Quit, Ready
    <3> QED  BY <2>1, <2>6, <3>1, ShutdownType DEF Quit
  <2> QED  BY <1>2, <2>2, <2>3, <2>4, <2>5, <2>6 DEF Command
<1>3. CASE Exit
  <2>1. db # NoObj /\ running' \in BOOLEAN /\ Main \in Caller
    BY <1>3, Zenon DEF Exit, Caller
  <2> QED  BY <1>3, <2>1, ShutdownType DEF Exit
<1>4. ASSUME NEW t \in Caller, Proceed(t) PROVE TypeInv'
  <2>1. CASE ShutdownThrows(t)
    <3>1. at[t].pc # "idle" /\ Goto(t, Idle) /\ UNCHANGED <<running, db, obj, aof, history>>
      BY <2>1 DEF ShutdownThrows
    <3> QED  BY <3>1, GivesUpType
  <2>2. CASE UseFails(t)
    <3>1. at[t].pc # "idle" /\ Goto(t, Idle) /\ UNCHANGED <<running, db, obj, aof, history>>
      BY <2>2 DEF UseFails
    <3> QED  BY <3>1, GivesUpType
  <2> QED  BY <1>4, <2>1, <2>2, StepType, ClearFilesType, CloseLogType, CompactLogType, WriteSnapshotType,
              ConstructType, SwapType DEF Proceed
<1>5. ASSUME NEW o \in Obj, Flush(o) PROVE TypeInv'
  BY <1>5, FlushType
<1>6. CASE Crash
  BY <1>6, CrashType
<1>7. CASE UNCHANGED vars
  <2>1. UNCHANGED <<running, db, obj, at, aof, left, unsure>>
    BY <1>7 DEF vars, history
  <2>2. running' \in BOOLEAN
    BY <2>1, Zenon DEF TypeInv, TypeOK
  <2>3. TypeOK'
    BY <2>1, <2>2 DEF TypeInv, TypeOK
  <2>4. ObjectInv'
    BY <2>1 DEF TypeInv, ObjectInv, NoProcess, Holds, Busy, Live
  <2> QED  BY <2>3, <2>4 DEF TypeInv
<1> QED  BY <1>1, <1>2, <1>3, <1>4, <1>5, <1>6, <1>7 DEF Next, Caller

(* What is inductive holds of every behaviour.                             *)
LEMMA TypeAlways == Spec => []TypeInv
BY TypeInit, TypeStep, PTL DEF Spec

(* The server's DB and the calls into it have their types, whatever the    *)
(* clients and the main thread do to it and to each other (server.cpp).    *)
THEOREM TypeCorrect == Spec => []TypeOK
<1>1. TypeInv => TypeOK
  BY DEF TypeInv
<1> QED  BY <1>1, TypeAlways, PTL
-----------------------------------------------------------------------------
(* A DB that is not the server's belongs to the use command that has       *)
(* constructed it or that has replaced it.                                 *)
Owns(t, o) == Busy(t) /\ at[t].obj = o /\ (at[t].pc = "swap" \/ at[t].call = "replaced")

Owned == \A o \in Obj : Live(o) => o = db \/ \E t \in Caller : Owns(t, o)

(* Steps of which the owner of a DB, if it makes them, remains the owner.  *)
LEMMA OwnedKept ==
  ASSUME TypeInv, Owned, db' = db, NEW t \in Caller, NEW call, Goto(t, call),
         \A o \in Obj : obj[o] = Freed => obj'[o] = Freed,
         \A o \in Obj : Owns(t, o) =>
           call.pc \notin {"idle", "run"} /\ call.obj = o /\ call.call = "replaced"
  PROVE  Owned'
<1> SUFFICES ASSUME NEW o \in Obj, Live(o)', o # db
             PROVE  \E u \in Caller : Owns(u, o)'
  BY DEF Owned
<1>1. PICK u \in Caller : Owns(u, o)
  BY DEF Owned, Live
<1>2. at' = [at EXCEPT ![t] = call] /\ at \in [Caller -> Call]
  BY DEF Goto, TypeInv, TypeOK, Caller
<1>3. CASE u = t
  BY <1>1, <1>2, <1>3 DEF Owns, Busy
<1>4. CASE u # t
  BY <1>1, <1>2, <1>4 DEF Owns, Busy
<1> QED  BY <1>3, <1>4

(* A step that leaves every call where it is.                              *)
LEMMA OwnedSame ==
  ASSUME TypeInv, Owned, UNCHANGED <<db, at>>,
         \A o \in Obj : obj[o] = Freed => obj'[o] = Freed
  PROVE  Owned'
BY DEF Owned, Owns, Live, Busy

(* Without DBs nothing is to be owned.                                     *)
LEMMA OwnedNothing == (\A o \in Obj : obj'[o] = Freed) => Owned'
BY DEF Owned, Live

(* A command begins in an idle thread.                                     *)
FromCommand(call) ==
  \/ call.pc = "run"
  \/ call.pc = "close" /\ call.obj = db /\ call.call \in {"use", "quit"}

(* Every command but clear only puts its thread into a call.               *)
LEMMA CommandBegins ==
  ASSUME NEW t \in Thread, Command(t), ~Clear(t)
  PROVE  \E call : Goto(t, call) /\ at[t].pc = "idle" /\ UNCHANGED <<db, obj>> /\ FromCommand(call)
<1> DEFINE Begins == \E call : /\ Goto(t, call) /\ at[t].pc = "idle" /\ UNCHANGED <<db, obj>>
                             /\ FromCommand(call)
<1>1. ASSUME NEW ls, NEW todo, Run(t, ls, todo) PROVE Begins
  BY <1>1 DEF Run, Ready, FromCommand
<1>2. ASSUME NEW l, Single(t, l) PROVE Begins
  BY <1>1, <1>2 DEF Single
<1>3. ASSUME NEW ls, Multi(t, ls) PROVE Begins
  BY <1>1, <1>3 DEF Multi
<1>4. ASSUME NEW x, Use(t, x) PROVE Begins
  BY <1>4 DEF Use, Shutdown, Ready, FromCommand
<1>5. Quit(t) => Begins
  BY DEF Quit, Shutdown, Ready, FromCommand
<1> HIDE DEF Begins
<1>6. (\/ \E k \in Key, v \in Value : Single(t, PutLine(k, v))
       \/ \E k \in Key : Single(t, DelLine(k))) => Begins
  BY <1>2, Zenon
<1>7. (\/ \E j, k \in Key, v, w \in Value : Multi(t, <<PutLine(j, v), PutLine(k, w)>>)
       \/ \E j, k \in Key : Multi(t, <<DelLine(j), DelLine(k)>>)) => Begins
  BY <1>3, Zenon
<1>8. (\E x \in Name : Use(t, x)) => Begins
  BY <1>4, Zenon
<1>9. Begins
  BY <1>5, <1>6, <1>7, <1>8, Zenon DEF Command
<1> QED  BY <1>9 DEF Begins

(* Every step keeps the ownership.                                         *)
LEMMA OwnedStep == TypeInv /\ Owned /\ [Next]_vars => Owned'
<1> SUFFICES ASSUME TypeInv, Owned, [Next]_vars PROVE Owned'
  OBVIOUS
<1>0. obj \in [Obj -> DB \cup {Freed}] /\ at \in [Caller -> Call]
  BY DEF TypeInv, TypeOK, Caller
<1>1. ASSUME NEW x \in Name, Start(x) PROVE Owned'
  <2>1. \A o \in Obj : obj[o] = Freed
    BY <1>1 DEF Start, TypeInv, ObjectInv, NoProcess
  <2>2. PICK d : obj' = [obj EXCEPT ![db'] = d]
    BY <1>1 DEF Start
  <2> QED  BY <1>0, <2>1, <2>2 DEF Owned, Live
<1>2. ASSUME NEW t \in Thread, Command(t) PROVE Owned'
  <2>1. CASE Clear(t)
    <3>1. PICK call : Goto(t, call) /\ at[t].pc = "idle" /\ db' = db
      BY <2>1 DEF Clear, Ready
    <3>2. obj' = [obj EXCEPT ![db] = [@ EXCEPT !.store = NoKeys]]
      BY <2>1 DEF Clear
    <3>3. obj[db] # Freed
      BY <2>1 DEF Clear, Ready, TypeInv, ObjectInv, Live
    <3>4. \A o \in Obj : obj[o] = Freed => obj'[o] = Freed
      BY <1>0, <3>2, <3>3
    <3> QED  BY <3>1, <3>4, OwnedKept DEF Owns, Busy, Caller
  <2>2. CASE ~Clear(t)
    <3>1. PICK call : Goto(t, call) /\ at[t].pc = "idle" /\ UNCHANGED <<db, obj>>
      BY <1>2, <2>2, CommandBegins
    <3> QED  BY <3>1, OwnedKept DEF Owns, Busy, Caller
  <2> QED  BY <2>1, <2>2
<1>3. CASE Exit
  <2>1. PICK call : Goto(Main, call) /\ at[Main].pc = "idle" /\ UNCHANGED <<db, obj>>
    BY <1>3 DEF Exit, Shutdown
  <2> QED  BY <2>1, OwnedKept DEF Owns, Busy, Caller
<1>4. ASSUME NEW t \in Caller, Proceed(t) PROVE Owned'
  <2>1. CASE Step(t)
    <3>1. PICK call, d : Goto(t, call) /\ db' = db /\ obj' = [obj EXCEPT ![at[t].obj] = d]
      BY <2>1 DEF Step
    <3>2. at[t].pc = "run" /\ obj[at[t].obj] # Freed
      BY <2>1 DEF Step, Live
    <3> QED  BY <1>0, <3>1, <3>2, OwnedKept DEF Owns, Busy
  <2>2. CASE CloseLog(t)
    <3> DEFINE call == [at[t] EXCEPT !.pc = "compact"]
    <3>1. PICK d : obj' = [obj EXCEPT ![at[t].obj] = d]
      BY <2>2 DEF CloseLog
    <3>2. Goto(t, call) /\ db' = db /\ at[t].pc = "close" /\ obj[at[t].obj] # Freed
      BY <2>2 DEF CloseLog, Live
    <3>3. call.pc = "compact" /\ call.obj = at[t].obj /\ call.call = at[t].call
      BY <3>2, CallCases DEF TypeInv, Call
    <3> HIDE DEF call
    <3>4. \A o \in Obj : obj[o] = Freed => obj'[o] = Freed
      BY <1>0, <3>1, <3>2
    <3>5. \A o \in Obj : Owns(t, o) => call.obj = o /\ call.call = "replaced"
      BY <3>2, <3>3 DEF Owns
    <3> QED  BY <3>2, <3>3, <3>4, <3>5, OwnedKept
  <2>3. CASE CompactLog(t)
    <3> DEFINE call == [at[t] EXCEPT !.pc = "snapshot"]
    <3>1. Goto(t, call) /\ db' = db /\ at[t].pc = "compact"
      BY <2>3 DEF CompactLog
    <3>2. call.pc = "snapshot" /\ call.obj = at[t].obj /\ call.call = at[t].call
      BY <3>1, CallCases DEF TypeInv, Call
    <3> HIDE DEF call
    <3>3. \A o \in Obj : obj[o] = Freed => obj'[o] = Freed
      BY <2>3 DEF CompactLog, Relinked
    <3>4. \A o \in Obj : Owns(t, o) => call.obj = o /\ call.call = "replaced"
      BY <3>1, <3>2 DEF Owns
    <3> QED  BY <3>1, <3>2, <3>3, <3>4, OwnedKept
  <2>4. CASE ShutdownThrows(t) \/ UseFails(t)
    <3>1. Goto(t, Idle) /\ UNCHANGED <<db, obj>>
      BY <2>4 DEF ShutdownThrows, UseFails
    <3>2. at[t].pc # "swap" /\ at[t].call # "replaced"
      BY <2>4 DEF ShutdownThrows, UseFails, TypeInv, ObjectInv, Holds
    <3> QED  BY <3>1, <3>2, OwnedKept DEF Owns
  <2>5. CASE WriteSnapshot(t)
    <3>1. at[t].pc = "snapshot"
      BY <2>5 DEF WriteSnapshot
    <3>2. CASE at[t].call \in {"quit", "use", "server"}
      <4>1. PICK call : Goto(t, call) /\ UNCHANGED <<db, obj>>
        BY <2>5, <3>2 DEF WriteSnapshot
      <4> QED  BY <3>1, <3>2, <4>1, OwnedKept DEF Owns
    <3>3. CASE at[t].call = "replaced"
      <4>1. /\ at' = [at EXCEPT ![t] = Idle] /\ db' = db
            /\ obj' = [obj EXCEPT ![at[t].obj] = Freed]
        BY <2>5, <3>3 DEF WriteSnapshot, Goto
      <4>2. ASSUME NEW o \in Obj, Live(o)', o # db PROVE \E u \in Caller : Owns(u, o)'
        <5>1. Live(o) /\ o # at[t].obj
          BY <1>0, <4>1, <4>2 DEF Live
        <5>2. PICK u \in Caller : Owns(u, o)
          BY <4>2, <5>1 DEF Owned
        <5>3. at'[u] = at[u]
          BY <1>0, <4>1, <5>1, <5>2 DEF Owns
        <5> QED  BY <5>2, <5>3 DEF Owns, Busy
      <4> QED  BY <4>1, <4>2 DEF Owned
    <3>4. CASE at[t].call = "member"
      <4>1. obj' = [p \in Obj |-> Freed]
        BY <2>5, <3>4 DEF WriteSnapshot
      <4> QED  BY <4>1, OwnedNothing
    <3> QED  BY <2>5, <3>2, <3>3, <3>4 DEF WriteSnapshot
  <2>6. CASE Construct(t)
    <3>1. PICK o \in Obj :
            \E d : /\ obj' = [obj EXCEPT ![o] = d] /\ db' = db
                   /\ at' = [at EXCEPT ![t] = [at[t] EXCEPT !.pc = "swap", !.obj = o]]
      BY <2>6 DEF Construct, Goto
    <3>2. at[t].pc = "construct" /\ at[t].call = "use"
      BY <2>6 DEF Construct, TypeInv, ObjectInv, Holds
    <3>3. at'[t].pc = "swap" /\ at'[t].obj = o
      BY <1>0, <3>1, <3>2, CallCases DEF TypeInv, Call
    <3>4. Owns(t, o)'
      BY <3>3 DEF Owns, Busy
    <3>5. ASSUME NEW p \in Obj, Live(p)', p # db, p # o PROVE \E u \in Caller : Owns(u, p)'
      <4>1. Live(p)
        BY <1>0, <3>1, <3>5 DEF Live
      <4>2. PICK u \in Caller : Owns(u, p)
        BY <3>5, <4>1 DEF Owned
      <4>3. u # t
        BY <3>2, <4>2 DEF Owns
      <4>4. at'[u] = at[u]
        BY <1>0, <3>1, <4>3
      <4> QED  BY <4>2, <4>4 DEF Owns, Busy
    <3> QED  BY <3>1, <3>4, <3>5 DEF Owned
  <2>7. CASE Swap(t)
    <3>1. /\ db' = at[t].obj /\ obj' = obj /\ at[t].pc = "swap"
          /\ at' = [at EXCEPT ![t] = [at[t] EXCEPT !.pc = "close", !.obj = db, !.call = "replaced"]]
      BY <2>7 DEF Swap, Goto
    <3>2. at'[t].pc = "close" /\ at'[t].obj = db /\ at'[t].call = "replaced"
      BY <1>0, <3>1, CallCases DEF TypeInv, Call
    <3>3. ASSUME NEW p \in Obj, Live(p)', p # db' PROVE \E u \in Caller : Owns(u, p)'
      <4>1. CASE p = db
        BY <3>2, <4>1 DEF Owns, Busy
      <4>2. CASE p # db
        <5>1. Live(p)
          BY <3>1, <3>3 DEF Live
        <5>2. PICK u \in Caller : Owns(u, p)
          BY <4>2, <5>1 DEF Owned
        <5>3. u # t
          BY <3>1, <3>3, <5>2 DEF Owns
        <5>4. at'[u] = at[u]
          BY <1>0, <3>1, <5>3
        <5> QED  BY <5>2, <5>4 DEF Owns, Busy
      <4> QED  BY <4>1, <4>2
    <3> QED  BY <3>3 DEF Owned
  <2>8. CASE ClearFiles(t)
    <3>1. Goto(t, Idle) /\ UNCHANGED <<db, obj>> /\ at[t].pc = "clear"
      BY <2>8 DEF ClearFiles
    <3>2. Holds(t)
      BY DEF TypeInv, ObjectInv
    <3>3. at[t].call = "clear"
      BY <3>1, <3>2 DEF Holds
    <3> QED  BY <3>1, <3>3, OwnedKept DEF Owns
  <2> QED  BY <1>4, <2>1, <2>2, <2>3, <2>4, <2>5, <2>6, <2>7, <2>8 DEF Proceed
<1>5. ASSUME NEW o \in Obj, Flush(o) PROVE Owned'
  <2>1. PICK d : obj' = [obj EXCEPT ![o] = d] /\ UNCHANGED <<db, at>> /\ obj[o] # Freed
    BY <1>5 DEF Flush, Live
  <2> QED  BY <1>0, <2>1, OwnedSame
<1>6. CASE Crash
  BY <1>6, OwnedNothing DEF Crash
<1>7. CASE UNCHANGED vars
  BY <1>7, OwnedSame DEF vars
<1> QED  BY <1>1, <1>2, <1>3, <1>4, <1>5, <1>6, <1>7 DEF Next, Caller
-----------------------------------------------------------------------------
(* With one client thread, a DB that another one is to replace has closed  *)
(* its log before the other one opens a log, and the main thread only ever *)
(* closes.                                                                 *)
Opens(o) == Live(o) /\ obj[o].open

Closes(c) ==
  c.pc \notin {"idle", "run"} =>
    /\ c.call = "use" => IF c.pc = "close" THEN c.obj = db ELSE ~Opens(db)
    /\ c.call = "replaced" => ~Opens(c.obj)

OneLog ==
  /\ at[Main].pc # "run" /\ (Busy(Main) => at[Main].call \in {"server", "member"})
  /\ \A t \in Thread : Closes(at[t])

(* Steps of one thread that open no log and leave the server its DB.       *)
LEMMA OneLogKept ==
  ASSUME TypeInv, OneLog, NEW t \in Caller, NEW call, Goto(t, call), db' = db,
         \A o : Opens(o)' => Opens(o),
         t = Main => /\ call.pc # "run"
                     /\ call.pc # "idle" => call.call \in {"server", "member"},
         call.pc \notin {"idle", "run"} =>
           /\ call.call = "use" => IF call.pc = "close" THEN call.obj = db ELSE ~Opens(db)'
           /\ call.call = "replaced" => ~Opens(call.obj)'
  PROVE  OneLog'
<1>1. at' = [at EXCEPT ![t] = call] /\ at \in [Caller -> Call]
  BY DEF Goto, TypeInv, TypeOK, Caller
<1>2. ASSUME NEW u \in Thread PROVE Closes(at[u])'
  <2>1. CASE u = t
    BY <1>1, <2>1 DEF Closes
  <2>2. CASE u # t
    <3>1. at'[u] = at[u]
      BY <1>1, <2>2
    <3>2. Closes(at[u])
      BY DEF OneLog
    <3> QED  BY <3>1, <3>2 DEF Closes
  <2> QED  BY <2>1, <2>2
<1>3. at'[Main].pc # "run"
      /\ (at'[Main].pc # "idle" => at'[Main].call \in {"server", "member"})
  <2>1. CASE t = Main
    BY <1>1, <2>1 DEF Caller
  <2>2. CASE t # Main
    BY <1>1, <2>2 DEF Caller, OneLog, Busy
  <2> QED  BY <2>1, <2>2
<1> QED  BY <1>2, <1>3 DEF OneLog, Busy

(* Without calls there is nothing to close.                                *)
LEMMA OneLogIdle == (\A t \in Caller : at'[t] = Idle) => OneLog'
BY DEF OneLog, Closes, Busy, Idle, Caller

(* A step that leaves every call where it is and opens no log.             *)
LEMMA OneLogSame ==
  ASSUME OneLog, UNCHANGED <<db, at>>, \A o : Opens(o)' => Opens(o)
  PROVE  OneLog'
BY DEF OneLog, Closes, Busy

(* Every step of a server with one client thread keeps it.                 *)
LEMMA OneLogStep ==
  ASSUME \A t, u \in Thread : t = u
  PROVE  TypeInv /\ OneLog /\ [Next]_vars => OneLog'
<1> SUFFICES ASSUME TypeInv, OneLog, [Next]_vars PROVE OneLog'
  OBVIOUS
<1>0. obj \in [Obj -> DB \cup {Freed}] /\ at \in [Caller -> Call]
  BY DEF TypeInv, TypeOK, Caller
<1>1. ASSUME NEW x \in Name, Start(x) PROVE OneLog'
  BY <1>1, OneLogIdle DEF Start, TypeInv, ObjectInv, NoProcess
<1>2. ASSUME NEW t \in Thread, Command(t) PROVE OneLog'
  <2>0. t \in Caller /\ t # Main
    BY NamesAssumption DEF Caller
  <2>1. CASE Clear(t)
    <3>1. PICK call : /\ obj' = [obj EXCEPT ![db] = [@ EXCEPT !.store = NoKeys]] /\ db' = db
                      /\ Goto(t, call) /\ call.pc = "clear" /\ call.call = "clear"
      BY <2>1 DEF Clear
    <3>2. obj[db] \in DB /\ db \in Obj
      BY <2>1, LiveIsDB DEF Clear, Ready, TypeInv, ObjectInv
    <3>3. ASSUME NEW o, Opens(o)' PROVE Opens(o)
      <4>1. CASE o = db
        BY <1>0, <3>1, <3>2, <3>3, <4>1, DBIsLive DEF Opens, Live, DB
      <4>2. CASE o # db
        BY <1>0, <3>1, <3>3, <4>2 DEF Opens, Live
      <4> QED  BY <4>1, <4>2
    <3> QED  BY <2>0, <3>1, <3>3, OneLogKept
  <2>2. CASE ~Clear(t)
    <3>1. PICK call : /\ Goto(t, call) /\ UNCHANGED <<db, obj>>
                      /\ \/ call.pc = "run"
                         \/ /\ call.pc = "close" /\ call.obj = db
                            /\ call.call \in {"use", "quit"}
      BY <1>2, <2>2, CommandBegins DEF FromCommand
    <3>2. \A o : Opens(o)' => Opens(o)
      BY <3>1 DEF Opens, Live
    <3> QED  BY <2>0, <3>1, <3>2, OneLogKept
  <2> QED  BY <2>1, <2>2
<1>3. CASE Exit
  <2> DEFINE call == [pc |-> "close", obj |-> db, call |-> "server", to |-> NoName]
  <2>1. Goto(Main, call) /\ UNCHANGED <<db, obj>>
    BY <1>3 DEF Exit, Shutdown
  <2>2. \A o : Opens(o)' => Opens(o)
    BY <2>1 DEF Opens, Live
  <2>3. call.pc = "close" /\ call.call = "server" /\ Main \in Caller
    BY DEF Caller
  <2> HIDE DEF call
  <2> QED  BY <2>1, <2>2, <2>3, OneLogKept
<1>4. ASSUME NEW t \in Caller, Proceed(t) PROVE OneLog'
  <2>0. (t \in Thread => Closes(at[t])) /\ (t \in Thread \/ t = Main)
    BY DEF OneLog, Caller
  <2>1. CASE Step(t)
    <3> DEFINE o == at[t].obj
    <3>1. t \in Thread /\ t # Main
      BY <2>0, <2>1, NamesAssumption DEF Step, OneLog
    <3>2. PICK call, d : /\ Goto(t, call) /\ db' = db /\ obj' = [obj EXCEPT ![o] = d]
                         /\ call.pc \in {"idle", "run"}
                         /\ d.open = obj[o].open
      <4>1. obj[o] \in DB
        BY <2>1, LiveIsDB DEF Step, TypeInv
      <4>2. \A l \in Line : Applied(obj[o], l).open = obj[o].open
                            /\ Appended(obj[o], l).open = obj[o].open
        BY <4>1 DEF Applied, Appended, DB
      <4>3. Head(at[t].todo).line \in Line
        <5>1. at[t].todo \in Seq(Micro) /\ at[t].todo # <<>>
          BY <2>1, CallCases DEF Step, TypeInv, ObjectInv, Holds
        <5>2. Head(at[t].todo) \in Micro
          BY <5>1
        <5> QED  BY <5>2 DEF Micro
      <4>4. PICK call, d : /\ Goto(t, call) /\ db' = db /\ obj' = [obj EXCEPT ![o] = d]
                           /\ d \in {Applied(obj[o], Head(at[t].todo).line),
                                     Appended(obj[o], Head(at[t].todo).line)}
                           /\ call = Idle \/ call = [at[t] EXCEPT !.todo = Tail(@)]
        BY <2>1, Zenon DEF Step
      <4>5. call.pc \in {"idle", "run"}
        BY <2>1, <4>4, CallCases DEF Step, TypeInv, Call, Idle
      <4> QED  BY <4>2, <4>3, <4>4, <4>5
    <3>3. \A p : Opens(p)' => Opens(p)
      BY <1>0, <2>1, <3>2 DEF Opens, Live, Step
    <3> QED  BY <3>1, <3>2, <3>3, OneLogKept
  <2>2. CASE CloseLog(t)
    <3> DEFINE call == [at[t] EXCEPT !.pc = "compact"]
               o == at[t].obj
    <3>1. obj' = [obj EXCEPT ![o] = [[[@ EXCEPT !.buffer = <<>>] EXCEPT !.open = FALSE] EXCEPT !.file = NoName]]
      BY <2>2 DEF CloseLog
    <3>2. Goto(t, call) /\ db' = db /\ at[t].pc = "close" /\ obj[o] \in DB /\ o \in Obj
      BY <2>2, LiveIsDB DEF CloseLog, TypeInv
    <3>3. call.pc = "compact" /\ call.obj = o /\ call.call = at[t].call
      BY <3>2, CallCases DEF TypeInv, Call
    <3> HIDE DEF call
    <3>4. ~obj'[o].open
      BY <1>0, <3>1, <3>2 DEF DB
    <3>5. \A p : Opens(p)' => Opens(p) /\ p # o
      BY <1>0, <3>1, <3>4 DEF Opens, Live
    <3>6. t = Main => call.call \in {"server", "member"}
      BY <3>2, <3>3 DEF OneLog, Busy
    <3> QED  BY <2>0, <3>2, <3>3, <3>5, <3>6, OneLogKept DEF Closes
  <2>3. CASE CompactLog(t)
    <3>1. PICK call : call = [at[t] EXCEPT !.pc = "snapshot"] /\ Goto(t, call)
      BY <2>3 DEF CompactLog
    <3>2. db' = db /\ at[t].pc = "compact"
      BY <2>3 DEF CompactLog
    <3>3. call.pc = "snapshot" /\ call.obj = at[t].obj /\ call.call = at[t].call
      BY <3>1, <3>2, CallCases DEF TypeInv, Call
    <3>4. \A p \in Obj : obj'[p] = obj[p]
                         \/ \E tmp, x : obj'[p] = Relinked(obj[p], tmp, x)
      BY <2>3 DEF CompactLog
    <3>5. ASSUME NEW p, Opens(p)' PROVE Opens(p)
      <4>1. obj[p] \in DB
        BY <1>0, <3>4, <3>5 DEF Opens, Live, Relinked
      <4>2. obj'[p].open = obj[p].open
        BY <3>4, <3>5, <4>1 DEF Opens, Live, Relinked, DB
      <4> QED  BY <3>5, <4>1, <4>2, DBIsLive DEF Opens, Live
    <3>6. t = Main => call.call \in {"server", "member"}
      BY <3>2, <3>3 DEF OneLog, Busy
    <3> QED  BY <2>0, <3>1, <3>2, <3>3, <3>5, <3>6, OneLogKept DEF Closes
  <2>4. CASE ShutdownThrows(t) \/ UseFails(t) \/ ClearFiles(t)
    <3>1. Goto(t, Idle) /\ UNCHANGED <<db, obj>>
      BY <2>4 DEF ShutdownThrows, UseFails, ClearFiles
    <3>2. \A o : Opens(o)' => Opens(o)
      BY <3>1 DEF Opens, Live
    <3> QED  BY <3>1, <3>2, OneLogKept DEF Idle
  <2>5. CASE WriteSnapshot(t)
    <3>1. at[t].pc = "snapshot"
      BY <2>5 DEF WriteSnapshot
    <3>2. CASE at[t].call \in {"quit", "replaced"}
      <4>1. Goto(t, Idle) /\ db' = db /\ (obj' = obj \/ obj' = [obj EXCEPT ![at[t].obj] = Freed])
        BY <2>5, <3>2 DEF WriteSnapshot
      <4>2. \A o : Opens(o)' => Opens(o)
        BY <1>0, <4>1 DEF Opens, Live
      <4> QED  BY <4>1, <4>2, OneLogKept DEF Idle
    <3>3. CASE at[t].call \in {"use", "server"}
      <4>1. PICK call : /\ Goto(t, call) /\ UNCHANGED <<db, obj>>
                        /\ \/ /\ at[t].call = "use"
                              /\ call = [at[t] EXCEPT !.pc = "construct", !.obj = NoObj]
                           \/ /\ at[t].call = "server"
                              /\ call = [at[t] EXCEPT !.pc = "close", !.obj = db, !.call = "member"]
        BY <2>5, <3>3 DEF WriteSnapshot
      <4>2. \/ at[t].call = "use" /\ call.pc = "construct" /\ call.call = "use"
            \/ at[t].call = "server" /\ call.pc = "close" /\ call.call = "member"
        BY <3>1, <4>1, CallCases DEF TypeInv, Call
      <4>3. \A o : Opens(o)' => Opens(o)
        BY <4>1 DEF Opens, Live
      <4>4. t = Main => at[t].call = "server"
        BY <3>1, <3>3 DEF OneLog, Busy
      <4>5. at[t].call = "use" => ~Opens(db)
        BY <2>0, <3>1, <4>4 DEF Closes
      <4> QED  BY <4>1, <4>2, <4>3, <4>4, <4>5, OneLogKept
    <3>4. CASE at[t].call = "member"
      <4>1. \A u \in Caller : at'[u] = Idle
        BY <1>0, <2>5, <3>4 DEF WriteSnapshot
      <4> QED  BY <4>1, OneLogIdle
    <3> QED  BY <2>5, <3>2, <3>3, <3>4 DEF WriteSnapshot
  <2>6. CASE Construct(t)
    <3>1. PICK o \in Obj :
            /\ ~Live(o) /\ db' = db
            /\ \E d : obj' = [obj EXCEPT ![o] = d]
            /\ Goto(t, [at[t] EXCEPT !.pc = "swap", !.obj = o])
      BY <2>6 DEF Construct
    <3>2. at[t].pc = "construct" /\ at[t].call = "use" /\ t \in Thread
      BY <2>0, <2>6 DEF Construct, TypeInv, ObjectInv, Holds, OneLog, Busy
    <3>3. at'[t].pc = "swap" /\ at'[t].call = "use" /\ at'[Main] = at[Main]
      BY <1>0, <3>1, <3>2, CallCases, NamesAssumption DEF TypeInv, Call, Goto, Caller
    <3>4. ~Opens(db)'
      <4>1. ~Opens(db)
        BY <2>0, <3>2 DEF Closes
      <4>2. db # o
        BY <2>6, <3>1, <3>2 DEF TypeInv, ObjectInv, NoProcess, Idle, Caller
      <4> QED  BY <1>0, <3>1, <4>1, <4>2 DEF Opens, Live
    <3>5. Closes(at[t])'
      BY <3>3, <3>4 DEF Closes
    <3> QED  BY <3>2, <3>3, <3>5 DEF OneLog, Busy
  <2>7. CASE Swap(t)
    <3>1. /\ obj' = obj /\ at[t].pc = "swap"
          /\ at' = [at EXCEPT ![t] = [at[t] EXCEPT !.pc = "close", !.obj = db, !.call = "replaced"]]
      BY <2>7 DEF Swap, Goto
    <3>2. at[t].call = "use" /\ t \in Thread
      BY <2>0, <3>1 DEF TypeInv, ObjectInv, Holds, OneLog, Busy
    <3>3. /\ at'[t].pc = "close" /\ at'[t].obj = db /\ at'[t].call = "replaced"
          /\ at'[Main] = at[Main]
      BY <1>0, <3>1, <3>2, CallCases, NamesAssumption DEF TypeInv, Call, Caller
    <3>4. ~Opens(db)
      BY <2>0, <3>1, <3>2 DEF Closes
    <3>5. Closes(at[t])'
      BY <3>1, <3>3, <3>4 DEF Closes, Opens, Live
    <3> QED  BY <3>2, <3>3, <3>5 DEF OneLog, Busy
  <2> QED  BY <1>4, <2>1, <2>2, <2>3, <2>4, <2>5, <2>6, <2>7 DEF Proceed
<1>5. ASSUME NEW o \in Obj, Flush(o) PROVE OneLog'
  <2>1. obj' = [obj EXCEPT ![o] = [@ EXCEPT !.buffer = <<>>]] /\ UNCHANGED <<db, at>>
        /\ obj[o] \in DB
    BY <1>5, LiveIsDB DEF Flush, TypeInv
  <2>2. ASSUME NEW p, Opens(p)' PROVE Opens(p)
    <3>1. CASE p = o
      BY <1>0, <2>1, <2>2, <3>1, DBIsLive DEF Opens, Live, DB
    <3>2. CASE p # o
      BY <1>0, <2>1, <2>2, <3>2 DEF Opens, Live
    <3> QED  BY <3>1, <3>2
  <2> QED  BY <2>1, <2>2, OneLogSame
<1>6. CASE Crash
  BY <1>0, <1>6, OneLogIdle DEF Crash, Caller
<1>7. CASE UNCHANGED vars
  BY <1>7, OneLogSame DEF vars, Opens, Live
<1> QED  BY <1>1, <1>2, <1>3, <1>4, <1>5, <1>6, <1>7 DEF Next, Caller

(* With one client no two DBs append to one file (make_unique in use, with *)
(* the destructor of the DB it replaces still to come), whatever the main  *)
(* thread does and whatever path a temporary file has.                     *)
THEOREM OneWriter ==
  ASSUME \A t, u \in Thread : t = u
  PROVE  Spec => []OneWriterPerAof
<1>1. Init => Owned /\ OneLog
  BY DEF Init, Owned, Live, OneLog, Closes, Busy, Idle
<1>2. TypeInv /\ Owned /\ OneLog => OneWriterPerAof
  <2> SUFFICES ASSUME TypeInv, Owned, OneLog, NEW o \in Obj, NEW p \in Obj, o # p,
                      Opens(o), Opens(p)
               PROVE  FALSE
    BY DEF OneWriterPerAof, Opens
  <2>1. PICK q \in {o, p} : q # db
    OBVIOUS
  <2>2. PICK t \in Caller : Owns(t, q)
    BY <2>1 DEF Owned, Opens
  <2>3. t \in Thread /\ Opens(q)
    BY <2>2 DEF Owns, OneLog, Caller, TypeInv, ObjectInv, Holds
  <2>4. Closes(at[t])
    BY <2>3 DEF OneLog
  <2>5. at[t].pc = "swap" /\ at[t].obj = q
    BY <2>2, <2>3, <2>4 DEF Owns, Busy, Closes
  <2>6. ~Opens(db)
    BY <2>4, <2>5 DEF Closes, TypeInv, ObjectInv, Holds, Caller, Busy
  <2>7. PICK r \in {o, p} : r # q
    OBVIOUS
  <2>8. r # db /\ Opens(r)
    BY <2>6, <2>7
  <2>9. PICK u \in Caller : Owns(u, r)
    BY <2>8 DEF Owned, Opens
  <2>10. u \in Thread
    BY <2>9 DEF Owns, OneLog, Caller, TypeInv, ObjectInv, Holds
  <2>11. u = t
    BY <2>3, <2>10
  <2> QED  BY <2>5, <2>7, <2>9, <2>11 DEF Owns
<1>3. Spec => [](TypeInv /\ Owned /\ OneLog)
  <2>1. Init => TypeInv
    BY TypeInit
  <2>2. TypeInv /\ Owned /\ OneLog /\ [Next]_vars => (TypeInv /\ Owned /\ OneLog)'
    BY TypeStep, OwnedStep, OneLogStep
  <2> QED  BY <1>1, <2>1, <2>2, PTL DEF Spec
<1> QED  BY <1>2, <1>3, PTL
-----------------------------------------------------------------------------
(* What a replay of a log leaves does not change when lines that do not    *)
(* touch the key come in anywhere, here in front of the buffer b.          *)
LEMMA LeavesInsert ==
  ASSUME NEW a \in Seq(Line), NEW c \in Seq(Line), NEW b \in Seq(Line), NEW k, NEW w,
         Recovers(a \o b, k, w), \A i \in 1..Len(c) : ~Touches(c[i], k)
  PROVE  Recovers((a \o c) \o b, k, w)
<1>1. PICK u : Leaves(NoValue, a, k, u)
  <2>1. Len(a) \in Nat
    OBVIOUS
  <2> QED  BY <2>1, LeavesSome
<1>2. PICK x : Leaves(u, b, k, x)
  <2>1. Len(b) \in Nat
    OBVIOUS
  <2> QED  BY <2>1, LeavesSome
<1>3. Leaves(NoValue, a \o b, k, x)
  BY <1>1, <1>2, LeavesConcat, Zenon
<1>4. a \o b \in Seq(Line) /\ a \o c \in Seq(Line)
  BY ConcatIndices, Zenon
<1>5. x = w
  BY <1>3, <1>4, LeavesOneValue, Zenon DEF Recovers
<1>6. Leaves(u, c, k, u)
  BY LeavesUntouched
<1>7. Leaves(NoValue, a \o c, k, u)
  BY <1>1, <1>6, LeavesConcat, Zenon
<1> QED  BY <1>2, <1>4, <1>5, <1>7, LeavesConcat, Zenon DEF Recovers

(* A line at the end of the buffer gives its key its value.                *)
LEMMA LeavesAppended ==
  ASSUME NEW a \in Seq(Line), NEW b \in Seq(Line), NEW l \in Line, NEW k, NEW w,
         Recovers(a \o b, k, w), Readable(l)
  PROVE  Recovers(a \o Append(b, l), k, IF l.key = k THEN l.val ELSE w)
<1>1. a \o Append(b, l) = (a \o b) \o <<l>>
  OBVIOUS
<1>2. a \o b \in Seq(Line) /\ <<l>> \in Seq(Line)
  <2>1. <<l>> \in Seq(Line)
    OBVIOUS
  <2> QED  BY <2>1, ConcatIndices, Zenon
<1>3. Leaves(w, <<l>>, k, IF l.key = k THEN l.val ELSE w)
  BY LeavesLine DEF Touches
<1> QED  BY <1>1, <1>2, <1>3, LeavesConcat, Zenon DEF Recovers

(* What the micro-steps of a command still do to the log ("append") or to  *)
(* the table ("apply"): they leave v where key k has w.                    *)
Does(m, do, k) == m.do = do /\ m.line.key = k

Ends(todo, do, k, v, w) ==
  \/ v = w /\ \A i \in DOMAIN todo : ~Does(todo[i], do, k)
  \/ \E i \in DOMAIN todo :
       /\ Does(todo[i], do, k)
       /\ todo[i].line.val = v
       /\ \A j \in DOMAIN todo : j > i => ~Does(todo[j], do, k)

Mentions(todo, k) == \E i \in DOMAIN todo : todo[i].line.key = k

(* Behind its first micro-step a command still leaves the same.            *)
LEMMA EndsTail ==
  ASSUME NEW s \in Seq(Micro), s # <<>>, NEW do, NEW k, NEW v, NEW w, Ends(s, do, k, v, w)
  PROVE  Ends(Tail(s), do, k, v, IF Does(Head(s), do, k) THEN Head(s).line.val ELSE w)
<1>1. PICK r : r = Tail(s)
  OBVIOUS
<1>2. /\ Len(s) \in Nat \ {0} /\ Head(s) = s[1]
      /\ r \in Seq(Micro) /\ Len(r) = Len(s) - 1
      /\ \A i \in 1..(Len(s) - 1) : r[i] = s[i + 1]
  BY <1>1, TailMicros, Zenon
<1>3. /\ DOMAIN s = 1..Len(s) /\ DOMAIN r = 1..(Len(s) - 1)
      /\ \A i \in DOMAIN r : i + 1 \in DOMAIN s
  BY <1>2
<1>4. ASSUME \A i \in DOMAIN s : ~Does(s[i], do, k)
      PROVE  Ends(r, do, k, v, IF Does(Head(s), do, k) THEN Head(s).line.val ELSE w)
  <2>1. v = w /\ (\A i \in DOMAIN r : ~Does(r[i], do, k)) /\ ~Does(Head(s), do, k)
    BY <1>2, <1>3, <1>4 DEF Ends
  <2> QED  BY <2>1 DEF Ends
<1>5. ASSUME NEW i \in DOMAIN s, Does(s[i], do, k), s[i].line.val = v,
             \A j \in DOMAIN s : j > i => ~Does(s[j], do, k)
      PROVE  Ends(r, do, k, v, IF Does(Head(s), do, k) THEN Head(s).line.val ELSE w)
  <2>1. CASE i = 1
    <3>1. \A j \in DOMAIN r : ~Does(r[j], do, k)
      BY <1>2, <1>3, <1>5, <2>1
    <3> QED  BY <1>2, <1>5, <2>1, <3>1 DEF Ends
  <2>2. CASE i # 1
    <3>1. i - 1 \in DOMAIN r /\ r[i - 1] = s[i]
      BY <1>2, <1>3, <2>2
    <3>2. \A j \in DOMAIN r : j > i - 1 => ~Does(r[j], do, k)
      BY <1>2, <1>3, <1>5
    <3> QED  BY <1>5, <3>1, <3>2 DEF Ends
  <2> QED  BY <2>1, <2>2
<1>6. \/ \A i \in DOMAIN s : ~Does(s[i], do, k)
      \/ \E i \in DOMAIN s : /\ Does(s[i], do, k) /\ s[i].line.val = v
                             /\ \A j \in DOMAIN s : j > i => ~Does(s[j], do, k)
  BY DEF Ends
<1>7. Ends(r, do, k, v, IF Does(Head(s), do, k) THEN Head(s).line.val ELSE w)
  BY <1>1, <1>4, <1>5, <1>6
<1> QED  BY <1>1, <1>7

(* A key that is not mentioned any more keeps what it has.                 *)
LEMMA EndsOver ==
  ASSUME NEW s, NEW do, NEW k, NEW v, NEW w, Ends(s, do, k, v, w), ~Mentions(s, k)
  PROVE  v = w
BY DEF Ends, Mentions, Does

(* A key that the tail mentions, the whole mentions; so does the first     *)
(* micro-step its own.                                                     *)
LEMMA MentionsTail ==
  ASSUME NEW s \in Seq(Micro), s # <<>>
  PROVE  /\ \A k : Mentions(Tail(s), k) => Mentions(s, k)
         /\ Mentions(s, Head(s).line.key)
<1>1. PICK r : r = Tail(s)
  OBVIOUS
<1>2. /\ Len(s) \in Nat \ {0} /\ Head(s) = s[1]
      /\ r \in Seq(Micro) /\ Len(r) = Len(s) - 1
      /\ \A i \in 1..(Len(s) - 1) : r[i] = s[i + 1]
  BY <1>1, TailMicros, Zenon
<1>3. /\ DOMAIN s = 1..Len(s) /\ DOMAIN r = 1..(Len(s) - 1)
      /\ \A i \in DOMAIN r : i + 1 \in DOMAIN s
  BY <1>2
<1>4. \A k : Mentions(r, k) => Mentions(s, k)
  BY <1>2, <1>3 DEF Mentions
<1>5. Mentions(s, Head(s).line.key)
  BY <1>2, <1>3 DEF Mentions
<1> QED  BY <1>1, <1>4, <1>5

(* put and del of a DB that is not replaying, mput and mdel: what they     *)
(* leave in the log and in the table is the same, whatever was there.      *)
LEMMA CommandsAgree ==
  ASSUME NEW l \in Line, NEW m \in Line
  PROVE  /\ Mentions(SingleTodo(l, FALSE), l.key)
         /\ \A r, k : Mentions(SingleTodo(l, r), k) => k = l.key
         /\ \A w : /\ Ends(SingleTodo(l, FALSE), "append", l.key, l.val, w)
                   /\ Ends(SingleTodo(l, FALSE), "apply", l.key, l.val, w)
         /\ \A k : Mentions(MultiTodo(<<l, m>>), k) <=> k \in {l.key, m.key}
         /\ \A k \in {l.key, m.key} : \E v : \A w :
              /\ Ends(MultiTodo(<<l, m>>), "append", k, v, w)
              /\ Ends(MultiTodo(<<l, m>>), "apply", k, v, w)
<1>1. ASSUME NEW r, NEW k, Mentions(SingleTodo(l, r), k) PROVE k = l.key
  <2>1. PICK s : s = SingleTodo(l, r)
    OBVIOUS
  <2>2. /\ s \in Seq(Micro) /\ Len(s) = (IF r THEN 1 ELSE 2)
        /\ s[1] = [do |-> "apply", line |-> l]
        /\ ~r => s[2] = [do |-> "append", line |-> l]
    BY <2>1, SingleTodoIs, Zenon
  <2>3. DOMAIN s = IF r THEN {1} ELSE {1, 2}
    BY <2>2
  <2> QED  BY <1>1, <2>1, <2>2, <2>3 DEF Mentions
<1>2. PICK s : s = SingleTodo(l, FALSE)
  OBVIOUS
<1>3. /\ s \in Seq(Micro) /\ Len(s) = 2
      /\ s[1] = [do |-> "apply", line |-> l] /\ s[2] = [do |-> "append", line |-> l]
  <2>1. /\ s \in Seq(Micro) /\ Len(s) = (IF FALSE THEN 1 ELSE 2)
        /\ s[1] = [do |-> "apply", line |-> l]
        /\ ~FALSE => s[2] = [do |-> "append", line |-> l]
    BY <1>2, SingleTodoIs, ZenonT(40)
  <2> QED  BY <2>1
<1>4. DOMAIN s = {1, 2}
  BY <1>3
<1>5. Mentions(s, l.key)
  BY <1>3, <1>4 DEF Mentions
<1>6. ASSUME NEW w PROVE Ends(s, "append", l.key, l.val, w) /\ Ends(s, "apply", l.key, l.val, w)
  BY <1>3, <1>4 DEF Ends, Does
<1>7. PICK q : q = MultiTodo(<<l, m>>)
  OBVIOUS
<1>8. /\ q \in Seq(Micro) /\ Len(q) = 4
      /\ q[1] = [do |-> "append", line |-> l] /\ q[2] = [do |-> "append", line |-> m]
      /\ q[3] = [do |-> "apply", line |-> l] /\ q[4] = [do |-> "apply", line |-> m]
  <2>1. /\ MultiTodo(<<l, m>>) \in Seq(Micro) /\ Len(MultiTodo(<<l, m>>)) = 4
        /\ MultiTodo(<<l, m>>)[1] = [do |-> "append", line |-> l]
        /\ MultiTodo(<<l, m>>)[2] = [do |-> "append", line |-> m]
        /\ MultiTodo(<<l, m>>)[3] = [do |-> "apply", line |-> l]
        /\ MultiTodo(<<l, m>>)[4] = [do |-> "apply", line |-> m]
    BY MultiTodoIs, Zenon
  <2> QED  BY <1>7, <2>1, Zenon
<1>9. DOMAIN q = {1, 2, 3, 4}
  BY <1>8
<1>10. \A k : Mentions(q, k) <=> k \in {l.key, m.key}
  BY <1>8, <1>9 DEF Mentions
<1>11. ASSUME NEW k \in {l.key, m.key}
       PROVE  \E v : \A w : Ends(q, "append", k, v, w) /\ Ends(q, "apply", k, v, w)
  <2>1. CASE k = m.key
    <3>1. \A w : Ends(q, "append", k, m.val, w) /\ Ends(q, "apply", k, m.val, w)
      BY <1>8, <1>9, <2>1 DEF Ends, Does
    <3> QED  BY <3>1
  <2>2. CASE k # m.key
    <3>1. \A w : Ends(q, "append", k, l.val, w) /\ Ends(q, "apply", k, l.val, w)
      BY <1>8, <1>9, <1>11, <2>2 DEF Ends, Does
    <3> QED  BY <3>1
  <2> QED  BY <2>1, <2>2
<1> HIDE DEF Mentions
<1> QED  BY <1>1, <1>2, <1>5, <1>6, <1>7, <1>10, <1>11, Zenon
-----------------------------------------------------------------------------
(* A DB that appends to the AOF of its keyspace, and what that AOF will    *)
(* hold when the buffer has been flushed.                                  *)
Tracked(o)  == Opens(o) /\ obj[o].file = obj[o].name
Whole(o)    == aof[obj[o].name] \o obj[o].buffer
Known(o)    == Key \ unsure[obj[o].name]
Touching(t, o, k) == at[t].pc = "run" /\ at[t].obj = o /\ Mentions(at[t].todo, k)

(* A call that has closed the log of the server's DB, or is about another  *)
(* one: until it is done, more than one DB may be open, and every command  *)
(* that starts overlaps it.                                                *)
Leaving(t) ==
  /\ Busy(t) /\ at[t].pc # "clear"
  /\ at[t].pc = "close" => at[t].obj # db \/ at[t].call = "replaced"

Crowded(o) == o # db \/ \E t \in Caller : Leaving(t)

Files ==
  \A o \in Obj : Live(o) =>
    obj[o].file \in {obj[o].name, NoName} /\ (~obj[o].open => obj[o].buffer = <<>>)

Alone ==
  \A o \in Obj : Opens(o) =>
    \A k \in Known(o) : \A t, u \in Caller : Touching(t, o, k) /\ Touching(u, o, k) => t = u

Settled(o, k) ==
  /\ \A i \in 1..Len(obj[o].buffer) : obj[o].buffer[i].key # k
  /\ \A t \in Caller : ~Touching(t, o, k)

Clean ==
  \A o \in Obj : Opens(o) /\ Crowded(o) => \A k \in Known(o) : Settled(o, k)

(* A DB that is being cleared: its table is empty, its files are not yet.  *)
(* Until they are, a key about which there is no doubt is neither stored   *)
(* nor about to change, and while another call is busy every key is in     *)
(* doubt.                                                                  *)
Cleared(o) == \E t \in Caller : at[t].pc = "clear" /\ at[t].obj = o

Emptied ==
  \A t \in Caller : at[t].pc = "clear" /\ Live(at[t].obj) =>
    \A k \in Known(at[t].obj) :
      /\ \A u \in Caller : Busy(u) => u = t
      /\ obj[at[t].obj].store[k] = NoValue
      /\ \A u \in Caller : ~Touching(u, at[t].obj, k)

(* The log gives the key a value w that the table has too, when the        *)
(* command that still is to change the key has done so.                    *)
AgreeOn(o, k) ==
  \E w :
    /\ Recovers(Whole(o), k, w)
    /\ (\A t \in Caller : ~Touching(t, o, k)) => w = obj[o].store[k]
    /\ \A t \in Caller : Touching(t, o, k) =>
         \E v : /\ Ends(at[t].todo, "append", k, v, w)
                /\ Ends(at[t].todo, "apply", k, v, obj[o].store[k])

Agrees == \A o \in Obj : Tracked(o) /\ ~Cleared(o) => \A k \in Known(o) : AgreeOn(o, k)

AgreeInv == Files /\ Alone /\ Clean /\ Emptied /\ Agrees

(* The keys that calls of some threads still mention.                      *)
LEMMA MentionedIs ==
  ASSUME NEW ts, NEW k \in Key
  PROVE  k \in Mentioned(ts) <=>
           \E u \in ts : at[u].pc = "clear" \/ (at[u].pc = "run" /\ Mentions(at[u].todo, k))
BY DEF Mentioned, Mentions

(* A busy call that goes on leaves nothing known of a DB that another      *)
(* thread is clearing.                                                     *)
LEMMA EmptiedBusy ==
  ASSUME TypeInv, Emptied, NEW u \in Caller, NEW c, Busy(u), Goto(u, c), c.pc # "clear",
         \A o \in Obj : Live(o)' /\ Cleared(o)' =>
           /\ Live(o) /\ obj'[o].name = obj[o].name
           /\ unsure[obj[o].name] \subseteq unsure'[obj[o].name]
  PROVE  Emptied'
<1> SUFFICES ASSUME NEW t \in Caller, at'[t].pc = "clear", NEW o, o = at'[t].obj, Live(o)',
                    NEW k \in Known(o)'
             PROVE  FALSE
  BY DEF Emptied
<1>1. at \in [Caller -> Call] /\ at' = [at EXCEPT ![u] = c]
  BY DEF Goto, TypeInv, TypeOK, Caller
<1>2. t # u /\ at'[t] = at[t]
  BY <1>1
<1>3. o \in Obj /\ Cleared(o)'
  BY DEF Live, Cleared
<1>4. Live(o) /\ k \in Known(o)
  BY <1>3 DEF Known
<1> QED  BY <1>2, <1>4 DEF Emptied

(* What is known of a DB that is being cleared is known of one DB only,    *)
(* the server's.                                                           *)
LEMMA ClearedIs ==
  ASSUME TypeInv, Owned, Emptied, NEW t \in Caller, at[t].pc = "clear",
         NEW o, o = at[t].obj, Live(o),
         NEW p \in Obj, Live(p), obj[p].name = obj[o].name, NEW k \in Known(p)
  PROVE  /\ p = o /\ o = db
         /\ \A u \in Caller : Busy(u) => u = t
         /\ obj[o].store[k] = NoValue
         /\ \A u \in Caller : ~Touching(u, o, k)
<1>1. k \in Known(o) /\ o \in Obj
  BY DEF Known, Live
<1>2. /\ \A u \in Caller : Busy(u) => u = t
      /\ obj[o].store[k] = NoValue
      /\ \A u \in Caller : ~Touching(u, o, k)
  BY <1>1 DEF Emptied
<1>3. at[t].call # "replaced"
  BY DEF TypeInv, ObjectInv, Holds
<1>4. \A q \in Obj : Live(q) => q = db
  BY <1>2, <1>3 DEF Owned, Owns
<1> QED  BY <1>1, <1>2, <1>4

(* A key keeps its agreement when the log still gives it the same value    *)
(* and the calls that are to change it are the same.                       *)
LEMMA AgreeOnKept ==
  ASSUME NEW o, NEW k, AgreeOn(o, k), obj'[o].store[k] = obj[o].store[k],
         \A w : Recovers(Whole(o), k, w) => Recovers(Whole(o), k, w)',
         \A t \in Caller : /\ Touching(t, o, k)' <=> Touching(t, o, k)
                           /\ Touching(t, o, k) => at'[t].todo = at[t].todo
  PROVE  AgreeOn(o, k)'
<1>1. PICK w :
        /\ Recovers(Whole(o), k, w)
        /\ (\A t \in Caller : ~Touching(t, o, k)) => w = obj[o].store[k]
        /\ \A t \in Caller : Touching(t, o, k) =>
             \E v : /\ Ends(at[t].todo, "append", k, v, w)
                    /\ Ends(at[t].todo, "apply", k, v, obj[o].store[k])
  BY DEF AgreeOn
<1>2. Recovers(Whole(o), k, w)'
  BY <1>1
<1>3. (\A t \in Caller : ~Touching(t, o, k)') => w = obj'[o].store[k]
  BY <1>1
<1>4. ASSUME NEW t \in Caller, Touching(t, o, k)'
      PROVE  \E v : /\ Ends(at'[t].todo, "append", k, v, w)
                    /\ Ends(at'[t].todo, "apply", k, v, obj'[o].store[k])
  <2>1. Touching(t, o, k) /\ at'[t].todo = at[t].todo
    BY <1>4
  <2>2. PICK v : /\ Ends(at[t].todo, "append", k, v, w)
                 /\ Ends(at[t].todo, "apply", k, v, obj[o].store[k])
    BY <1>1, <2>1
  <2> QED  BY <2>1, <2>2
<1> QED  BY <1>2, <1>3, <1>4 DEF AgreeOn

(* A call that neither runs a command nor clears.                          *)
Elsewhere(call) == call.pc \notin {"run", "clear"}

(* Steps that begin and continue no command and open no log: the keys in   *)
(* doubt remain in doubt, and an AOF that a DB still appends to gives the  *)
(* same values.                                                            *)
LEMMA Passive ==
  ASSUME AgreeInv, Files', Emptied',
         \A t \in Caller : at'[t] = at[t] \/ (Elsewhere(at[t]) /\ Elsewhere(at'[t])),
         \A x \in Name : unsure[x] \subseteq unsure'[x],
         \A o \in Obj : Opens(o)' =>
           /\ Opens(o) /\ obj[o].name \in Name
           /\ obj'[o].name = obj[o].name /\ obj'[o].store = obj[o].store
           /\ obj'[o].buffer \in {obj[o].buffer, <<>>}
           /\ Crowded(o)' => Crowded(o)
           /\ Tracked(o)' =>
                /\ Tracked(o)
                /\ \A k \in Known(o) : \A w :
                     Recovers(Whole(o), k, w) => Recovers(Whole(o), k, w)'
  PROVE  AgreeInv'
<1>1. \A t \in Caller, o \in Obj : \A k :
        /\ Touching(t, o, k)' <=> Touching(t, o, k)
        /\ Touching(t, o, k) => at'[t].todo = at[t].todo
  BY DEF Touching, Elsewhere
<1>2. \A o \in Obj : Opens(o)' => Opens(o) /\ \A k \in Known(o)' : k \in Known(o)
  BY DEF Known
<1>3. Alone'
  BY <1>1, <1>2 DEF Alone, AgreeInv
<1>4. Clean'
  <2> SUFFICES ASSUME NEW o \in Obj, Opens(o)', Crowded(o)', NEW k \in Known(o)'
               PROVE  Settled(o, k)'
    BY DEF Clean
  <2>1. Settled(o, k)
    BY <1>2 DEF AgreeInv, Clean
  <2> QED  BY <1>1, <2>1 DEF Settled
<1>5. Agrees'
  <2> SUFFICES ASSUME NEW o \in Obj, Tracked(o)', ~Cleared(o)', NEW k \in Known(o)'
               PROVE  AgreeOn(o, k)'
    BY DEF Agrees
  <2>1. Opens(o)'
    BY DEF Tracked
  <2>2. Tracked(o) /\ ~Cleared(o) /\ k \in Known(o)
    BY <1>2, <2>1 DEF Cleared, Elsewhere
  <2>3. AgreeOn(o, k) /\ obj'[o].store[k] = obj[o].store[k]
    BY <2>1, <2>2 DEF AgreeInv, Agrees
  <2>4. \A w : Recovers(Whole(o), k, w) => Recovers(Whole(o), k, w)'
    BY <2>1, <2>2
  <2> QED  BY <1>1, <2>3, <2>4, AgreeOnKept
<1> QED  BY <1>3, <1>4, <1>5 DEF AgreeInv

(* A DB that is not alone is crowded: the other one is being swapped in,   *)
(* or has been swapped out.                                                *)
LEMMA TwoAreCrowded ==
  ASSUME TypeInv, Owned, NEW o \in Obj, NEW p \in Obj, o # p, Live(p)
  PROVE  Crowded(o)
<1>1. CASE o # db
  BY <1>1 DEF Crowded
<1>2. CASE o = db
  <2>1. PICK u \in Caller : Owns(u, p)
    BY <1>2 DEF Owned
  <2>2. Holds(u)
    BY DEF TypeInv, ObjectInv
  <2>3. Leaving(u)
    BY <2>1, <2>2 DEF Owns, Holds, Leaving
  <2> QED  BY <2>3 DEF Crowded
<1> QED  BY <1>1, <1>2

(* What one DB writes does not touch what another one on the same AOF      *)
(* agrees about.                                                           *)
LEMMA WrittenKeeps ==
  ASSUME TypeInv, Owned, AgreeInv, NEW o \in Obj, Live(o), aof' = Written(o),
         NEW p \in Obj, p # o, Opens(p), obj'[p] = obj[p],
         NEW k \in Known(p), NEW w, Recovers(Whole(p), k, w)
  PROVE  Recovers(Whole(p), k, w)'
<1>1. obj[o] \in DB /\ obj[p] \in DB /\ Live(p)
  BY LiveIsDB DEF TypeInv, Opens
<1>2. obj[p].name \in Name /\ obj[o].name \in Name
  BY <1>1, DBIsLive
<1>3. obj[o].file \in {obj[o].name, NoName} /\ (~obj[o].open => obj[o].buffer = <<>>)
  BY DEF AgreeInv, Files
<1>4. aof \in [Name -> Seq(Line)]
  BY DEF TypeInv, TypeOK
<1>5. CASE obj[o].file # obj[p].name
  <2>1. aof'[obj[p].name] = aof[obj[p].name]
    BY <1>2, <1>4, <1>5 DEF Written
  <2> QED  BY <2>1 DEF Whole
<1>6. CASE obj[o].file = obj[p].name
  <2> DEFINE a == aof[obj[p].name]
             b == obj[p].buffer
             c == obj[o].buffer
  <2>1. obj[o].name = obj[p].name /\ obj[o].file # NoName
    BY <1>2, <1>3, <1>6, NamesAssumption
  <2>2. a \in Seq(Line) /\ b \in Seq(Line) /\ c \in Seq(Line)
    BY <1>1, <1>2, <1>4 DEF DB
  <2>3. aof'[obj[p].name] = a \o c
    BY <1>2, <1>4, <1>6, <2>1 DEF Written
  <2>4. \A i \in 1..Len(c) : ~Touches(c[i], k)
    <3>1. CASE ~obj[o].open
      <4>1. Len(c) = 0
        BY <1>3, <3>1
      <4> QED  BY <4>1
    <3>2. CASE obj[o].open
      <4>1. Opens(o) /\ k \in Known(o)
        BY <2>1, <3>2 DEF Opens, Known
      <4>2. Settled(o, k)
        BY <1>1, <4>1, TwoAreCrowded DEF AgreeInv, Clean
      <4> QED  BY <4>2 DEF Settled, Touches
    <3> QED  BY <3>1, <3>2
  <2>5. Whole(p) = a \o b /\ Whole(p)' = (a \o c) \o b
    BY <2>3 DEF Whole
  <2> HIDE DEF a, b, c
  <2>6. Recovers((a \o c) \o b, k, w)
    BY <2>2, <2>4, <2>5, LeavesInsert, Zenon
  <2> QED  BY <2>5, <2>6, Zenon DEF Recovers
<1> QED  BY <1>5, <1>6

(* A flush.                                                                *)
LEMMA FlushAgrees ==
  ASSUME TypeInv, Owned, AgreeInv, NEW o \in Obj, Flush(o)
  PROVE  AgreeInv'
<1>1. /\ Live(o) /\ obj[o].open /\ aof' = Written(o) /\ UNCHANGED <<db, at, unsure>>
      /\ obj' = [obj EXCEPT ![o] = [@ EXCEPT !.buffer = <<>>]]
  BY DEF Flush, history
<1>2. obj[o] \in DB /\ obj \in [Obj -> DB \cup {Freed}] /\ aof \in [Name -> Seq(Line)]
  BY <1>1, LiveIsDB DEF TypeInv, TypeOK
<1>3. /\ obj'[o].buffer = <<>> /\ obj'[o].name = obj[o].name /\ obj'[o].store = obj[o].store
      /\ obj'[o].file = obj[o].file /\ obj'[o].open = obj[o].open
      /\ \A p \in Obj : p # o => obj'[p] = obj[p]
  BY <1>1, <1>2 DEF DB
<1>4. Files'
  BY <1>1, <1>3 DEF AgreeInv, Files, Live
<1>5. \A p : Crowded(p)' => Crowded(p)
  BY <1>1 DEF Crowded, Leaving, Busy
<1>6. ASSUME NEW p \in Obj, Opens(p)'
      PROVE  /\ Opens(p) /\ obj[p].name \in Name
             /\ obj'[p].name = obj[p].name /\ obj'[p].store = obj[p].store
             /\ obj'[p].buffer \in {obj[p].buffer, <<>>}
             /\ Tracked(p)' => Tracked(p)
  <2>1. Opens(p)
    BY <1>1, <1>3, <1>6 DEF Opens, Live
  <2>2. obj[p] \in DB
    BY <2>1, LiveIsDB DEF Opens, TypeInv
  <2> QED  BY <1>3, <2>1, <2>2, DBIsLive DEF Tracked
<1>7. ASSUME NEW p \in Obj, Tracked(p)', NEW k \in Known(p), NEW w, Recovers(Whole(p), k, w)
      PROVE  Recovers(Whole(p), k, w)'
  <2>1. Opens(p) /\ Tracked(p)
    BY <1>6, <1>7 DEF Tracked
  <2>2. CASE p = o
    <3>1. obj[o].file = obj[o].name /\ obj[o].name \in Name /\ obj[o].name # NoName
      BY <1>2, <2>1, <2>2, DBIsLive DEF Tracked
    <3>2. aof'[obj[o].name] = aof[obj[o].name] \o obj[o].buffer
      BY <1>1, <1>2, <3>1 DEF Written
    <3>3. aof[obj[o].name] \o obj[o].buffer \in Seq(Line)
      <4>1. aof[obj[o].name] \in Seq(Line) /\ obj[o].buffer \in Seq(Line)
        BY <1>2, <3>1 DEF DB
      <4> QED  BY <4>1, ConcatIndices, Zenon
    <3>4. Whole(o)' = (aof[obj[o].name] \o obj[o].buffer) \o <<>>
      BY <1>3, <3>2 DEF Whole
    <3>5. \A s \in Seq(Line) : s \o <<>> = s
      OBVIOUS
    <3>6. Whole(o)' = Whole(o)
      BY <3>3, <3>4, <3>5, Zenon DEF Whole
    <3> QED  BY <1>7, <2>2, <3>6
  <2>3. CASE p # o
    BY <1>1, <1>3, <1>7, <2>1, <2>3, WrittenKeeps
  <2> QED  BY <2>2, <2>3
<1>8. /\ \A t \in Caller : at'[t] = at[t] \/ (Elsewhere(at[t]) /\ Elsewhere(at'[t]))
      /\ \A x \in Name : unsure[x] \subseteq unsure'[x]
  BY <1>1
<1>9. Emptied'
  <2>1. \A p \in Obj : /\ Live(p)' => Live(p)
                       /\ Known(p)' = Known(p) /\ obj'[p].store = obj[p].store
    BY <1>1, <1>3 DEF Live, Known
  <2>2. \A u \in Caller : /\ Busy(u)' <=> Busy(u)
                          /\ \A p, k : Touching(u, p, k)' <=> Touching(u, p, k)
    BY <1>1 DEF Busy, Touching
  <2>3. \A p : Live(p)' => p \in Obj
    BY DEF Live
  <2> QED  BY <1>1, <2>1, <2>2, <2>3 DEF AgreeInv, Emptied
<1> QED  BY <1>4, <1>5, <1>6, <1>7, <1>8, <1>9, Passive

(* Steps that change at most the calls and more keys into keys in doubt.   *)
LEMMA CallsOnly ==
  ASSUME TypeInv, AgreeInv, Emptied', UNCHANGED <<obj, aof>>,
         \A t \in Caller : at'[t] = at[t] \/ (Elsewhere(at[t]) /\ Elsewhere(at'[t])),
         \A x \in Name : unsure[x] \subseteq unsure'[x],
         \A o \in Obj : Opens(o) /\ Crowded(o)' => Crowded(o)
  PROVE  AgreeInv'
<1>1. Files'
  BY DEF AgreeInv, Files, Live
<1>2. ASSUME NEW o \in Obj, Opens(o)'
      PROVE  /\ Opens(o) /\ obj[o].name \in Name
             /\ obj'[o].name = obj[o].name /\ obj'[o].store = obj[o].store
             /\ obj'[o].buffer \in {obj[o].buffer, <<>>}
             /\ Tracked(o)' => /\ Tracked(o)
                               /\ Whole(o)' = Whole(o)
  <2>1. Opens(o)
    BY <1>2 DEF Opens, Live
  <2>2. obj[o] \in DB
    BY <2>1, LiveIsDB DEF Opens, TypeInv
  <2> QED  BY <2>1, <2>2, DBIsLive DEF Tracked, Opens, Live, Whole
<1> QED  BY <1>1, <1>2, Passive

(* use, quit and ~Server enter shutdown(): what any command is changing is *)
(* in doubt from then on.                                                  *)
LEMMA ShutdownAgrees ==
  ASSUME TypeInv, AgreeInv, NEW t \in Caller, at[t].pc = "idle", NEW call, NEW x,
         Shutdown(t, call, x), call # "replaced"
  PROVE  AgreeInv'
<1> DEFINE c == [pc |-> "close", obj |-> db, call |-> call, to |-> x]
<1>1. at' = [at EXCEPT ![t] = c] /\ UNCHANGED <<db, obj, aof>>
      /\ at \in [Caller -> Call]
  BY DEF Shutdown, Goto, TypeInv, TypeOK, Caller
<1>2. c.pc = "close" /\ c.obj = db /\ c.call = call
  OBVIOUS
<1> HIDE DEF c
<1>3. \A u \in Caller : at'[u] = IF u = t THEN c ELSE at[u]
  BY <1>1
<1>4. \A y \in Name : unsure[y] \subseteq unsure'[y]
  BY DEF Shutdown
<1>5. \A u \in Caller : Leaving(u)' => Leaving(u)
  BY <1>1, <1>2, <1>3 DEF Leaving, Busy
<1>6. \A o \in Obj : Crowded(o)' => Crowded(o)
  BY <1>1, <1>5 DEF Crowded
<1>7. \A u \in Caller : at'[u] = at[u] \/ (Elsewhere(at[u]) /\ Elsewhere(at'[u]))
  BY <1>2, <1>3 DEF Elsewhere
<1>8. Emptied'
  <2> SUFFICES ASSUME NEW u \in Caller, at'[u].pc = "clear", NEW o, o = at'[u].obj, Live(o)',
                      NEW k \in Known(o)'
               PROVE  FALSE
    BY DEF Emptied
  <2>1. at[u].pc = "clear" /\ o \in Obj /\ Live(o) /\ k \in Key
    BY <1>1, <1>2, <1>3 DEF Live, Known
  <2>2. obj[o].name \in Name /\ Shared(obj[o].name)
    BY <2>1, LiveIsDB, DBIsLive DEF TypeInv, Shared
  <2>3. k \in Mentioned(DOMAIN at)
    BY <1>1, <2>1, MentionedIs
  <2>4. k \in unsure'[obj[o].name]
    BY <2>2, <2>3 DEF Shutdown
  <2> QED  BY <1>1, <2>4 DEF Known
<1> QED  BY <1>1, <1>4, <1>6, <1>7, <1>8, CallsOnly

(* use and quit give up.                                                   *)
LEMMA GivesUpAgrees ==
  ASSUME TypeInv, AgreeInv, NEW t \in Caller, ShutdownThrows(t) \/ UseFails(t)
  PROVE  AgreeInv'
<1>1. at' = [at EXCEPT ![t] = Idle] /\ UNCHANGED <<db, obj, aof, unsure>>
      /\ Elsewhere(at[t]) /\ Busy(t) /\ at \in [Caller -> Call]
  BY DEF ShutdownThrows, UseFails, Goto, history, TypeInv, TypeOK, Caller, Elsewhere, Busy
<1>2. \A u \in Caller : Leaving(u)' => Leaving(u)
  BY <1>1 DEF Leaving, Busy, Idle
<1>3. \A o \in Obj : Crowded(o)' => Crowded(o)
  BY <1>1, <1>2 DEF Crowded
<1>4. \A u \in Caller : at'[u] = at[u] \/ (Elsewhere(at[u]) /\ Elsewhere(at'[u]))
  BY <1>1 DEF Idle, Elsewhere
<1>5. Emptied'
  <2>1. Goto(t, Idle) /\ Idle.pc # "clear"
    BY <1>1 DEF Goto, Idle
  <2>2. \A o \in Obj : Live(o)' => Live(o)
    BY <1>1 DEF Live
  <2> QED  BY <1>1, <2>1, <2>2, EmptiedBusy DEF AgreeInv
<1> QED  BY <1>1, <1>3, <1>4, <1>5, CallsOnly

(* The pointer first, then the old DB's destructor: what was being swapped *)
(* in has been crowded already.                                            *)
LEMMA SwapAgrees ==
  ASSUME TypeInv, AgreeInv, NEW t \in Caller, Swap(t)
  PROVE  AgreeInv'
<1> DEFINE c == [at[t] EXCEPT !.pc = "close", !.obj = db, !.call = "replaced"]
<1>1. at' = [at EXCEPT ![t] = c] /\ UNCHANGED <<obj, aof, unsure>>
      /\ at[t].pc = "swap" /\ at \in [Caller -> Call]
  BY DEF Swap, Goto, history, TypeInv, TypeOK, Caller
<1>2. c.pc = "close"
  BY <1>1, CallCases DEF TypeInv, Call
<1> HIDE DEF c
<1>3. \A u \in Caller : at'[u] = IF u = t THEN c ELSE at[u]
  BY <1>1
<1>4. Leaving(t)
  BY <1>1 DEF Leaving, Busy, TypeInv, ObjectInv, Holds
<1>5. \A o \in Obj : Crowded(o)
  BY <1>4 DEF Crowded
<1>6. \A u \in Caller : at'[u] = at[u] \/ (Elsewhere(at[u]) /\ Elsewhere(at'[u]))
  BY <1>1, <1>2, <1>3 DEF Elsewhere
<1>7. Emptied'
  BY <1>1, <1>2, <1>4, EmptiedBusy DEF AgreeInv, Goto, Live, Leaving
<1> QED  BY <1>1, <1>5, <1>6, <1>7, CallsOnly

(* closeLog: the DB that closes is not tracked any more.                   *)
LEMMA CloseLogAgrees ==
  ASSUME TypeInv, Owned, AgreeInv, NEW t \in Caller, CloseLog(t)
  PROVE  AgreeInv'
<1> DEFINE o == at[t].obj
           c == [at[t] EXCEPT !.pc = "compact"]
<1>1. /\ Live(o) /\ aof' = Written(o) /\ UNCHANGED <<db, unsure>> /\ at[t].pc = "close"
      /\ obj' = [obj EXCEPT ![o] = [[[@ EXCEPT !.buffer = <<>>] EXCEPT !.open = FALSE]
                                       EXCEPT !.file = NoName]]
      /\ at' = [at EXCEPT ![t] = c]
  BY DEF CloseLog, history, Goto
<1>2. /\ obj[o] \in DB /\ o \in Obj /\ obj \in [Obj -> DB \cup {Freed}]
      /\ at \in [Caller -> Call]
  BY <1>1, LiveIsDB DEF TypeInv, TypeOK, Caller
<1>3. /\ obj'[o].buffer = <<>> /\ obj'[o].file = NoName /\ ~obj'[o].open
      /\ \A p \in Obj : p # o => obj'[p] = obj[p]
  BY <1>1, <1>2 DEF DB
<1>4. Files'
  BY <1>1, <1>3 DEF AgreeInv, Files, Live
<1>5. c.pc = "compact" /\ c.obj = o /\ c.call = at[t].call
  BY <1>1, CallCases DEF TypeInv, Call
<1> HIDE DEF c
<1>6. \A u \in Caller : at'[u] = IF u = t THEN c ELSE at[u]
  BY <1>1, <1>2
<1>7. ASSUME NEW p \in Obj, Opens(p)'
      PROVE  /\ p # o /\ Opens(p) /\ obj[p].name \in Name /\ obj'[p] = obj[p]
             /\ Tracked(p)' => Tracked(p)
  <2>1. p # o
    BY <1>3, <1>7 DEF Opens
  <2>2. Opens(p) /\ obj'[p] = obj[p]
    BY <1>3, <1>7, <2>1 DEF Opens, Live
  <2>3. obj[p] \in DB
    BY <2>2, LiveIsDB DEF Opens, TypeInv
  <2> QED  BY <2>1, <2>2, <2>3, DBIsLive DEF Tracked
<1>8. ASSUME NEW p \in Obj, Opens(p)', Crowded(p)' PROVE Crowded(p)
  <2>1. CASE p # db
    BY <2>1 DEF Crowded
  <2>2. CASE p = db
    <3>1. PICK u \in Caller : Leaving(u)'
      BY <1>1, <1>8, <2>2 DEF Crowded
    <3>2. CASE u = t
      <4>1. o # db
        BY <1>7, <1>8, <2>2
      <4>2. Leaving(t)
        BY <1>1, <4>1 DEF Leaving, Busy
      <4> QED  BY <4>2 DEF Crowded
    <3>3. CASE u # t
      <4>1. Leaving(u)
        BY <1>1, <1>6, <3>1, <3>3 DEF Leaving, Busy
      <4> QED  BY <4>1 DEF Crowded
    <3> QED  BY <3>2, <3>3
  <2> QED  BY <2>1, <2>2
<1>9. ASSUME NEW p \in Obj, Tracked(p)', NEW k \in Known(p), NEW w, Recovers(Whole(p), k, w)
      PROVE  Recovers(Whole(p), k, w)'
  BY <1>1, <1>2, <1>7, <1>9, WrittenKeeps DEF Tracked
<1>10. /\ \A u \in Caller : at'[u] = at[u] \/ (Elsewhere(at[u]) /\ Elsewhere(at'[u]))
       /\ \A x \in Name : unsure[x] \subseteq unsure'[x]
  BY <1>1, <1>5, <1>6 DEF Elsewhere
<1>11. Emptied'
  <2>1. \A p \in Obj : Live(p)' => Live(p) /\ obj'[p].name = obj[p].name
    <3>1. obj'[o].name = obj[o].name
      BY <1>1, <1>2 DEF DB
    <3> QED  BY <1>1, <1>3, <3>1 DEF Live
  <2> QED  BY <1>1, <1>5, <2>1, EmptiedBusy DEF AgreeInv, Goto, Busy
<1> QED  BY <1>4, <1>7, <1>8, <1>9, <1>10, <1>11, Passive

(* compactLog, where no keyspace has the path of another one's temporary   *)
(* file: a DB that still has the AOF of that name open is not tracked any  *)
(* more.                                                                   *)
LEMMA CompactLogAgrees ==
  ASSUME \A x \in Name : Temp[x] = NoName,
         TypeInv, AgreeInv, NEW t \in Caller, CompactLog(t)
  PROVE  AgreeInv'
<1> DEFINE o == at[t].obj
           x == obj[o].name
           c == [at[t] EXCEPT !.pc = "snapshot"]
<1>1. /\ Live(o) /\ UNCHANGED db /\ at[t].pc = "compact"
      /\ at' = [at EXCEPT ![t] = c]
  BY DEF CompactLog, Goto
<1>2. /\ obj[o] \in DB /\ o \in Obj /\ obj \in [Obj -> DB \cup {Freed}]
      /\ at \in [Caller -> Call] /\ aof \in [Name -> Seq(Line)]
      /\ unsure \in [Name -> SUBSET Key]
  BY <1>1, LiveIsDB DEF TypeInv, TypeOK, Caller
<1>3. x \in Name /\ x # NoName
  BY <1>2, DBIsLive
<1>4. c.pc = "snapshot" /\ c.obj = o /\ c.call = at[t].call
  BY <1>1, CallCases DEF TypeInv, Call
<1> HIDE DEF c
<1>5. \A u \in Caller : at'[u] = IF u = t THEN c ELSE at[u]
  BY <1>1, <1>2
<1>6. \/ UNCHANGED <<obj, aof>>
      \/ /\ \A p \in Obj : obj'[p] = Relinked(obj[p], NoName, x)
         /\ \A y \in Name : y # x => aof'[y] = aof[y]
  <2>1. CASE ~obj[o].dirty \/ Stored(obj[o]) = {}
    BY <2>1 DEF CompactLog
  <2>2. CASE obj[o].dirty /\ Stored(obj[o]) # {}
    <3>1. PICK tmp \in TempNames(obj[o]), dump \in Dumps(obj[o]) :
             /\ aof' = [y \in Name |-> IF y = x THEN dump
                                       ELSE IF y = tmp THEN <<>> ELSE aof[y]]
             /\ obj' = [p \in Obj |-> Relinked(obj[p], tmp, x)]
      BY <2>2 DEF CompactLog
    <3>2. tmp = NoName
      BY <1>3, <3>1 DEF TempNames
    <3> QED  BY <3>1, <3>2, NamesAssumption
  <2> QED  BY <2>1, <2>2
<1>7. ASSUME NEW p \in Obj
      PROVE  /\ Live(p)' <=> Live(p)
             /\ Live(p) => /\ obj'[p].name = obj[p].name /\ obj'[p].store = obj[p].store
                           /\ obj'[p].buffer = obj[p].buffer /\ obj'[p].open = obj[p].open
                           /\ obj[p].name \in Name
                           /\ \/ obj'[p].file = NoName
                              \/ /\ obj'[p].file = obj[p].file
                                 /\ UNCHANGED aof \/ obj[p].file # x
  <2>1. CASE UNCHANGED <<obj, aof>>
    BY <2>1, LiveIsDB, DBIsLive DEF Live, TypeInv
  <2>2. CASE ~Live(p)
    BY <1>6, <2>2 DEF Live, Relinked
  <2>3. CASE Live(p) /\ obj'[p] = Relinked(obj[p], NoName, x)
    <3>1. obj[p] \in DB
      BY <2>3, LiveIsDB DEF TypeInv
    <3>2. obj'[p] = [obj[p] EXCEPT !.file = IF @ = x THEN NoName ELSE @]
      BY <1>3, <2>3, <3>1, DBIsLive DEF Relinked
    <3>3. /\ obj'[p].name = obj[p].name /\ obj'[p].store = obj[p].store
          /\ obj'[p].buffer = obj[p].buffer /\ obj'[p].open = obj[p].open
          /\ obj'[p].file = IF obj[p].file = x THEN NoName ELSE obj[p].file
          /\ obj'[p] \in DB
      BY <3>1, <3>2 DEF DB
    <3> QED  BY <2>3, <3>1, <3>3, DBIsLive DEF Live
  <2> QED  BY <1>6, <2>1, <2>2, <2>3
<1>8. Files'
  BY <1>7 DEF AgreeInv, Files
<1>9. \A u \in Caller : Leaving(u)' => Leaving(u)
  BY <1>1, <1>4, <1>5 DEF Leaving, Busy
<1>10. \A p : Crowded(p)' => Crowded(p)
  BY <1>1, <1>9 DEF Crowded
<1>11. ASSUME NEW p \in Obj, Opens(p)'
       PROVE  /\ Opens(p) /\ obj[p].name \in Name
              /\ obj'[p].name = obj[p].name /\ obj'[p].store = obj[p].store
              /\ obj'[p].buffer \in {obj[p].buffer, <<>>}
              /\ Tracked(p)' => /\ Tracked(p)
                                /\ Whole(p)' = Whole(p)
  <2>1. Opens(p) /\ Live(p)
    BY <1>7, <1>11 DEF Opens
  <2>2. ASSUME Tracked(p)' PROVE Tracked(p) /\ Whole(p)' = Whole(p)
    <3>1. /\ obj'[p].file = obj[p].file /\ obj[p].file = obj[p].name
          /\ UNCHANGED aof \/ obj[p].name # x
      BY <1>7, <2>1, <2>2, NamesAssumption DEF Tracked
    <3>2. aof'[obj[p].name] = aof[obj[p].name]
      BY <1>6, <1>7, <2>1, <3>1
    <3> QED  BY <1>7, <2>1, <3>1, <3>2 DEF Tracked, Whole
  <2> QED  BY <1>7, <2>1, <2>2
<1>12. /\ \A u \in Caller : at'[u] = at[u] \/ (Elsewhere(at[u]) /\ Elsewhere(at'[u]))
       /\ \A y \in Name : unsure[y] \subseteq unsure'[y]
  <2>1. \A y \in Name : unsure[y] \subseteq unsure'[y]
    BY <1>1, <1>2 DEF CompactLog
  <2> QED  BY <1>1, <1>2, <1>4, <1>5, <2>1 DEF Elsewhere
<1>13. Emptied'
  BY <1>1, <1>4, <1>7, <1>12, EmptiedBusy DEF AgreeInv, Goto, Busy
<1> QED  BY <1>8, <1>10, <1>11, <1>12, <1>13, Passive

(* Without DBs there is nothing to agree about.                            *)
LEMMA NothingToAgree == (\A o \in Obj : obj'[o] = Freed) => AgreeInv'
BY DEF AgreeInv, Files, Alone, Clean, Emptied, Agrees, Tracked, Opens, Live

(* The end of shutdown(), and of the destructors that call it.             *)
LEMMA WriteSnapshotAgrees ==
  ASSUME TypeInv, AgreeInv, NEW t \in Caller, WriteSnapshot(t)
  PROVE  AgreeInv'
<1>0. /\ at[t].pc = "snapshot" /\ UNCHANGED <<aof, unsure>>
      /\ at \in [Caller -> Call] /\ obj \in [Obj -> DB \cup {Freed}]
  BY DEF WriteSnapshot, TypeInv, TypeOK, Caller
<1>1. CASE at[t].call = "member"
  <2>1. obj' = [p \in Obj |-> Freed]
    BY <1>1 DEF WriteSnapshot
  <2> QED  BY <2>1, NothingToAgree
<1>2. ASSUME NEW c, Goto(t, c), c.pc # "run", UNCHANGED db,
             c.pc \in {"idle", "construct"} \/ (c.pc = "close" /\ c.call = "member"),
             c.pc = "construct" => at[t].call = "use",
             obj' = obj \/ obj' = [obj EXCEPT ![at[t].obj] = Freed]
      PROVE  AgreeInv'
  <2>1. \A u \in Caller : at'[u] = IF u = t THEN c ELSE at[u]
    BY <1>0, <1>2 DEF Goto
  <2>2. \A u \in Caller : Leaving(u)' => Leaving(u)
    BY <1>0, <1>2, <2>1 DEF Leaving, Busy
  <2>3. \A p : Crowded(p)' => Crowded(p)
    BY <1>2, <2>2 DEF Crowded
  <2>4. \A p \in Obj : obj'[p] = obj[p] \/ obj'[p] = Freed
    BY <1>0, <1>2
  <2>5. Files'
    BY <2>4 DEF AgreeInv, Files, Live
  <2>6. ASSUME NEW p \in Obj, Opens(p)'
        PROVE  /\ Opens(p) /\ obj[p].name \in Name
               /\ obj'[p].name = obj[p].name /\ obj'[p].store = obj[p].store
               /\ obj'[p].buffer \in {obj[p].buffer, <<>>}
               /\ Tracked(p)' => /\ Tracked(p)
                                 /\ Whole(p)' = Whole(p)
    <3>1. obj'[p] = obj[p] /\ Opens(p)
      BY <2>4, <2>6 DEF Opens, Live
    <3>2. obj[p] \in DB
      BY <3>1, LiveIsDB DEF Opens, TypeInv
    <3> QED  BY <1>0, <3>1, <3>2, DBIsLive DEF Tracked, Opens, Live, Whole
  <2>7. /\ \A u \in Caller : at'[u] = at[u] \/ (Elsewhere(at[u]) /\ Elsewhere(at'[u]))
        /\ \A y \in Name : unsure[y] \subseteq unsure'[y]
    BY <1>0, <1>2, <2>1 DEF Elsewhere
  <2>8. Emptied'
    <3>1. \A p \in Obj : Live(p)' => Live(p) /\ obj'[p].name = obj[p].name
      BY <2>4 DEF Live
    <3> QED  BY <1>0, <1>2, <3>1, EmptiedBusy DEF AgreeInv, Busy
  <2> QED  BY <2>3, <2>5, <2>6, <2>7, <2>8, Passive
<1>3. CASE at[t].call \in {"quit", "replaced"}
  BY <1>2, <1>3 DEF WriteSnapshot, Idle
<1>4. CASE at[t].call = "use"
  <2>1. PICK c : c = [at[t] EXCEPT !.pc = "construct", !.obj = NoObj] /\ Goto(t, c)
                 /\ UNCHANGED <<db, obj>>
    BY <1>4 DEF WriteSnapshot
  <2>2. c.pc = "construct"
    BY <1>0, <2>1, CallCases DEF TypeInv, Call
  <2> QED  BY <1>2, <1>4, <2>1, <2>2
<1>5. CASE at[t].call = "server"
  <2>1. PICK c : c = [at[t] EXCEPT !.pc = "close", !.obj = db, !.call = "member"] /\ Goto(t, c)
                 /\ UNCHANGED <<db, obj>>
    BY <1>5 DEF WriteSnapshot
  <2>2. c.pc = "close" /\ c.call = "member"
    BY <1>0, <2>1, CallCases DEF TypeInv, Call
  <2> QED  BY <1>2, <2>1, <2>2
<1> QED  BY <1>1, <1>3, <1>4, <1>5 DEF WriteSnapshot

(* A DB is constructed: it holds what its AOF gives, nobody runs on it,    *)
(* and when it is the only one of its name no key of it is in doubt.       *)
LEMMA OpenedAgrees ==
  ASSUME TypeInv, AgreeInv, Emptied', NEW o \in Obj, ~Live(o), NEW x \in Name, NEW b \in BOOLEAN,
         NEW d \in Constructed(x, b), obj' = [obj EXCEPT ![o] = d], UNCHANGED aof,
         \A t \in Caller : at'[t] = at[t] \/ (Elsewhere(at[t]) /\ Elsewhere(at'[t])),
         \A t \in Caller : at'[t].pc = "run" => at'[t].obj # o,
         \A p \in Obj : Opens(p) /\ Crowded(p)' => Crowded(p),
         unsure' = unsure \/ (~Shared(x) /\ unsure' = [unsure EXCEPT ![x] = {}])
  PROVE  AgreeInv'
<1>1. /\ d \in DB /\ d.name = x /\ d.file = x /\ d.open = TRUE /\ d.buffer = <<>>
      /\ \A k \in Key : Recovers(aof[x], k, d.store[k])
  BY ConstructedType, ZenonT(40) DEF TypeInv
<1>2. /\ obj'[o] = d /\ \A p \in Obj : p # o => obj'[p] = obj[p]
  BY DEF TypeInv, TypeOK
<1>3. ASSUME NEW p \in Obj, p # o, Opens(p)'
      PROVE  /\ Opens(p) /\ (Tracked(p)' => Tracked(p))
             /\ Known(p)' = Known(p) /\ Whole(p)' = Whole(p)
  <2>1. obj'[p] = obj[p] /\ Opens(p)
    BY <1>2, <1>3 DEF Opens, Live
  <2>2. unsure'[obj[p].name] = unsure[obj[p].name]
    <3>1. obj[p].name \in Name
      BY <2>1, LiveIsDB, DBIsLive DEF Opens, TypeInv
    <3> QED  BY <3>1 DEF Shared, TypeInv, TypeOK
  <2> QED  BY <2>1, <2>2 DEF Tracked, Opens, Live, Known, Whole
<1>4. \A t \in Caller, p \in Obj : \A k :
        /\ Touching(t, p, k)' <=> Touching(t, p, k)
        /\ Touching(t, p, k) => at'[t].todo = at[t].todo
  BY DEF Touching, Elsewhere
<1>5. \A t \in Caller : \A k : ~Touching(t, o, k)'
  BY DEF Touching
<1>6. Files'
  BY <1>1, <1>2 DEF AgreeInv, Files, Live
<1>7. Alone'
  <2> SUFFICES ASSUME NEW p \in Obj, Opens(p)', NEW k \in Known(p)', NEW t \in Caller,
                      NEW u \in Caller, Touching(t, p, k)', Touching(u, p, k)'
               PROVE  t = u
    BY DEF Alone
  <2>1. p # o
    BY <1>5
  <2> QED  BY <1>3, <1>4, <2>1 DEF AgreeInv, Alone
<1>8. Clean'
  <2> SUFFICES ASSUME NEW p \in Obj, Opens(p)', Crowded(p)', NEW k \in Known(p)'
               PROVE  Settled(p, k)'
    BY DEF Clean
  <2>1. CASE p = o
    <3>1. Len(obj'[o].buffer) = 0
      BY <1>1, <1>2
    <3> QED  BY <1>5, <2>1, <3>1 DEF Settled
  <2>2. CASE p # o
    <3>1. Settled(p, k)
      BY <1>3, <2>2 DEF AgreeInv, Clean
    <3> QED  BY <1>2, <1>4, <2>2, <3>1 DEF Settled
  <2> QED  BY <2>1, <2>2
<1>9. Agrees'
  <2> SUFFICES ASSUME NEW p \in Obj, Tracked(p)', ~Cleared(p)', NEW k \in Known(p)'
               PROVE  AgreeOn(p, k)'
    BY DEF Agrees
  <2>1. CASE p = o
    <3>1. \A s \in Seq(Line) : s \o <<>> = s
      OBVIOUS
    <3>2. aof'[x] \in Seq(Line)
      BY DEF TypeInv, TypeOK
    <3>3. Whole(o)' = aof'[x]
      BY <1>1, <1>2, <3>1, <3>2 DEF Whole
    <3>4. k \in Key
      BY DEF Known
    <3>5. Recovers(Whole(o), k, obj[o].store[k])'
      BY <1>1, <1>2, <3>3, <3>4
    <3> QED  BY <1>5, <2>1, <3>5 DEF AgreeOn
  <2>2. CASE p # o
    <3>1. Opens(p)'
      BY DEF Tracked
    <3>0. ~Cleared(p)
      BY DEF Cleared, Elsewhere
    <3>2. AgreeOn(p, k) /\ obj'[p].store[k] = obj[p].store[k]
      BY <1>2, <1>3, <2>2, <3>0, <3>1 DEF AgreeInv, Agrees
    <3>3. \A w : Recovers(Whole(p), k, w) => Recovers(Whole(p), k, w)'
      BY <1>3, <2>2, <3>1
    <3> QED  BY <1>4, <3>2, <3>3, AgreeOnKept
  <2> QED  BY <2>1, <2>2
<1> QED  BY <1>6, <1>7, <1>8, <1>9 DEF AgreeInv

(* use constructs the new DB; with its log closed, or its DB replaced, it  *)
(* has crowded the server before.                                          *)
LEMMA ConstructAgrees ==
  ASSUME TypeInv, AgreeInv, NEW t \in Caller, Construct(t)
  PROVE  AgreeInv'
<1> DEFINE x == at[t].to
<1>1. /\ at[t].pc = "construct" /\ at[t].call = "use" /\ x \in Name
      /\ at \in [Caller -> Call] /\ Busy(t)
  BY DEF Construct, TypeInv, TypeOK, ObjectInv, Holds, Busy, Caller
<1>2. PICK o \in Obj, d \in Constructed(x, TRUE) :
        /\ ~Live(o) /\ Inside(o) = {} /\ obj' = [obj EXCEPT ![o] = d]
        /\ at' = [at EXCEPT ![t] = [at[t] EXCEPT !.pc = "swap", !.obj = o]]
  BY DEF Construct, Goto
<1> DEFINE c == [at[t] EXCEPT !.pc = "swap", !.obj = o]
<1>3. c.pc = "swap"
  BY <1>1, CallCases DEF TypeInv, Call
<1>4. \A u \in Caller : at'[u] = IF u = t THEN c ELSE at[u]
  BY <1>1, <1>2
<1> HIDE DEF c
<1>5. Leaving(t)
  BY <1>1 DEF Leaving
<1>6. \A p \in Obj : Crowded(p)
  BY <1>5 DEF Crowded
<1>7. \A u \in Caller : at'[u].pc = "run" => at'[u].obj # o
  BY <1>1, <1>2, <1>3, <1>4 DEF Inside
<1>8. /\ UNCHANGED aof
      /\ unsure' = unsure \/ (~Shared(x) /\ unsure' = [unsure EXCEPT ![x] = {}])
  BY DEF Construct
<1>9. \A u \in Caller : at'[u] = at[u] \/ (Elsewhere(at[u]) /\ Elsewhere(at'[u]))
  BY <1>1, <1>3, <1>4 DEF Elsewhere
<1>10. Emptied'
  <2>1. ASSUME NEW p \in Obj, Live(p)', Cleared(p)'
        PROVE  /\ Live(p) /\ obj'[p].name = obj[p].name
               /\ unsure[obj[p].name] \subseteq unsure'[obj[p].name]
    <3>1. p # o
      BY <1>1, <1>2, <1>3, <1>4, <2>1 DEF Inside, Cleared
    <3>2. obj'[p] = obj[p] /\ Live(p)
      BY <1>2, <2>1, <3>1 DEF Live, TypeInv, TypeOK
    <3>3. Shared(obj[p].name) /\ obj[p].name \in Name
      BY <3>2, LiveIsDB, DBIsLive DEF Shared, TypeInv
    <3>4. unsure'[obj[p].name] = unsure[obj[p].name]
      BY <1>8, <3>3 DEF TypeInv, TypeOK
    <3> QED  BY <3>2, <3>4
  <2>2. Goto(t, c)
    BY <1>2 DEF Goto, c
  <2> QED  BY <1>1, <1>3, <2>1, <2>2, EmptiedBusy DEF AgreeInv
<1> QED  BY <1>1, <1>2, <1>6, <1>7, <1>8, <1>9, <1>10, OpenedAgrees

(* The server starts with one DB.                                          *)
LEMMA StartAgrees ==
  ASSUME TypeInv, AgreeInv, NEW x \in Name, Start(x)
  PROVE  AgreeInv'
<1>1. NoProcess
  BY DEF Start, TypeInv, ObjectInv
<1>2. PICK o \in Obj, d \in Constructed(x, FALSE) : obj' = [obj EXCEPT ![o] = d]
  BY DEF Start
<1>3. /\ UNCHANGED <<at, aof>> /\ unsure' = [unsure EXCEPT ![x] = {}] /\ ~Shared(x)
  BY <1>1, NamesAssumption DEF Start, NoProcess, Shared, Freed
<1>4. /\ \A p \in Obj : ~Live(p) /\ ~Opens(p)
      /\ \A t \in Caller : at[t].pc # "run"
  BY <1>1 DEF NoProcess, Live, Opens, Idle
<1>5. Emptied'
  BY <1>1, <1>3 DEF NoProcess, Idle, Emptied
<1> QED  BY <1>2, <1>3, <1>4, <1>5, OpenedAgrees

(* A micro-step of a command: to the table or to the log of its DB.        *)
LEMMA StepAgrees ==
  ASSUME Empty \notin Key \cup Value, TypeInv, AgreeInv, NEW t \in Caller, Step(t)
  PROVE  AgreeInv'
<1>0. PICK o : o = at[t].obj
  OBVIOUS
<1> DEFINE s == at[t].todo
           m == Head(s)
<1>1. /\ o \in Obj /\ obj[o] \in DB /\ at[t].pc = "run"
      /\ s \in Seq(Micro) /\ s # <<>> /\ m \in Micro /\ m.line \in Line
      /\ at \in [Caller -> Call] /\ obj \in [Obj -> DB \cup {Freed}]
  <2>1. /\ o \in Obj /\ obj[o] \in DB /\ at[t].pc = "run" /\ s \in Seq(Micro) /\ s # <<>>
    BY <1>0, CallCases, LiveIsDB DEF Step, TypeInv, ObjectInv, Holds
  <2>2. m \in Micro
    BY <2>1
  <2> QED  BY <2>1, <2>2 DEF Micro, TypeInv, TypeOK, Caller
<1>2. /\ Readable(m.line) /\ m.line.key \in Key /\ m.line.val \in Value \cup {NoValue}
  BY <1>1, NoValueAssumption DEF Line, Readable
<1>3. /\ UNCHANGED <<db, aof, unsure>>
      /\ \A p \in Obj : p # o => obj'[p] = obj[p]
      /\ obj'[o] = IF m.do = "apply" THEN Applied(obj[o], m.line) ELSE Appended(obj[o], m.line)
  BY <1>0, <1>1 DEF Step, history
<1>4. PICK c : /\ \A u \in Caller : at'[u] = IF u = t THEN c ELSE at[u]
               /\ c.pc \in {"idle", "run"}
               /\ c.pc = "run" => c.obj = o /\ c.todo = Tail(s)
               /\ c.pc = "idle" => \A k : ~Mentions(Tail(s), k)
  <2>1. CASE Len(s) = 1
    <3>1. at' = [at EXCEPT ![t] = Idle]
      BY <2>1 DEF Step, Goto
    <3>2. PICK r : r = Tail(s) /\ r \in Seq(Micro) /\ Len(r) = Len(s) - 1
      BY <1>1, TailMicros, Zenon
    <3>3. \A k : ~Mentions(Tail(s), k)
      BY <2>1, <3>2 DEF Mentions
    <3>4. Idle.pc = "idle" /\ \A u \in Caller : at'[u] = IF u = t THEN Idle ELSE at[u]
      BY <1>1, <3>1 DEF Idle
    <3> QED  BY <3>3, <3>4
  <2>2. CASE Len(s) # 1
    <3>1. PICK c : c = [at[t] EXCEPT !.todo = Tail(@)] /\ at' = [at EXCEPT ![t] = c]
      BY <2>2 DEF Step, Goto
    <3>2. c.pc = "run" /\ c.obj = o /\ c.todo = Tail(s)
      BY <1>0, <1>1, <3>1, CallCases DEF TypeInv, Call
    <3>3. \A u \in Caller : at'[u] = IF u = t THEN c ELSE at[u]
      BY <1>1, <3>1
    <3> QED  BY <3>2, <3>3
  <2> QED  BY <2>1, <2>2
<1>5. /\ obj'[o].name = obj[o].name /\ obj'[o].open = obj[o].open /\ obj'[o].file = obj[o].file
      /\ obj'[o].buffer = IF m.do = "append" /\ obj[o].open THEN Append(obj[o].buffer, m.line)
                          ELSE obj[o].buffer
      /\ \A k \in Key : obj'[o].store[k] = IF Does(m, "apply", k) THEN m.line.val
                                           ELSE obj[o].store[k]
      /\ obj'[o] # Freed
  <2>1. m.do \in {"apply", "append"}
    BY <1>1 DEF Micro
  <2>2. obj[o].store \in Content
    BY <1>1 DEF DB
  <2>3. Applied(obj[o], m.line) \in DB /\ Appended(obj[o], m.line) \in DB
    BY <1>1, AppliedType, AppendedType
  <2>4. CASE m.do = "apply"
    <3>1. obj'[o] = Applied(obj[o], m.line) /\ m.do # "append"
      BY <1>3, <2>4
    <3>2. \A k : Does(m, "apply", k) <=> m.line.key = k
      BY <2>4 DEF Does
    <3> HIDE DEF m
    <3>3. /\ obj'[o].name = obj[o].name /\ obj'[o].open = obj[o].open
          /\ obj'[o].file = obj[o].file /\ obj'[o].buffer = obj[o].buffer
          /\ obj'[o].store = [obj[o].store EXCEPT ![m.line.key] = m.line.val]
      BY <1>1, <3>1 DEF Applied, DB
    <3> QED  BY <1>2, <2>2, <2>3, <3>1, <3>2, <3>3, DBIsLive DEF Content
  <2>5. CASE m.do = "append"
    <3>1. obj'[o] = Appended(obj[o], m.line) /\ m.do = "append"
      BY <1>3, <2>5
    <3>2. \A k : ~Does(m, "apply", k)
      BY <2>5 DEF Does
    <3> HIDE DEF m
    <3>3. /\ obj'[o].name = obj[o].name /\ obj'[o].open = obj[o].open
          /\ obj'[o].file = obj[o].file /\ obj'[o].store = obj[o].store
          /\ obj'[o].buffer = IF obj[o].open THEN Append(obj[o].buffer, m.line)
                              ELSE obj[o].buffer
      BY <1>1, <3>1 DEF Appended, DB
    <3> QED  BY <2>3, <3>1, <3>2, <3>3, DBIsLive
  <2> QED  BY <2>1, <2>4, <2>5
<1> HIDE DEF s, m
<1>6. Mentions(s, m.line.key) /\ \A k : Mentions(Tail(s), k) => Mentions(s, k)
  BY <1>1, MentionsTail, Zenon DEF m
<1>7. \A u \in Caller : \A p, k :
        /\ Touching(u, p, k)' => Touching(u, p, k)
        /\ u # t \/ p # o => /\ Touching(u, p, k)' <=> Touching(u, p, k)
                             /\ Touching(u, p, k) => at'[u].todo = at[u].todo
        /\ Touching(t, o, k) <=> Mentions(s, k)
        /\ Touching(t, o, k)' <=> Mentions(Tail(s), k)
  BY <1>0, <1>1, <1>4, <1>6 DEF Touching, s
<1>8. \A p \in Obj : /\ Opens(p)' <=> Opens(p)
                     /\ Known(p)' = Known(p)
                     /\ Tracked(p)' => Tracked(p)
  BY <1>1, <1>3, <1>5, DBIsLive DEF Opens, Live, Known, Tracked
<1>9. Files'
  BY <1>1, <1>3, <1>5, DBIsLive DEF AgreeInv, Files, Live
<1>10. Alone'
  BY <1>7, <1>8 DEF AgreeInv, Alone
<1>11. \A p \in Obj : Crowded(p)' => Crowded(p)
  <2>1. \A u \in Caller : Leaving(u)' => Leaving(u)
    BY <1>3, <1>4 DEF Leaving, Busy
  <2> QED  BY <1>3, <2>1 DEF Crowded
<1>12. Clean'
  <2> SUFFICES ASSUME NEW p \in Obj, Opens(p)', Crowded(p)', NEW k \in Known(p)'
               PROVE  Settled(p, k)'
    BY DEF Clean
  <2>1. Settled(p, k)
    BY <1>8, <1>11 DEF AgreeInv, Clean
  <2>2. CASE p = o
    <3>1. m.line.key # k
      BY <1>6, <1>7, <2>1, <2>2 DEF Settled
    <3>2. obj[o].buffer \in Seq(Line)
      BY <1>1 DEF DB
    <3>3. \A i \in 1..Len(obj'[o].buffer) : obj'[o].buffer[i].key # k
      BY <1>5, <2>1, <2>2, <3>1, <3>2 DEF Settled
    <3> QED  BY <1>7, <2>1, <2>2, <3>3 DEF Settled
  <2>3. CASE p # o
    BY <1>3, <1>7, <2>1, <2>3 DEF Settled
  <2> QED  BY <2>2, <2>3
<1>13. Agrees'
  <2> SUFFICES ASSUME NEW p \in Obj, Tracked(p)', ~Cleared(p)', NEW k \in Known(p)'
               PROVE  AgreeOn(p, k)'
    BY DEF Agrees
  <2>1. AgreeOn(p, k) /\ k \in Key /\ Opens(p) /\ Tracked(p) /\ k \in Known(p)
    <3>1. ~Cleared(p)
      BY <1>1, <1>4 DEF Cleared
    <3> QED  BY <1>8, <3>1 DEF AgreeInv, Agrees, Known, Tracked
  <2>2. CASE p # o
    <3>1. \A w : Recovers(Whole(p), k, w) => Recovers(Whole(p), k, w)'
      BY <1>3, <2>2 DEF Whole
    <3> QED  BY <1>3, <1>7, <2>1, <2>2, <3>1, AgreeOnKept
  <2>3. CASE p = o
    <3>0. /\ obj[o].buffer \in Seq(Line) /\ aof[obj[o].name] \in Seq(Line)
          /\ obj[o].open
      <4>1. obj[o].name \in Name
        BY <1>1, DBIsLive
      <4> QED  BY <1>1, <2>1, <2>3, <4>1 DEF DB, Tracked, Opens, TypeInv, TypeOK
    <3>1. ASSUME NEW w, Recovers(Whole(o), k, w)
          PROVE  Recovers(Whole(o)', k, IF Does(m, "append", k) THEN m.line.val ELSE w)
      <4>1. CASE m.do = "append"
        <5>1. Whole(o)' = aof[obj[o].name] \o Append(obj[o].buffer, m.line)
          BY <1>3, <1>5, <3>0, <4>1 DEF Whole
        <5>2. Recovers(aof[obj[o].name] \o Append(obj[o].buffer, m.line), k,
                       IF m.line.key = k THEN m.line.val ELSE w)
          BY <1>1, <1>2, <3>0, <3>1, LeavesAppended, Zenon DEF Whole
        <5>3. Does(m, "append", k) <=> m.line.key = k
          BY <4>1 DEF Does
        <5> QED  BY <5>1, <5>2, <5>3
      <4>2. CASE m.do # "append"
        <5>1. Whole(o)' = Whole(o)
          BY <1>3, <1>5, <4>2 DEF Whole
        <5>2. ~Does(m, "append", k)
          BY <4>2 DEF Does
        <5> QED  BY <3>1, <5>1, <5>2
      <4> QED  BY <4>1, <4>2
    <3>2. CASE ~Touching(t, o, k)
      <4>1. m.line.key # k /\ ~Does(m, "append", k) /\ ~Does(m, "apply", k)
        BY <1>6, <1>7, <3>2 DEF Does
      <4>2. \A w : Recovers(Whole(o), k, w) => Recovers(Whole(o), k, w)'
        BY <3>1, <4>1 DEF Recovers
      <4>3. \A u \in Caller : /\ Touching(u, o, k)' <=> Touching(u, o, k)
                              /\ Touching(u, o, k) => at'[u].todo = at[u].todo
        BY <1>7, <3>2
      <4> QED  BY <1>5, <2>1, <2>3, <4>1, <4>2, <4>3, AgreeOnKept
    <3>3. CASE Touching(t, o, k)
      <4>1. \A u \in Caller : Touching(u, o, k) => u = t
        BY <2>1, <2>3, <3>3 DEF AgreeInv, Alone
      <4>2. PICK w, v : /\ Recovers(Whole(o), k, w)
                        /\ Ends(s, "append", k, v, w)
                        /\ Ends(s, "apply", k, v, obj[o].store[k])
        BY <2>1, <2>3, <3>3 DEF AgreeOn, s
      <4> DEFINE z == IF Does(m, "append", k) THEN m.line.val ELSE w
      <4>3. Recovers(Whole(o)', k, z)
        BY <3>1, <4>2
      <4>4. Ends(Tail(s), "append", k, v, z)
        BY <1>1, <4>2, EndsTail, Zenon DEF m
      <4>5. Ends(Tail(s), "apply", k, v, obj'[o].store[k])
        <5>1. Ends(Tail(s), "apply", k, v, IF Does(m, "apply", k) THEN m.line.val
                                           ELSE obj[o].store[k])
          BY <1>1, <4>2, EndsTail, Zenon DEF m
        <5> QED  BY <1>5, <2>1, <5>1
      <4> HIDE DEF z
      <4>6. CASE Mentions(Tail(s), k)
        <5>1. Touching(t, o, k)' /\ \A u \in Caller : Touching(u, o, k)' => u = t
          BY <1>7, <4>1, <4>6
        <5>2. at'[t].todo = Tail(s)
          BY <1>4, <5>1 DEF Touching
        <5> QED  BY <2>3, <4>3, <4>4, <4>5, <5>1, <5>2 DEF AgreeOn, Recovers
      <4>7. CASE ~Mentions(Tail(s), k)
        <5>1. \A u \in Caller : ~Touching(u, o, k)'
          BY <1>7, <4>1, <4>7
        <5>2. z = obj'[o].store[k]
          <6>1. v = z
            BY <4>4, <4>7, EndsOver
          <6>2. v = obj'[o].store[k]
            BY <4>5, <4>7, EndsOver
          <6> QED  BY <6>1, <6>2
        <5> QED  BY <2>3, <4>3, <5>1, <5>2 DEF AgreeOn, Recovers
      <4> QED  BY <4>6, <4>7
    <3> QED  BY <3>2, <3>3
  <2> QED  BY <2>2, <2>3
<1>14. Emptied'
  <2> SUFFICES ASSUME NEW u \in Caller, at'[u].pc = "clear", NEW p, p = at'[u].obj, Live(p)',
                      NEW k \in Known(p)'
               PROVE  /\ \A v \in Caller : Busy(v)' => v = u
                      /\ obj'[p].store[k] = NoValue
                      /\ \A v \in Caller : ~Touching(v, p, k)'
    BY DEF Emptied
  <2>1. at'[u] = at[u] /\ p \in Obj /\ Live(p) /\ k \in Known(p) /\ k \in Key
    <3>1. p \in Obj /\ (p # o => obj'[p] = obj[p])
      BY <1>3 DEF Live
    <3> QED  BY <1>1, <1>4, <1>8, <3>1, DBIsLive DEF Live, Known
  <2>2. /\ \A v \in Caller : Busy(v) => v = u
        /\ obj[p].store[k] = NoValue
        /\ \A v \in Caller : ~Touching(v, p, k)
    BY <2>1 DEF AgreeInv, Emptied
  <2>3. obj'[p].store[k] = obj[p].store[k]
    <3>1. CASE p # o
      BY <1>3, <2>1, <3>1
    <3>2. CASE p = o
      <4>1. ~Does(m, "apply", k)
        BY <1>6, <1>7, <2>2, <3>2 DEF Does
      <4> QED  BY <1>5, <2>1, <3>2, <4>1
    <3> QED  BY <3>1, <3>2
  <2>4. \A v \in Caller : Busy(v)' => Busy(v)
    BY <1>4 DEF Busy
  <2> QED  BY <1>7, <2>2, <2>3, <2>4
<1> QED  BY <1>9, <1>10, <1>12, <1>13, <1>14 DEF AgreeInv

(* A command begins: its keys are in doubt when it overlaps, and otherwise *)
(* it is the only one that is to change them, the same in log and table.   *)
LEMMA RunAgrees ==
  ASSUME TypeInv, Owned, AgreeInv, NEW t \in Thread, NEW ls, NEW todo, Run(t, ls, todo),
         \A k : Mentions(todo, k) => \E i \in DOMAIN ls : ls[i].key = k,
         ~obj[db].replaying => \A i \in DOMAIN ls :
           /\ Mentions(todo, ls[i].key)
           /\ \E v : \A w : /\ Ends(todo, "append", ls[i].key, v, w)
                            /\ Ends(todo, "apply", ls[i].key, v, w)
  PROVE  AgreeInv'
<1> DEFINE touched == {ls[i].key : i \in DOMAIN ls}
           x       == obj[db].name
           others  == DOMAIN at \ {t}
           clash   == obj[db].replaying \/ \E u \in others : Busy(u)
           call    == [pc |-> "run", obj |-> db, todo |-> todo]
           logged  == obj[db].open /\ obj[db].file = obj[db].name
<1>1. /\ db # NoObj /\ db \in Obj /\ at[t].pc = "idle" /\ obj[db] \in DB
      /\ at' = [at EXCEPT ![t] = call] /\ UNCHANGED <<db, obj, aof>>
      /\ at \in [Caller -> Call] /\ t \in Caller /\ unsure \in [Name -> SUBSET Key]
  BY LiveIsDB DEF Run, Ready, Goto, TypeInv, TypeOK, ObjectInv, Caller
<1>2. x \in Name
  BY <1>1, DBIsLive
<1>3. /\ call.pc = "run" /\ call.obj = db /\ call.todo = todo
      /\ \A u \in Caller : at'[u] = IF u = t THEN call ELSE at[u]
      /\ others = Caller \ {t}
  BY <1>1
<1>4. /\ unsure'[x] = (IF logged THEN unsure[x] \ touched ELSE unsure[x]) \cup
                      (IF clash THEN touched ELSE touched \cap Mentioned(others))
      /\ \A y \in Name : y # x => unsure'[y] = unsure[y]
  BY <1>1, <1>2 DEF Run
<1>5. \A k : /\ k \in touched <=> \E i \in DOMAIN ls : ls[i].key = k
             /\ Mentions(todo, k) => k \in touched
  OBVIOUS
<1>6. \A k \in touched : ~obj[db].replaying =>
        /\ Mentions(todo, k)
        /\ \E v : \A w : Ends(todo, "append", k, v, w) /\ Ends(todo, "apply", k, v, w)
  OBVIOUS
<1> HIDE DEF touched, call, logged
<1>7. \A u \in Caller : \A p, k :
        /\ Touching(u, p, k)' <=> Touching(u, p, k) \/ (u = t /\ p = db /\ Mentions(todo, k))
        /\ Touching(u, p, k) => u # t /\ at'[u].todo = at[u].todo
  BY <1>1, <1>3 DEF Touching
<1>8. \A p : Crowded(p)' => Crowded(p)
  <2>1. \A u \in Caller : Leaving(u)' => Leaving(u)
    BY <1>1, <1>3 DEF Leaving, Busy
  <2> QED  BY <1>1, <2>1 DEF Crowded
<1>9. \A p \in Obj : /\ Opens(p)' => Opens(p) /\ obj[p].name \in Name
                     /\ Tracked(p)' => Tracked(p)
                     /\ Whole(p)' = Whole(p)
  <2>1. \A p \in Obj : Opens(p) => obj[p].name \in Name
    BY LiveIsDB, DBIsLive DEF Opens, TypeInv
  <2> QED  BY <1>1, <2>1 DEF Opens, Live, Tracked, Whole
<1>10. ASSUME NEW p \in Obj, Opens(p)', NEW k \in Known(p)', p # db \/ k \notin touched
       PROVE  /\ k \in Known(p)
              /\ \A u \in Caller : /\ Touching(u, p, k)' <=> Touching(u, p, k)
                                   /\ Touching(u, p, k) => at'[u].todo = at[u].todo
  <2>1. k \in Key /\ k \notin unsure'[obj[p].name] /\ Opens(p) /\ obj[p].name \in Name
    BY <1>1, <1>9, <1>10 DEF Known
  <2>2. k \in Known(p)
    <3>1. CASE obj[p].name # x
      BY <1>4, <2>1, <3>1 DEF Known
    <3>2. CASE obj[p].name = x /\ k \notin touched
      BY <1>4, <2>1, <3>2 DEF Known
    <3>3. CASE obj[p].name = x /\ k \in touched
      <4>1. PICK u \in Caller : Owns(u, p)
        BY <1>10, <2>1, <3>3 DEF Owned, Opens
      <4>2. u # t /\ Busy(u)
        BY <1>1, <4>1 DEF Owns, Busy
      <4>3. clash
        BY <1>3, <4>2
      <4> QED  BY <1>4, <2>1, <3>3, <4>3
    <3> QED  BY <3>1, <3>2, <3>3
  <2> QED  BY <1>5, <1>7, <1>10, <2>2
<1>11. ASSUME NEW p \in Obj, p = db, NEW k \in Known(p)', k \in touched
       PROVE  /\ k \in Key /\ ~clash /\ ~Crowded(p)
              /\ \A u \in Caller : Touching(u, p, k)' <=> u = t
  <2>1. k \in Key /\ k \notin unsure'[x]
    BY <1>1, <1>11 DEF Known
  <2>2. ~clash /\ k \notin Mentioned(others)
    BY <1>4, <1>11, <2>1
  <2>3. \A u \in Caller : ~Busy(u)
    BY <1>1, <1>3, <2>2 DEF Busy
  <2>4. \A u \in Caller : ~Touching(u, p, k)
    BY <1>1, <1>3, <2>1, <2>2, MentionedIs DEF Touching
  <2>5. Mentions(todo, k)
    BY <1>6, <1>11, <2>2
  <2>6. \A u \in Caller : Touching(u, p, k)' <=> u = t
    BY <1>1, <1>7, <1>11, <2>4, <2>5
  <2>7. ~Crowded(p)
    BY <1>11, <2>3 DEF Crowded, Leaving
  <2> QED  BY <2>1, <2>2, <2>6, <2>7
<1> HIDE DEF clash
<1>12. Files'
  BY <1>1 DEF AgreeInv, Files, Live
<1>13. Alone'
  <2> SUFFICES ASSUME NEW p \in Obj, Opens(p)', NEW k \in Known(p)', NEW u \in Caller,
                      NEW v \in Caller, Touching(u, p, k)', Touching(v, p, k)'
               PROVE  u = v
    BY DEF Alone
  <2>1. CASE p # db \/ k \notin touched
    BY <1>9, <1>10, <2>1 DEF AgreeInv, Alone
  <2>2. CASE p = db /\ k \in touched
    BY <1>11, <2>2
  <2> QED  BY <2>1, <2>2
<1>14. Clean'
  <2> SUFFICES ASSUME NEW p \in Obj, Opens(p)', Crowded(p)', NEW k \in Known(p)'
               PROVE  Settled(p, k)'
    BY DEF Clean
  <2>1. p # db \/ k \notin touched
    BY <1>8, <1>11
  <2>2. Settled(p, k)
    BY <1>8, <1>9, <1>10, <2>1 DEF AgreeInv, Clean
  <2> QED  BY <1>1, <1>10, <2>1, <2>2 DEF Settled
<1>15. Agrees'
  <2> SUFFICES ASSUME NEW p \in Obj, Tracked(p)', ~Cleared(p)', NEW k \in Known(p)'
               PROVE  AgreeOn(p, k)'
    BY DEF Agrees
  <2>1. Opens(p)' /\ Tracked(p)
    BY <1>9 DEF Tracked
  <2>2. \A w : Recovers(Whole(p), k, w) => Recovers(Whole(p), k, w)'
    BY <1>9 DEF Recovers
  <2>3. CASE p # db \/ k \notin touched
    <3>1. AgreeOn(p, k) /\ obj'[p].store[k] = obj[p].store[k]
      <4>1. ~Cleared(p)
        BY <1>1, <1>3 DEF Cleared
      <4> QED  BY <1>1, <1>10, <2>1, <2>3, <4>1 DEF AgreeInv, Agrees
    <3> QED  BY <1>10, <2>1, <2>2, <2>3, <3>1, AgreeOnKept
  <2>4. CASE p = db /\ k \in touched
    <3>1. ~obj[db].replaying /\ \A u \in Caller : Touching(u, p, k)' <=> u = t
      BY <1>11, <2>1, <2>4 DEF clash
    <3>2. PICK v : \A w : Ends(todo, "append", k, v, w) /\ Ends(todo, "apply", k, v, w)
      BY <1>6, <2>4, <3>1
    <3>3. PICK w : Recovers(Whole(p), k, w)
      <4>1. Whole(p) \in Seq(Line)
        <5>1. aof[x] \in Seq(Line) /\ obj[db].buffer \in Seq(Line)
          BY <1>1, <1>2 DEF DB, TypeInv, TypeOK
        <5> QED  BY <2>4, <5>1, ConcatIndices, Zenon DEF Whole
      <4>2. Len(Whole(p)) \in Nat
        BY <4>1
      <4> QED  BY <4>2, LeavesSome DEF Recovers
    <3>4. Recovers(Whole(p), k, w)'
      BY <2>2, <3>3
    <3>5. at'[t].todo = todo
      BY <1>1, <1>3
    <3> QED  BY <1>1, <2>4, <3>1, <3>2, <3>4, <3>5 DEF AgreeOn
  <2> QED  BY <2>3, <2>4
<1>16. Emptied'
  <2> SUFFICES ASSUME NEW v \in Caller, at'[v].pc = "clear", NEW p, p = at'[v].obj, Live(p)',
                      NEW k \in Known(p)'
               PROVE  /\ \A u \in Caller : Busy(u)' => u = v
                      /\ obj'[p].store[k] = NoValue
                      /\ \A u \in Caller : ~Touching(u, p, k)'
    BY DEF Emptied
  <2>1. /\ at[v].pc = "clear" /\ v # t /\ Busy(v) /\ p = at[v].obj /\ p \in Obj /\ Live(p)
        /\ k \in Key /\ k \notin unsure'[obj[p].name]
    BY <1>1, <1>3 DEF Busy, Live, Known
  <2>2. clash
    BY <1>3, <2>1 DEF clash
  <2>3. obj[p].name \in Name
    BY <2>1, LiveIsDB, DBIsLive DEF TypeInv
  <2>4. k \in Known(p) /\ (obj[p].name = x => k \notin touched)
    BY <1>4, <2>1, <2>2, <2>3 DEF Known
  <2>5. /\ \A u \in Caller : Busy(u) => u = v
        /\ obj[p].store[k] = NoValue
        /\ \A u \in Caller : ~Touching(u, p, k)
    BY <2>1, <2>4 DEF AgreeInv, Emptied
  <2>6. \A u \in Caller : ~Touching(u, p, k)'
    BY <1>5, <1>7, <2>4, <2>5
  <2>7. \A u \in Caller : Busy(u)' => Busy(u)
    BY <1>1, <1>3 DEF Busy
  <2> QED  BY <1>1, <2>5, <2>6, <2>7
<1> QED  BY <1>12, <1>13, <1>14, <1>15, <1>16 DEF AgreeInv

(* clearData empties the table: no command is to change what is then       *)
(* known.                                                                  *)
LEMMA ClearAgrees ==
  ASSUME TypeInv, Owned, AgreeInv, NEW t \in Thread, Clear(t)
  PROVE  AgreeInv'
<1> DEFINE x    == obj[db].name
           call == [pc |-> "clear", obj |-> db, call |-> "clear", to |-> NoName]
<1>1. /\ db # NoObj /\ db \in Obj /\ obj[db] \in DB /\ UNCHANGED <<db, aof>>
      /\ at[t].pc = "idle" /\ at' = [at EXCEPT ![t] = call] /\ t \in Caller
      /\ at \in [Caller -> Call] /\ obj \in [Obj -> DB \cup {Freed}]
      /\ unsure \in [Name -> SUBSET Key]
      /\ obj' = [obj EXCEPT ![db] = [@ EXCEPT !.store = NoKeys]]
  BY LiveIsDB DEF Clear, Ready, Goto, TypeInv, TypeOK, ObjectInv, Caller
<1>2. x \in Name
  BY <1>1, DBIsLive
<1>3. /\ unsure'[x] = IF \E u \in Caller : Busy(u) THEN Key ELSE Mentioned(Caller)
      /\ \A y \in Name : y # x => unsure'[y] = unsure[y]
  BY <1>1, <1>2 DEF Clear
<1>4. /\ \A p \in Obj : p # db => obj'[p] = obj[p]
      /\ obj'[db].name = x /\ obj'[db].open = obj[db].open /\ obj'[db].file = obj[db].file
      /\ obj'[db].buffer = obj[db].buffer /\ obj'[db].store = NoKeys /\ obj'[db] # Freed
  <2>1. [obj[db] EXCEPT !.store = NoKeys] \in DB
    BY <1>1 DEF DB, Content, NoKeys
  <2> QED  BY <1>1, <2>1, DBIsLive DEF DB
<1>5. /\ call.pc = "clear" /\ call.obj = db
      /\ \A u \in Caller : at'[u] = IF u = t THEN call ELSE at[u]
  BY <1>1
<1> HIDE DEF call
<1>6. /\ \A u \in Caller : \A p, k :
           /\ Touching(u, p, k)' <=> Touching(u, p, k)
           /\ Touching(u, p, k) => at'[u].todo = at[u].todo
      /\ \A p : Crowded(p)' => Crowded(p)
      /\ \A p : Cleared(p) => Cleared(p)'
  <2>1. \A u \in Caller : Leaving(u)' => Leaving(u)
    BY <1>1, <1>5 DEF Leaving, Busy
  <2> QED  BY <1>1, <1>5, <2>1 DEF Touching, Crowded, Cleared
<1>7. ASSUME NEW p \in Obj, Live(p)'
      PROVE  /\ Live(p) /\ obj'[p].name = obj[p].name /\ obj[p].name \in Name
             /\ Opens(p)' => Opens(p)
             /\ Tracked(p)' => Tracked(p)
             /\ p = db => Cleared(p)'
  <2>1. Live(p)
    BY <1>1, <1>4, <1>7, DBIsLive DEF Live
  <2>2. obj[p].name \in Name
    BY <2>1, LiveIsDB, DBIsLive DEF TypeInv
  <2> QED  BY <1>1, <1>4, <1>5, <2>1, <2>2 DEF Opens, Live, Tracked, Cleared
<1>8. ASSUME NEW p \in Obj, Live(p)', obj[p].name # x, NEW k \in Known(p)'
      PROVE  p # db /\ k \in Known(p) /\ obj'[p] = obj[p] /\ Whole(p)' = Whole(p)
  BY <1>1, <1>3, <1>4, <1>7, <1>8 DEF Known, Whole
<1>9. ASSUME NEW p \in Obj, Live(p)', obj[p].name = x, NEW k \in Known(p)'
      PROVE  /\ p = db /\ k \in Key /\ \A u \in Caller : ~Busy(u)
             /\ \A u \in Caller : ~Touching(u, db, k)
  <2>1. k \in Key /\ k \notin unsure'[x]
    BY <1>7, <1>9 DEF Known
  <2>2. (\A u \in Caller : ~Busy(u)) /\ k \notin Mentioned(Caller)
    BY <1>3, <2>1
  <2>3. p = db
    BY <1>7, <1>9, <2>2 DEF Owned, Owns
  <2> QED  BY <2>1, <2>2, <2>3, MentionedIs DEF Touching
<1>10. \A p : Opens(p)' => p \in Obj /\ Live(p)'
  BY DEF Opens, Live
<1>11. Files'
  BY <1>1, <1>4, <1>7, DBIsLive DEF AgreeInv, Files
<1>12. Alone'
  <2> SUFFICES ASSUME NEW p \in Obj, Opens(p)', NEW k \in Known(p)', NEW u \in Caller,
                      NEW v \in Caller, Touching(u, p, k)', Touching(v, p, k)'
               PROVE  u = v
    BY DEF Alone
  <2>1. CASE obj[p].name # x
    BY <1>6, <1>7, <1>8, <1>10, <2>1 DEF AgreeInv, Alone
  <2>2. CASE obj[p].name = x
    BY <1>6, <1>9, <1>10, <2>2
  <2> QED  BY <2>1, <2>2
<1>13. Clean'
  <2> SUFFICES ASSUME NEW p \in Obj, Opens(p)', Crowded(p)', NEW k \in Known(p)'
               PROVE  Settled(p, k)'
    BY DEF Clean
  <2>1. obj[p].name # x
    BY <1>6, <1>9, <1>10 DEF Crowded, Leaving
  <2>2. Settled(p, k) /\ obj'[p] = obj[p]
    BY <1>6, <1>7, <1>8, <1>10, <2>1 DEF AgreeInv, Clean
  <2> QED  BY <1>6, <2>2 DEF Settled
<1>14. Emptied'
  <2> SUFFICES ASSUME NEW v \in Caller, at'[v].pc = "clear", NEW p, p = at'[v].obj, Live(p)',
                      NEW k \in Known(p)'
               PROVE  /\ \A u \in Caller : Busy(u)' => u = v
                      /\ obj'[p].store[k] = NoValue
                      /\ \A u \in Caller : ~Touching(u, p, k)'
    BY DEF Emptied
  <2>1. p \in Obj /\ k \in Key /\ Live(p) /\ obj[p].name \in Name
    BY <1>7 DEF Live, Known
  <2>2. CASE v = t
    <3>1. p = db /\ (\A u \in Caller : ~Busy(u)) /\ \A u \in Caller : ~Touching(u, p, k)
      BY <1>5, <1>9, <2>1, <2>2
    <3>2. \A u \in Caller : Busy(u)' => u = t
      BY <1>5, <3>1 DEF Busy
    <3> QED  BY <1>4, <1>6, <2>1, <2>2, <3>1, <3>2 DEF NoKeys
  <2>3. CASE v # t
    <3>1. at[v].pc = "clear" /\ Busy(v) /\ p = at[v].obj
      BY <1>5, <2>3 DEF Busy
    <3>2. p # db /\ k \in Known(p)
      BY <1>8, <1>9, <2>1, <3>1
    <3> QED  BY <2>1, <3>1, <3>2, ClearedIs DEF AgreeInv
  <2> QED  BY <2>2, <2>3
<1>15. Agrees'
  <2> SUFFICES ASSUME NEW p \in Obj, Tracked(p)', ~Cleared(p)', NEW k \in Known(p)'
               PROVE  AgreeOn(p, k)'
    BY DEF Agrees
  <2>1. Live(p)' /\ Tracked(p) /\ p # db /\ ~Cleared(p)
    BY <1>6, <1>7, <1>10 DEF Tracked
  <2>2. obj[p].name # x
    BY <1>9, <2>1
  <2>3. AgreeOn(p, k) /\ obj'[p].store[k] = obj[p].store[k]
    BY <1>8, <2>1, <2>2 DEF AgreeInv, Agrees
  <2>4. \A w : Recovers(Whole(p), k, w) => Recovers(Whole(p), k, w)'
    BY <1>8, <2>1, <2>2 DEF Recovers
  <2> QED  BY <1>6, <2>3, <2>4, AgreeOnKept
<1> QED  BY <1>11, <1>12, <1>13, <1>14, <1>15 DEF AgreeInv

(* clearData empties the files: what is known then has no line in the      *)
(* buffer either.                                                          *)
LEMMA ClearFilesAgrees ==
  ASSUME TypeInv, Owned, AgreeInv, NEW t \in Caller, ClearFiles(t)
  PROVE  AgreeInv'
<1>0. PICK o, x : o = at[t].obj /\ x = obj[o].name
  OBVIOUS
<1>1. /\ at[t].pc = "clear" /\ Live(o) /\ UNCHANGED <<db, obj>> /\ Goto(t, Idle)
      /\ aof' = [aof EXCEPT ![x] = <<>>]
      /\ unsure' = [unsure EXCEPT ![x] = @ \cup Doubted(obj[o])]
      /\ at \in [Caller -> Call] /\ aof \in [Name -> Seq(Line)]
      /\ unsure \in [Name -> SUBSET Key]
  BY <1>0 DEF ClearFiles, TypeInv, TypeOK, Caller
<1>2. o \in Obj /\ obj[o] \in DB /\ x \in Name
  BY <1>0, <1>1, LiveIsDB, DBIsLive DEF TypeInv
<1>3. Idle.pc = "idle" /\ \A u \in Caller : at'[u] = IF u = t THEN Idle ELSE at[u]
  BY <1>1 DEF Goto, Idle
<1>4. /\ \A u \in Caller : \A p, k :
           /\ Touching(u, p, k)' <=> Touching(u, p, k)
           /\ Touching(u, p, k) => at'[u].todo = at[u].todo
      /\ \A p : Crowded(p)' => Crowded(p)
      /\ \A p : Cleared(p) => Cleared(p)' \/ p = o
  <2>1. \A u \in Caller : Leaving(u)' => Leaving(u)
    BY <1>1, <1>3 DEF Leaving, Busy
  <2> QED  BY <1>0, <1>1, <1>3, <2>1 DEF Touching, Crowded, Cleared
<1>5. \A y \in Name : unsure[y] \subseteq unsure'[y]
  BY <1>1, <1>2
<1>6. \A p \in Obj : Live(p)' =>
        /\ Live(p) /\ (Opens(p)' => Opens(p)) /\ (Tracked(p)' => Tracked(p))
        /\ obj[p].name \in Name /\ \A k \in Known(p)' : k \in Known(p)
  <2>1. \A p \in Obj : Live(p) => obj[p].name \in Name
    BY LiveIsDB, DBIsLive DEF TypeInv
  <2> QED  BY <1>1, <1>5, <2>1 DEF Live, Opens, Tracked, Known
<1>7. \A p : Opens(p)' => p \in Obj /\ Live(p)'
  BY DEF Opens, Live
<1>8. Files'
  BY <1>1 DEF AgreeInv, Files, Live
<1>9. Alone'
  BY <1>4, <1>6, <1>7 DEF AgreeInv, Alone
<1>10. Clean'
  <2> SUFFICES ASSUME NEW p \in Obj, Opens(p)', Crowded(p)', NEW k \in Known(p)'
               PROVE  Settled(p, k)'
    BY DEF Clean
  <2>1. Settled(p, k)
    BY <1>4, <1>6, <1>7 DEF AgreeInv, Clean
  <2> QED  BY <1>1, <1>4, <2>1 DEF Settled
<1>11. Emptied'
  BY <1>1, <1>3, <1>5, <1>6, EmptiedBusy DEF AgreeInv, Busy
<1>12. Agrees'
  <2> SUFFICES ASSUME NEW p \in Obj, Tracked(p)', ~Cleared(p)', NEW k \in Known(p)'
               PROVE  AgreeOn(p, k)'
    BY DEF Agrees
  <2>1. Live(p) /\ Tracked(p) /\ k \in Known(p) /\ obj[p].name \in Name
    BY <1>6, <1>7 DEF Tracked
  <2>2. CASE obj[p].name # x
    <3>1. ~Cleared(p)
      BY <1>0, <1>4, <2>2
    <3>2. AgreeOn(p, k) /\ obj'[p].store[k] = obj[p].store[k]
      BY <1>1, <2>1, <3>1 DEF AgreeInv, Agrees
    <3>3. Whole(p)' = Whole(p)
      BY <1>1, <2>1, <2>2 DEF Whole
    <3>4. \A w : Recovers(Whole(p), k, w) => Recovers(Whole(p), k, w)'
      BY <3>3 DEF Recovers
    <3> QED  BY <1>4, <3>2, <3>4, AgreeOnKept
  <2>3. CASE obj[p].name = x
    <3>1. /\ p = o /\ obj[o].store[k] = NoValue
          /\ \A u \in Caller : ~Touching(u, o, k)
      BY <1>0, <1>1, <2>1, <2>3, ClearedIs DEF AgreeInv
    <3>2. PICK b \in Seq(Line) : b = obj[o].buffer
      BY <1>2 DEF DB
    <3>3. \A i \in 1..Len(b) : b[i].key # k
      <4>1. k \notin Doubted(obj[o])
        BY <1>1, <1>2, <2>3 DEF Known
      <4> QED  BY <3>2, <4>1 DEF Doubted, ToSet
    <3>4. \A q \in Seq(Line) : <<>> \o q = q
      OBVIOUS
    <3>5. Whole(p)' = b
      BY <1>0, <1>1, <1>2, <3>1, <3>2, <3>4 DEF Whole
    <3>6. Recovers(b, k, NoValue)
      BY <3>3, LeavesUntouched DEF Touches, Recovers
    <3>7. \A u \in Caller : ~Touching(u, p, k)'
      BY <1>4, <3>1
    <3> QED  BY <1>1, <3>1, <3>5, <3>6, <3>7 DEF AgreeOn, Recovers
  <2> QED  BY <2>2, <2>3
<1> QED  BY <1>8, <1>9, <1>10, <1>11, <1>12 DEF AgreeInv

(* put, del, mput and mdel begin.                                          *)
LEMMA CommandsAgreed ==
  ASSUME TypeInv, Owned, AgreeInv, NEW t \in Thread,
         \/ \E l \in Line : Single(t, l)
         \/ \E l, m \in Line : Multi(t, <<l, m>>)
  PROVE  AgreeInv'
<1>1. ASSUME NEW l \in Line, Single(t, l) PROVE AgreeInv'
  <2> DEFINE r == obj[db].replaying
  <2>1. PICK ls : /\ ls = <<l>> /\ DOMAIN ls = {1} /\ ls[1] = l
                  /\ Run(t, ls, SingleTodo(l, r))
    <3>1. DOMAIN <<l>> = {1} /\ <<l>>[1] = l
      OBVIOUS
    <3> QED  BY <1>1, <3>1, Zenon DEF Single, SingleTodo
  <2>2. \A k : Mentions(SingleTodo(l, r), k) => \E i \in DOMAIN ls : ls[i].key = k
    <3>1. \A z, k : Mentions(SingleTodo(l, z), k) => k = l.key
      BY CommandsAgree
    <3> QED  BY <2>1, <3>1
  <2>3. ~r => SingleTodo(l, r) = SingleTodo(l, FALSE)
    BY DEF SingleTodo
  <2>4. ~r => \A i \in DOMAIN ls :
                /\ Mentions(SingleTodo(l, r), ls[i].key)
                /\ \E v : \A w : /\ Ends(SingleTodo(l, r), "append", ls[i].key, v, w)
                                 /\ Ends(SingleTodo(l, r), "apply", ls[i].key, v, w)
    <3>1. /\ Mentions(SingleTodo(l, FALSE), l.key)
          /\ \A w : /\ Ends(SingleTodo(l, FALSE), "append", l.key, l.val, w)
                    /\ Ends(SingleTodo(l, FALSE), "apply", l.key, l.val, w)
      BY CommandsAgree
    <3> QED  BY <2>1, <2>3, <3>1
  <2> QED  BY <2>1, <2>2, <2>4, RunAgrees
<1>2. ASSUME NEW l \in Line, NEW m \in Line, Multi(t, <<l, m>>) PROVE AgreeInv'
  <2>1. PICK ls : /\ ls = <<l, m>> /\ DOMAIN ls = {1, 2} /\ ls[1] = l /\ ls[2] = m
                  /\ Run(t, ls, MultiTodo(<<l, m>>))
    <3>1. DOMAIN <<l, m>> = {1, 2} /\ <<l, m>>[1] = l /\ <<l, m>>[2] = m
      OBVIOUS
    <3> QED  BY <1>2, <3>1, Zenon DEF Multi, MultiTodo
  <2>2. PICK todo : todo = MultiTodo(<<l, m>>)
    OBVIOUS
  <2>3. /\ \A k : Mentions(todo, k) <=> k \in {l.key, m.key}
        /\ \A k \in {l.key, m.key} : \E v : \A w :
             Ends(todo, "append", k, v, w) /\ Ends(todo, "apply", k, v, w)
    <3>1. \A k : Mentions(MultiTodo(<<l, m>>), k) <=> k \in {l.key, m.key}
      BY CommandsAgree
    <3>2. \A k \in {l.key, m.key} : \E v : \A w :
            /\ Ends(MultiTodo(<<l, m>>), "append", k, v, w)
            /\ Ends(MultiTodo(<<l, m>>), "apply", k, v, w)
      BY CommandsAgree
    <3> QED  BY <2>2, <3>1, <3>2
  <2>4. \A k : Mentions(todo, k) => \E i \in DOMAIN ls : ls[i].key = k
    BY <2>1, <2>3
  <2>5. \A i \in DOMAIN ls :
          /\ Mentions(todo, ls[i].key)
          /\ \E v : \A w : /\ Ends(todo, "append", ls[i].key, v, w)
                           /\ Ends(todo, "apply", ls[i].key, v, w)
    BY <2>1, <2>3
  <2>6. Run(t, ls, todo)
    BY <2>1, <2>2
  <2> QED  BY <2>4, <2>5, <2>6, RunAgrees
<1> QED  BY <1>1, <1>2

(* Every step keeps it, where temporary files are apart and no command has *)
(* an empty token.                                                         *)
LEMMA AgreeStep ==
  ASSUME \A x \in Name : Temp[x] = NoName, Empty \notin Key \cup Value
  PROVE  TypeInv /\ Owned /\ AgreeInv /\ [Next]_vars => AgreeInv'
<1> SUFFICES ASSUME TypeInv, Owned, AgreeInv, [Next]_vars PROVE AgreeInv'
  OBVIOUS
<1>1. ASSUME NEW x \in Name, Start(x) PROVE AgreeInv'
  BY <1>1, StartAgrees
<1>2. ASSUME NEW t \in Thread, Command(t) PROVE AgreeInv'
  <2>1. /\ t \in Caller
        /\ \A k \in Key : DelLine(k) \in Line
        /\ \A k \in Key, v \in Value : PutLine(k, v) \in Line
    BY DEF Caller, PutLine, DelLine, Line
  <2>2. CASE \/ \E k \in Key, v \in Value : Single(t, PutLine(k, v))
             \/ \E k \in Key : Single(t, DelLine(k))
    BY <2>1, <2>2, CommandsAgreed
  <2>3. CASE \/ \E j, k \in Key, v, w \in Value : Multi(t, <<PutLine(j, v), PutLine(k, w)>>)
             \/ \E j, k \in Key : Multi(t, <<DelLine(j), DelLine(k)>>)
    BY <2>1, <2>3, CommandsAgreed
  <2>4. CASE Clear(t)
    BY <2>4, ClearAgrees
  <2>5. ASSUME NEW x \in Name, Use(t, x) PROVE AgreeInv'
    BY <2>1, <2>5, ShutdownAgrees DEF Use, Ready
  <2>6. CASE Quit(t)
    BY <2>1, <2>6, ShutdownAgrees DEF Quit, Ready
  <2> QED  BY <1>2, <2>2, <2>3, <2>4, <2>5, <2>6 DEF Command
<1>3. CASE Exit
  BY <1>3, ShutdownAgrees DEF Exit, Caller
<1>4. ASSUME NEW t \in Caller, Proceed(t) PROVE AgreeInv'
  BY <1>4, StepAgrees, ClearFilesAgrees, CloseLogAgrees, CompactLogAgrees, GivesUpAgrees,
     WriteSnapshotAgrees, ConstructAgrees, SwapAgrees DEF Proceed
<1>5. ASSUME NEW o \in Obj, Flush(o) PROVE AgreeInv'
  BY <1>5, FlushAgrees
<1>6. CASE Crash
  BY <1>6, NothingToAgree DEF Crash
<1>7. CASE UNCHANGED vars
  <2>1. UNCHANGED <<db, obj, at, aof, unsure>>
    BY <1>7 DEF vars, history
  <2>2. \A o \in Obj : Crowded(o)' => Crowded(o)
    BY <2>1 DEF Crowded, Leaving, Busy
  <2>3. Emptied'
    BY <2>1 DEF AgreeInv, Emptied, Live, Known, Busy, Touching
  <2> QED  BY <2>1, <2>2, <2>3, CallsOnly
<1> QED  BY <1>1, <1>2, <1>3, <1>4, <1>5, <1>6, <1>7 DEF Next, Caller

(* However the commands of any number of clients interleave (dispatcher    *)
(* and DB have no lock), and whatever use, quit, clear, the end of the     *)
(* server and crashes do in between, the DB's table and its log agree      *)
(* about every key that no two of them have changed at the same time.      *)
THEOREM OverlapsOnly ==
  ASSUME \A x \in Name : Temp[x] = NoName, Empty \notin Key \cup Value
  PROVE  Spec => []OnlyOverlapsDisagree
<1>1. Init => Owned /\ AgreeInv
  BY DEF Init, Owned, Live, AgreeInv, Files, Alone, Clean, Emptied, Agrees, Tracked, Opens
<1>2. TypeInv /\ AgreeInv => OnlyOverlapsDisagree
  <2> SUFFICES ASSUME TypeInv, AgreeInv, NEW o \in Obj, Live(o), Inside(o) = {},
                      obj[o].open, obj[o].file = obj[o].name,
                      NEW k \in Key \ unsure[obj[o].name]
               PROVE  Recovers(aof[obj[o].name] \o obj[o].buffer, k, obj[o].store[k])
    BY DEF OnlyOverlapsDisagree
  <2>1. Tracked(o) /\ k \in Known(o)
    BY DEF Tracked, Opens, Known
  <2>2. DOMAIN at = Caller
    BY DEF TypeInv, TypeOK, Caller
  <2>3. ~Cleared(o) /\ \A t \in Caller : ~Touching(t, o, k)
    BY <2>2 DEF Inside, Touching, Cleared
  <2> QED  BY <2>1, <2>3 DEF AgreeInv, Agrees, AgreeOn, Whole
<1>3. Spec => [](TypeInv /\ Owned /\ AgreeInv)
  <2>1. Init => TypeInv
    BY TypeInit
  <2>2. TypeInv /\ Owned /\ AgreeInv /\ [Next]_vars => (TypeInv /\ Owned /\ AgreeInv)'
    BY TypeStep, OwnedStep, AgreeStep
  <2> QED  BY <1>1, <2>1, <2>2, PTL DEF Spec
<1> QED  BY <1>2, <1>3, PTL
-----------------------------------------------------------------------------
(* What the AOF alone gives, without the buffer: what a keyspace that is   *)
(* left depends on.  A call is past the logs when the DB it shuts down has *)
(* been compacted, or another DB has taken the place of the one it is      *)
(* about.                                                                  *)
Kept(o, k) == Recovers(aof[obj[o].name], k, obj[o].store[k])

Past(t) ==
  Busy(t) /\ (at[t].pc \in {"snapshot", "construct", "swap"} \/ at[t].call = "replaced")

(* A command that overlaps a shutdown, or runs on a DB that takes itself   *)
(* to be replaying, leaves its keys in doubt until it is over.             *)
Doubts ==
  \A o \in Obj : Live(o) =>
    \A k \in Known(o) : \A t \in Caller : Touching(t, o, k) =>
      ~obj[o].replaying /\ \A u \in Caller : ~Busy(u)

(* closeLog comes before compactLog and the snapshot.                      *)
Shut ==
  \A t \in Caller : at[t].pc \in {"compact", "snapshot"} /\ Live(at[t].obj) =>
    ~obj[at[t].obj].open

(* A DB that has lost its log and is not dirty has not changed since, or   *)
(* is being cleared.                                                       *)
Unlogged ==
  \A o \in Obj : Live(o) /\ ~Tracked(o) /\ ~obj[o].dirty /\ ~Cleared(o) =>
    \A k \in Known(o) : Kept(o, k)

(* Once a call is past the logs, every table is in its AOF.                *)
Passed ==
  (\E t \in Caller : Past(t)) => \A o \in Obj : Live(o) => \A k \in Known(o) : Kept(o, k)

(* No DB has the name of a keyspace that has been left, and its files are  *)
(* what LeftMeansKept says.                                                *)
Departed ==
  \A x \in Name : \A store \in left[x] :
    /\ \A o \in Obj : obj[o].name # x
    /\ \A k \in Key \ unsure[x] : Recovers(aof[x], k, store[k])

KeptInv == Doubts /\ Shut /\ Unlogged /\ Passed /\ Departed

(* A compacted AOF holds a line for each stored key, and gives the table.  *)
LEMMA DumpRecovers ==
  ASSUME Empty \notin Key \cup Value, NEW d \in DB, NEW dump \in Dumps(d), NEW k \in Key
  PROVE  Recovers(dump, k, d.store[k])
<1> DEFINE S == Stored(d)
           n == Cardinality(S)
<1>1. IsFiniteSet(S)
  BY KeyAssumption, FS_Subset DEF Stored
<1>2. n \in Nat
  BY <1>1, FS_CardinalityType
<1>3. PICK ks \in SetToSeqs(S) :
        dump = [i \in DOMAIN ks |-> PutLine(ks[i], d.store[ks[i]])]
  BY DEF Dumps
<1>4. ks \in [1..n -> S] /\ \A i, j \in 1..n : i # j => ks[i] # ks[j]
  BY <1>3 DEF SetToSeqs
<1>5. ks \in Injection(1..n, S)
  BY <1>4 DEF Injection, IsInjective
<1>6. Cardinality(1..n) = n
  BY <1>2, FS_Interval
<1>7. ks \in Surjection(1..n, S)
  BY <1>1, <1>5, <1>6, FS_Injection
<1>8. \A j \in S : j \in Key /\ PutLine(j, d.store[j]).key = j
                   /\ PutLine(j, d.store[j]).val = d.store[j]
                   /\ Touches(PutLine(j, d.store[j]), j)
  BY DEF Stored, DB, Content, PutLine, Touches, Readable
<1> HIDE DEF n, S
<1>9. /\ Len(dump) = n
      /\ \A i \in 1..n : dump[i] = PutLine(ks[i], d.store[ks[i]]) /\ ks[i] \in S
  BY <1>2, <1>3, <1>4
<1>10. \A i \in 1..n : Touches(dump[i], k) <=> ks[i] = k
  <2>1. \A i \in 1..n : Touches(dump[i], k) => ks[i] = k
    BY <1>8, <1>9 DEF Touches
  <2>2. \A i \in 1..n : Touches(dump[i], ks[i])
    BY <1>8, <1>9
  <2> QED  BY <2>1, <2>2
<1>11. CASE k \in S
  <2>1. PICK i \in 1..n : ks[i] = k
    BY <1>7, <1>11 DEF Surjection
  <2>2. Touches(dump[i], k) /\ dump[i].val = d.store[k]
    BY <1>8, <1>9, <1>10, <2>1
  <2>3. \A j \in 1..n : j > i => ~Touches(dump[j], k)
    BY <1>2, <1>4, <1>10, <2>1
  <2> QED  BY <1>9, <2>2, <2>3 DEF Recovers, Leaves
<1>12. CASE k \notin S
  <2>1. \A i \in 1..n : ~Touches(dump[i], k)
    BY <1>9, <1>10, <1>12
  <2>2. d.store[k] = NoValue
    BY <1>12 DEF S, Stored
  <2> QED  BY <1>9, <2>1, <2>2 DEF Recovers, Leaves
<1> QED  BY <1>11, <1>12

(* Past the logs, every DB is in a crowd.                                  *)
LEMMA PastIsLeaving ==
  ASSUME TypeInv, NEW t \in Caller, Past(t)
  PROVE  Leaving(t) /\ Busy(t) /\ \A o : Crowded(o)
BY DEF Past, Leaving, Crowded, TypeInv, ObjectInv, Holds

(* Until then, the server's DB is the only one.                            *)
LEMMA OnlyOne ==
  ASSUME Owned, \A t \in Caller : ~Past(t), NEW o \in Obj, Live(o)
  PROVE  o = db
BY DEF Owned, Owns, Past

(* Appending lines that do not mention a key leaves it as it is.           *)
LEMMA KeptWritten ==
  ASSUME TypeInv, AgreeInv, NEW o \in Obj, Live(o), aof' = Written(o),
         NEW p \in Obj, Live(p), obj[p].name = obj[o].name => Crowded(o) ,
         NEW k \in Known(p), NEW w, Recovers(aof[obj[p].name], k, w)
  PROVE  Recovers(aof'[obj[p].name], k, w)
<1>1. obj[o] \in DB /\ obj[p] \in DB
  BY LiveIsDB DEF TypeInv
<1>2. obj[p].name \in Name /\ obj[o].name \in Name
  BY <1>1, DBIsLive
<1>3. obj[o].file \in {obj[o].name, NoName} /\ (~obj[o].open => obj[o].buffer = <<>>)
  BY DEF AgreeInv, Files
<1>4. aof \in [Name -> Seq(Line)]
  BY DEF TypeInv, TypeOK
<1>5. CASE obj[o].file # obj[p].name
  BY <1>2, <1>4, <1>5 DEF Written
<1>6. CASE obj[o].file = obj[p].name
  <2>1. obj[o].name = obj[p].name /\ Crowded(o) /\ k \in Known(o) /\ obj[o].file # NoName
    BY <1>2, <1>3, <1>6, NamesAssumption DEF Known
  <2>2. \A i \in 1..Len(obj[o].buffer) : ~Touches(obj[o].buffer[i], k)
    <3>1. CASE obj[o].open
      BY <2>1, <3>1 DEF AgreeInv, Clean, Opens, Settled, Touches
    <3>2. CASE ~obj[o].open
      BY <1>3, <3>2
    <3> QED  BY <3>1, <3>2
  <2>3. aof'[obj[p].name] = aof[obj[p].name] \o obj[o].buffer
    BY <1>2, <1>4, <1>6, <2>1 DEF Written
  <2>4. obj[o].buffer \in Seq(Line) /\ aof[obj[p].name] \in Seq(Line)
    BY <1>1, <1>2, <1>4 DEF DB
  <2>5. Leaves(w, obj[o].buffer, k, w)
    BY <2>2, <2>4, LeavesUntouched
  <2>6. Leaves(NoValue, aof[obj[p].name] \o obj[o].buffer, k, w)
    BY <2>4, <2>5, LeavesConcat DEF Recovers
  <2> QED  BY <2>3, <2>6 DEF Recovers
<1> QED  BY <1>5, <1>6

(* Steps that leave tables and AOFs alone, free objects or not, and bring  *)
(* no call past the logs.                                                  *)
LEMMA FewerKept ==
  ASSUME TypeInv, KeptInv, UNCHANGED aof,
         \A p \in Obj : obj'[p] = obj[p] \/ obj'[p] = Freed,
         \A y \in Name : unsure[y] \subseteq unsure'[y],
         \A u \in Caller : at'[u] = at[u] \/ at'[u].pc # "run",
         \A u \in Caller : at'[u].pc \in {"compact", "snapshot"} => at'[u] = at[u],
         \/ (\E u \in Caller : Busy(u)') => \E u \in Caller : Busy(u)
         \/ \A p \in Obj : Live(p) => Mentioned(Caller) \subseteq unsure'[obj[p].name],
         \A p \in Obj : Live(p)' /\ Cleared(p) => Cleared(p)',
         (\E u \in Caller : Past(u)') => \E u \in Caller : Past(u)
  PROVE  Doubts' /\ Shut' /\ Unlogged' /\ Passed'
<1>1. ASSUME NEW p \in Obj, Live(p)'
      PROVE  /\ Live(p) /\ obj'[p] = obj[p] /\ obj[p].name \in Name
             /\ Tracked(p)' <=> Tracked(p)
             /\ \A k \in Known(p)' : k \in Known(p) /\ (Kept(p, k)' <=> Kept(p, k))
  <2>1. Live(p) /\ obj'[p] = obj[p]
    BY <1>1 DEF Live
  <2>2. obj[p].name \in Name
    BY <2>1, LiveIsDB, DBIsLive DEF TypeInv
  <2> QED  BY <2>1, <2>2 DEF Tracked, Opens, Live, Known, Kept
<1>2. Doubts'
  <2> SUFFICES ASSUME NEW p \in Obj, Live(p)', NEW k \in Known(p)', NEW t \in Caller,
                      Touching(t, p, k)'
               PROVE  ~obj'[p].replaying /\ \A u \in Caller : ~Busy(u)'
    BY DEF Doubts
  <2>1. Touching(t, p, k)
    BY DEF Touching
  <2>2. ~obj[p].replaying /\ \A u \in Caller : ~Busy(u)
    BY <1>1, <2>1 DEF KeptInv, Doubts
  <2>3. CASE \A q \in Obj : Live(q) => Mentioned(Caller) \subseteq unsure'[obj[q].name]
    <3>1. k \in Mentioned(Caller)
      BY <2>1, MentionedIs DEF Touching, Known
    <3>2. k \in unsure'[obj[p].name]
      BY <1>1, <2>3, <3>1
    <3> QED  BY <1>1, <3>2 DEF Known
  <2> QED  BY <1>1, <2>2, <2>3
<1>3. Shut'
  BY DEF KeptInv, Shut, Live
<1>4. Unlogged'
  BY <1>1 DEF KeptInv, Unlogged
<1>5. Passed'
  BY <1>1 DEF KeptInv, Passed
<1> QED  BY <1>2, <1>3, <1>4, <1>5

(* The files of keyspaces that have been left are not touched.             *)
LEMMA DepartedKept ==
  ASSUME Departed, \A x \in Name : left'[x] \subseteq left[x],
         \A x \in Name : left'[x] # {} =>
           /\ aof'[x] = aof[x] /\ unsure[x] \subseteq unsure'[x]
           /\ \A o \in Obj : obj'[o].name = obj[o].name \/ obj'[o].name # x
  PROVE  Departed'
BY DEF Departed

(* use, quit and ~Server enter shutdown(): what commands change is in      *)
(* doubt.                                                                  *)
LEMMA ShutdownKept ==
  ASSUME TypeInv, KeptInv, NEW t \in Caller, at[t].pc = "idle", NEW call, NEW x,
         Shutdown(t, call, x), call # "replaced"
  PROVE  KeptInv'
<1> DEFINE c == [pc |-> "close", obj |-> db, call |-> call, to |-> x]
<1>1. /\ at' = [at EXCEPT ![t] = c] /\ UNCHANGED <<db, obj, aof, left>>
      /\ at \in [Caller -> Call]
      /\ unsure' = [y \in Name |-> unsure[y] \cup IF Shared(y) THEN Mentioned(Caller) ELSE {}]
  BY DEF Shutdown, Goto, TypeInv, TypeOK, Caller
<1>2. c.pc = "close" /\ c.obj = db /\ c.call = call
  OBVIOUS
<1> HIDE DEF c
<1>3. \A u \in Caller : at'[u] = IF u = t THEN c ELSE at[u]
  BY <1>1
<1>4. \A u \in Caller : Past(u)' => Past(u)
  BY <1>2, <1>3 DEF Past, Busy
<1>5. /\ \A y \in Name : unsure[y] \subseteq unsure'[y]
      /\ \A p \in Obj : Live(p) => Mentioned(Caller) \subseteq unsure'[obj[p].name]
  <2>1. \A p \in Obj : Live(p) => obj[p].name \in Name
    BY LiveIsDB, DBIsLive DEF TypeInv
  <2> QED  BY <1>1, <2>1 DEF Shared
<1>6. Doubts' /\ Shut' /\ Unlogged' /\ Passed'
  <2>1. \A u \in Caller : at'[u] = at[u] \/ at'[u].pc # "run"
    BY <1>2, <1>3
  <2>2. \A u \in Caller : at'[u].pc \in {"compact", "snapshot"} => at'[u] = at[u]
    BY <1>2, <1>3
  <2>3. \A p \in Obj : Cleared(p) => Cleared(p)'
    BY <1>3 DEF Cleared
  <2> QED  BY <1>1, <1>4, <1>5, <2>1, <2>2, <2>3, FewerKept
<1>7. Departed'
  BY <1>1, <1>5, DepartedKept DEF KeptInv
<1> QED  BY <1>6, <1>7 DEF KeptInv

(* use and quit give up: nothing is lost with the call.                    *)
LEMMA GivesUpKept ==
  ASSUME TypeInv, KeptInv, NEW t \in Caller, ShutdownThrows(t) \/ UseFails(t)
  PROVE  KeptInv'
<1>1. /\ at' = [at EXCEPT ![t] = Idle] /\ UNCHANGED <<db, obj, aof, history>>
      /\ at \in [Caller -> Call] /\ Idle.pc = "idle" /\ at[t].pc # "clear"
  BY DEF ShutdownThrows, UseFails, Goto, TypeInv, TypeOK, Caller, Idle
<1>2. \A u \in Caller : at'[u] = at[u] \/ at'[u].pc = "idle"
  BY <1>1
<1>3. \A u \in Caller : (Past(u)' => Past(u)) /\ (Busy(u)' => Busy(u))
  BY <1>2 DEF Past, Busy
<1>4. Doubts' /\ Shut' /\ Unlogged' /\ Passed'
  <2>1. \A p \in Obj : Cleared(p) => Cleared(p)'
    BY <1>1 DEF Cleared
  <2> QED  BY <1>1, <1>2, <1>3, <2>1, FewerKept DEF history
<1>5. Departed'
  BY <1>1, DepartedKept DEF KeptInv, history
<1> QED  BY <1>4, <1>5 DEF KeptInv

(* The pointer moves to the new DB, the old one is about to be destroyed.  *)
LEMMA SwapKept ==
  ASSUME TypeInv, KeptInv, NEW t \in Caller, Swap(t)
  PROVE  KeptInv'
<1> DEFINE c == [at[t] EXCEPT !.pc = "close", !.obj = db, !.call = "replaced"]
<1>1. /\ at' = [at EXCEPT ![t] = c] /\ UNCHANGED <<obj, aof, history>>
      /\ at[t].pc = "swap" /\ at \in [Caller -> Call]
  BY DEF Swap, Goto, TypeInv, TypeOK, Caller
<1>2. c.pc = "close"
  BY <1>1, CallCases DEF TypeInv, Call
<1> HIDE DEF c
<1>3. \A u \in Caller : at'[u] = IF u = t THEN c ELSE at[u]
  BY <1>1
<1>4. Past(t) /\ Busy(t)
  BY <1>1 DEF Past, Busy
<1>5. Doubts' /\ Shut' /\ Unlogged' /\ Passed'
  <2>1. \A u \in Caller : at'[u] = at[u] \/ at'[u].pc \notin {"run", "compact", "snapshot"}
    BY <1>2, <1>3
  <2>2. \A p \in Obj : Cleared(p) => Cleared(p)'
    BY <1>1, <1>3 DEF Cleared
  <2> QED  BY <1>1, <1>4, <2>1, <2>2, FewerKept DEF history
<1>6. Departed'
  BY <1>1, DepartedKept DEF KeptInv, history
<1> QED  BY <1>5, <1>6 DEF KeptInv

(* The DB has been compacted: what is left is its table in its AOF.        *)
LEMMA WriteSnapshotKept ==
  ASSUME TypeInv, KeptInv, NEW t \in Caller, WriteSnapshot(t)
  PROVE  KeptInv'
<1>0. PICK o : o = at[t].obj
  OBVIOUS
<1> DEFINE x == obj[o].name
<1>1. /\ at[t].pc = "snapshot" /\ UNCHANGED <<aof, unsure>> /\ o \in Obj /\ Live(o)
      /\ at \in [Caller -> Call] /\ obj \in [Obj -> DB \cup {Freed}]
      /\ left \in [Name -> SUBSET Content]
  BY <1>0, LiveIsDB DEF WriteSnapshot, TypeInv, TypeOK, Caller
<1>2. x \in Name /\ x # NoName
  BY <1>1, LiveIsDB, DBIsLive DEF TypeInv
<1>3. Past(t) /\ Busy(t)
  BY <1>1 DEF Past, Busy
<1>4. left[x] = {} /\ \A k \in Key \ unsure[x] : Recovers(aof[x], k, obj[o].store[k])
  BY <1>1, <1>2, <1>3 DEF KeptInv, Departed, Passed, Known, Kept
<1>5. /\ \A p \in Obj : obj'[p] = obj[p] \/ obj'[p] = Freed
      /\ \A u \in Caller : at'[u] = at[u]
                           \/ at'[u].pc \in {"idle", "construct", "close"}
      /\ \/ left' = left
         \/ left' = [left EXCEPT ![x] = {obj[o].store}] /\ \A p \in Obj : obj'[p].name # x
      /\ \A p \in Obj : Live(p)' /\ Cleared(p) => Cleared(p)'
  <2>1. CASE at[t].call \in {"quit", "use", "server"}
    <3>1. PICK c : Goto(t, c) /\ c.pc \in {"idle", "construct", "close"}
                   /\ UNCHANGED <<obj, left>>
      <4>1. \A p, q, r : /\ [at[t] EXCEPT !.pc = "construct", !.obj = p].pc = "construct"
                         /\ [at[t] EXCEPT !.pc = "close", !.obj = q, !.call = r].pc = "close"
        BY <1>1, CallCases DEF TypeInv, Call
      <4>2. CASE at[t].call = "quit"
        <5>1. Goto(t, Idle) /\ UNCHANGED <<obj, left>>
          BY <4>2 DEF WriteSnapshot
        <5> QED  BY <5>1 DEF Idle
      <4>3. CASE at[t].call = "use"
        <5>1. PICK c : c = [at[t] EXCEPT !.pc = "construct", !.obj = NoObj]
          OBVIOUS
        <5>2. Goto(t, c) /\ UNCHANGED <<obj, left>>
          BY <4>3, <5>1 DEF WriteSnapshot
        <5> QED  BY <4>1, <5>1, <5>2
      <4>4. CASE at[t].call = "server"
        <5>1. PICK c : c = [at[t] EXCEPT !.pc = "close", !.obj = db, !.call = "member"]
          OBVIOUS
        <5>2. Goto(t, c) /\ UNCHANGED <<obj, left>>
          BY <4>4, <5>1 DEF WriteSnapshot
        <5> QED  BY <4>1, <5>1, <5>2
      <4> QED  BY <2>1, <4>2, <4>3, <4>4
    <3>2. \A u \in Caller : at'[u] = IF u = t THEN c ELSE at[u]
      BY <1>1, <3>1 DEF Goto
    <3>3. \A p \in Obj : Cleared(p) => Cleared(p)'
      BY <1>1, <3>2 DEF Cleared
    <3> QED  BY <3>1, <3>2, <3>3
  <2>2. CASE at[t].call = "replaced"
    <3>1. /\ at' = [at EXCEPT ![t] = Idle] /\ obj' = [obj EXCEPT ![o] = Freed]
          /\ left' = [left EXCEPT ![x] = IF \A p \in Obj : [obj EXCEPT ![o] = Freed][p].name # x
                                         THEN {obj[o].store} ELSE @]
      BY <1>0, <2>2 DEF WriteSnapshot, Goto
    <3>2. \A p \in Obj : obj'[p] = obj[p] \/ obj'[p] = Freed
      BY <1>1, <3>1
    <3>3. \A u \in Caller : at'[u] = at[u] \/ at'[u].pc = "idle"
      BY <1>1, <3>1 DEF Idle
    <3>4. \A p \in Obj : Cleared(p) => Cleared(p)'
      BY <1>1, <3>1 DEF Cleared
    <3>5. \/ left' = left
          \/ left' = [left EXCEPT ![x] = {obj[o].store}] /\ \A p \in Obj : obj'[p].name # x
      BY <1>1, <1>2, <3>1
    <3> QED  BY <3>2, <3>3, <3>4, <3>5
  <2>3. CASE at[t].call = "member"
    <3>1. /\ at' = [u \in DOMAIN at |-> Idle] /\ obj' = [p \in Obj |-> Freed]
          /\ left' = left \/ left' = [left EXCEPT ![x] = {obj[o].store}]
      <4>1. PICK last : left' = [left EXCEPT ![x] = IF last THEN {obj[o].store} ELSE @]
        BY <1>0, <2>3 DEF WriteSnapshot
      <4> QED  BY <1>0, <1>1, <2>3, <4>1 DEF WriteSnapshot
    <3>2. \A p \in Obj : obj'[p].name # x
      BY <1>2, <3>1 DEF Freed
    <3> QED  BY <1>1, <3>1, <3>2 DEF Idle, Live
  <2> QED  BY <2>1, <2>2, <2>3 DEF WriteSnapshot
<1>6. Doubts' /\ Shut' /\ Unlogged' /\ Passed'
  BY <1>1, <1>3, <1>5, FewerKept
<1>7. Departed'
  <2> SUFFICES ASSUME NEW y \in Name, NEW store \in left'[y]
               PROVE  /\ \A p \in Obj : obj'[p].name # y
                      /\ \A k \in Key \ unsure'[y] : Recovers(aof'[y], k, store[k])
    BY DEF Departed
  <2>1. CASE y = x
    <3>1. store = obj[o].store /\ \A p \in Obj : obj'[p].name # x
      BY <1>1, <1>2, <1>4, <1>5, <2>1
    <3> QED  BY <1>1, <1>4, <2>1, <3>1
  <2>2. CASE y # x
    <3>1. store \in left[y]
      BY <1>1, <1>5, <2>2
    <3>2. \A p \in Obj : obj'[p].name # y
      <4>1. y # NoName /\ \A p \in Obj : obj[p].name # y
        BY <1>1, <3>1, NamesAssumption DEF KeptInv, Departed
      <4> QED  BY <1>5, <4>1 DEF Freed
    <3> QED  BY <1>1, <3>1, <3>2 DEF KeptInv, Departed
  <2> QED  BY <2>1, <2>2
<1> QED  BY <1>6, <1>7 DEF KeptInv

(* Without objects, the keyspaces that have been left are as they were.    *)
LEMMA NothingKept ==
  ASSUME TypeInv, KeptInv, \A o \in Obj : obj'[o] = Freed, UNCHANGED <<aof, history>>
  PROVE  KeptInv'
<1>1. Doubts' /\ Unlogged' /\ Passed'
  BY DEF Doubts, Unlogged, Passed, Live
<1>2. Shut'
  BY DEF Shut, Live
<1>3. \A x \in Name : Freed.name # x
  BY NamesAssumption DEF Freed
<1>4. Departed'
  BY <1>3 DEF KeptInv, Departed, history
<1> QED  BY <1>1, <1>2, <1>4 DEF KeptInv

(* A DB that is constructed holds what its AOF gives, and has it open.     *)
LEMMA OpenedKept ==
  ASSUME TypeInv, KeptInv, NEW o \in Obj, ~Live(o), NEW x \in Name, NEW b \in BOOLEAN,
         NEW d \in Constructed(x, b), obj' = [obj EXCEPT ![o] = d], UNCHANGED aof,
         \A u \in Caller : at'[u] = at[u] \/ at'[u].pc \notin {"run", "compact", "snapshot"},
         \A u \in Caller : at'[u].pc \in {"run", "compact", "snapshot"} => at'[u].obj # o,
         (\E u \in Caller : Busy(u)') => \E u \in Caller : Busy(u),
         (\E u \in Caller : Past(u)') => \E u \in Caller : Past(u),
         unsure' = unsure \/ (~Shared(x) /\ unsure' = [unsure EXCEPT ![x] = {}]),
         \A p \in Obj : p # o /\ Cleared(p) => Cleared(p)',
         left' = [left EXCEPT ![x] = {}]
  PROVE  KeptInv'
<1>1. /\ d \in DB /\ d.name = x /\ d.file = x /\ d.open = TRUE /\ d.buffer = <<>>
      /\ \A k \in Key : Recovers(aof[x], k, d.store[k])
  BY ConstructedType, ZenonT(40) DEF TypeInv
<1>2. /\ obj'[o] = d /\ \A p \in Obj : p # o => obj'[p] = obj[p]
  BY DEF TypeInv, TypeOK
<1>3. ASSUME NEW p \in Obj, p # o, Live(p)'
      PROVE  /\ Live(p) /\ (Tracked(p)' <=> Tracked(p)) /\ obj'[p] = obj[p]
             /\ \A k \in Known(p)' : k \in Known(p) /\ (Kept(p, k)' <=> Kept(p, k))
  <2>1. obj'[p] = obj[p] /\ Live(p)
    BY <1>2, <1>3 DEF Live
  <2>2. unsure'[obj[p].name] = unsure[obj[p].name]
    <3>1. obj[p].name \in Name
      BY <2>1, LiveIsDB, DBIsLive DEF TypeInv
    <3> QED  BY <3>1 DEF Shared, TypeInv, TypeOK
  <2> QED  BY <2>1, <2>2 DEF Tracked, Opens, Live, Known, Kept
<1>4. Tracked(o)' /\ \A k \in Known(o)' : Kept(o, k)'
  <2>1. Live(o)'
    BY <1>1, <1>2, DBIsLive DEF Live
  <2> QED  BY <1>1, <1>2, <2>1 DEF Tracked, Opens, Known, Kept
<1>5. Doubts'
  <2> SUFFICES ASSUME NEW p \in Obj, Live(p)', NEW k \in Known(p)', NEW t \in Caller,
                      Touching(t, p, k)'
               PROVE  ~obj'[p].replaying /\ \A u \in Caller : ~Busy(u)'
    BY DEF Doubts
  <2>1. p # o /\ Touching(t, p, k)
    BY DEF Touching
  <2> QED  BY <1>3, <2>1 DEF KeptInv, Doubts
<1>6. Shut'
  <2> SUFFICES ASSUME NEW t \in Caller, at'[t].pc \in {"compact", "snapshot"},
                      NEW p, p = at'[t].obj, Live(p)'
               PROVE  ~obj'[p].open
    BY DEF Shut
  <2>1. p \in Obj /\ p # o /\ at'[t] = at[t]
    BY DEF Live
  <2> QED  BY <1>3, <2>1 DEF KeptInv, Shut
<1>7. Unlogged'
  BY <1>3, <1>4 DEF KeptInv, Unlogged
<1>8. Passed'
  BY <1>3, <1>4 DEF KeptInv, Passed
<1>9. Departed'
  <2>1. ASSUME NEW y \in Name, left'[y] # {}
        PROVE  /\ aof'[y] = aof[y] /\ unsure[y] \subseteq unsure'[y]
               /\ \A p \in Obj : obj'[p].name = obj[p].name \/ obj'[p].name # y
    <3>1. y # x
      BY <2>1 DEF TypeInv, TypeOK
    <3> QED  BY <1>1, <1>2, <3>1 DEF TypeInv, TypeOK
  <2>2. \A y \in Name : left'[y] \subseteq left[y]
    BY DEF TypeInv, TypeOK
  <2> QED  BY <2>1, <2>2, DepartedKept DEF KeptInv
<1> QED  BY <1>5, <1>6, <1>7, <1>8, <1>9 DEF KeptInv

(* use constructs its DB.                                                  *)
LEMMA ConstructKept ==
  ASSUME TypeInv, KeptInv, NEW t \in Caller, Construct(t)
  PROVE  KeptInv'
<1> DEFINE x == at[t].to
<1>1. /\ at[t].pc = "construct" /\ x \in Name /\ at \in [Caller -> Call]
      /\ Busy(t) /\ Past(t)
  BY DEF Construct, TypeInv, TypeOK, ObjectInv, Holds, Busy, Past, Caller
<1>2. PICK o \in Obj, d \in Constructed(x, TRUE) :
        /\ ~Live(o) /\ Inside(o) = {} /\ obj' = [obj EXCEPT ![o] = d]
        /\ at' = [at EXCEPT ![t] = [at[t] EXCEPT !.pc = "swap", !.obj = o]]
  BY DEF Construct, Goto
<1> DEFINE c == [at[t] EXCEPT !.pc = "swap", !.obj = o]
<1>3. c.pc = "swap"
  BY <1>1, CallCases DEF TypeInv, Call
<1>4. \A u \in Caller : at'[u] = IF u = t THEN c ELSE at[u]
  BY <1>1, <1>2
<1> HIDE DEF c
<1>5. \A u \in Caller : at[u].pc # "idle" => at[u].obj # o
  BY <1>1, <1>2 DEF Inside
<1>6. /\ UNCHANGED aof /\ left' = [left EXCEPT ![x] = {}]
      /\ unsure' = unsure \/ (~Shared(x) /\ unsure' = [unsure EXCEPT ![x] = {}])
  BY DEF Construct
<1>7. /\ \A u \in Caller : at'[u] = at[u] \/ at'[u].pc = "swap"
      /\ \A u \in Caller : at'[u].pc \in {"run", "compact", "snapshot"} => at'[u].obj # o
  BY <1>3, <1>4, <1>5
<1>8. \A u \in Caller : at'[u] = at[u] \/ at'[u].pc \notin {"run", "compact", "snapshot"}
  BY <1>7
<1>9. /\ (\E u \in Caller : Busy(u)') => \E u \in Caller : Busy(u)
      /\ (\E u \in Caller : Past(u)') => \E u \in Caller : Past(u)
  BY <1>1
<1>10. \A p \in Obj : Cleared(p) => Cleared(p)'
  BY <1>1, <1>4 DEF Cleared
<1> QED  BY <1>1, <1>2, <1>6, <1>7, <1>8, <1>9, <1>10, OpenedKept

(* main constructs the first one.                                          *)
LEMMA StartKept ==
  ASSUME TypeInv, KeptInv, NEW x \in Name, Start(x)
  PROVE  KeptInv'
<1>1. NoProcess /\ UNCHANGED <<at, aof>>
  BY DEF Start, TypeInv, ObjectInv
<1>2. PICK o \in Obj, d \in Constructed(x, FALSE) : obj' = [obj EXCEPT ![o] = d]
  BY DEF Start
<1>3. ~Live(o) /\ ~Shared(x)
  BY <1>1, NamesAssumption DEF NoProcess, Live, Shared, Freed
<1>4. \A u \in Caller : at'[u] = at[u] /\ at'[u].pc = "idle"
  BY <1>1 DEF NoProcess, Idle
<1>5. \A u \in Caller : ~Busy(u)' /\ ~Past(u)'
  BY <1>4 DEF Busy, Past
<1>6. left' = [left EXCEPT ![x] = {}] /\ unsure' = [unsure EXCEPT ![x] = {}]
  BY DEF Start
<1>7. \A p \in Obj : Cleared(p) => Cleared(p)'
  BY <1>4 DEF Cleared
<1> QED  BY <1>1, <1>2, <1>3, <1>4, <1>5, <1>6, <1>7, OpenedKept

(* What a flusher writes, or closeLog, is about keys in doubt for every    *)
(* other DB, and once a call is past the logs also for this one.           *)
LEMMA WritingKept ==
  ASSUME TypeInv, Owned, AgreeInv, KeptInv, NEW o \in Obj, Live(o), aof' = Written(o),
         UNCHANGED unsure, NEW p \in Obj, Live(p),
         obj'[p].name = obj[p].name, obj'[p].store = obj[p].store,
         p = o => \E u \in Caller : Past(u), NEW k \in Known(p), Kept(p, k)
  PROVE  Kept(p, k)'
<1>1. Crowded(o)
  <2>1. CASE p = o
    BY <2>1, PastIsLeaving
  <2>2. CASE p # o
    BY <2>2, TwoAreCrowded
  <2> QED  BY <2>1, <2>2
<1>2. Recovers(aof'[obj[p].name], k, obj[p].store[k])
  BY <1>1, KeptWritten DEF Kept
<1> QED  BY <1>2 DEF Kept

(* A live DB writes to the AOF of a keyspace that has not been left.       *)
LEMMA WrittenElsewhere ==
  ASSUME TypeInv, AgreeInv, Departed, NEW o \in Obj, Live(o), aof' = Written(o),
         NEW x \in Name, left[x] # {}
  PROVE  aof'[x] = aof[x]
<1>1. obj[o].file \in {obj[o].name, NoName} /\ obj[o].name # x
  BY DEF AgreeInv, Files, Departed
<1>2. aof \in [Name -> Seq(Line)]
  BY DEF TypeInv, TypeOK
<1> QED  BY <1>1, <1>2, NamesAssumption DEF Written

(* One round of a flusher.                                                 *)
LEMMA FlushKept ==
  ASSUME TypeInv, Owned, AgreeInv, KeptInv, NEW o \in Obj, Flush(o)
  PROVE  KeptInv'
<1>1. /\ Live(o) /\ obj[o].open /\ aof' = Written(o)
      /\ UNCHANGED <<at, unsure, left>>
      /\ obj' = [obj EXCEPT ![o] = [@ EXCEPT !.buffer = <<>>]]
  BY DEF Flush, history
<1>2. \A p \in Obj :
        /\ obj'[p].name = obj[p].name /\ obj'[p].store = obj[p].store
        /\ obj'[p].replaying = obj[p].replaying /\ obj'[p].dirty = obj[p].dirty
        /\ obj'[p].open = obj[p].open /\ obj'[p].file = obj[p].file
        /\ Live(p)' <=> Live(p)
  <2>1. /\ obj[o] \in DB /\ obj \in [Obj -> DB \cup {Freed}]
    BY <1>1, LiveIsDB DEF TypeInv, TypeOK
  <2>2. PICK d : d = [obj[o] EXCEPT !.buffer = <<>>]
    OBVIOUS
  <2>3. /\ d \in DB /\ d.name = obj[o].name /\ d.store = obj[o].store
        /\ d.replaying = obj[o].replaying
        /\ d.dirty = obj[o].dirty /\ d.open = obj[o].open /\ d.file = obj[o].file
    <3>1. <<>> \in Seq(Line)
      OBVIOUS
    <3> QED  BY <2>1, <2>2, <3>1 DEF DB
  <2>4. obj'[o] = d /\ \A p \in Obj : p # o => obj'[p] = obj[p]
    BY <1>1, <2>1, <2>2
  <2> QED  BY <1>1, <2>3, <2>4, DBIsLive DEF Live
<1>3. \A p \in Obj : /\ Known(p)' = Known(p)
                     /\ Live(p)' => (Tracked(p)' <=> Tracked(p))
  BY <1>1, <1>2 DEF Known, Tracked, Opens
<1>4. \A u \in Caller : /\ Busy(u)' <=> Busy(u)
                        /\ Past(u)' <=> Past(u)
                        /\ \A p, k : Touching(u, p, k)' <=> Touching(u, p, k)
  BY <1>1 DEF Busy, Past, Touching
<1>5. Doubts'
  BY <1>2, <1>3, <1>4 DEF KeptInv, Doubts
<1>6. Shut'
  BY <1>1, <1>2 DEF KeptInv, Shut, Live
<1>7. Unlogged'
  <2> SUFFICES ASSUME NEW p \in Obj, Live(p)', ~Tracked(p)', ~obj'[p].dirty, ~Cleared(p)',
                      NEW k \in Known(p)'
               PROVE  Kept(p, k)'
    BY DEF Unlogged
  <2>1. Live(p) /\ ~Tracked(p) /\ k \in Known(p) /\ Kept(p, k)
    BY <1>1, <1>2, <1>3 DEF KeptInv, Unlogged, Cleared
  <2>2. CASE p = o /\ obj[o].file = NoName
    <3>1. aof' = aof
      BY <1>1, <2>2 DEF Written
    <3> QED  BY <1>2, <2>1, <3>1 DEF Kept
  <2>3. CASE p = o /\ obj[o].file # NoName
    <3>1. Tracked(o)
      BY <1>1, <2>3 DEF AgreeInv, Files, Tracked, Opens
    <3> QED  BY <2>1, <2>3, <3>1
  <2>4. CASE p # o
    BY <1>1, <1>2, <2>1, <2>4, WritingKept
  <2> QED  BY <2>2, <2>3, <2>4
<1>8. Passed'
  <2> SUFFICES ASSUME NEW u \in Caller, Past(u)', NEW p \in Obj, Live(p)', NEW k \in Known(p)'
               PROVE  Kept(p, k)'
    BY DEF Passed
  <2>1. Past(u) /\ Live(p) /\ k \in Known(p) /\ Kept(p, k)
    BY <1>2, <1>3, <1>4 DEF KeptInv, Passed
  <2> QED  BY <1>1, <1>2, <2>1, WritingKept
<1>9. Departed'
  BY <1>1, <1>2, WrittenElsewhere, DepartedKept DEF KeptInv
<1> QED  BY <1>5, <1>6, <1>7, <1>8, <1>9 DEF KeptInv

(* closeLog: with the last lines written, the AOF gives what the table     *)
(* holds.                                                                  *)
LEMMA CloseLogKept ==
  ASSUME TypeInv, Owned, AgreeInv, KeptInv, NEW t \in Caller, CloseLog(t)
  PROVE  KeptInv'
<1>0. PICK o : o = at[t].obj
  OBVIOUS
<1>1. /\ Live(o) /\ at[t].pc = "close" /\ aof' = Written(o)
      /\ UNCHANGED <<unsure, left>>
      /\ obj' = [obj EXCEPT ![o] = [[[@ EXCEPT !.buffer = <<>>] EXCEPT !.open = FALSE]
                                       EXCEPT !.file = NoName]]
      /\ Goto(t, [at[t] EXCEPT !.pc = "compact"])
  BY <1>0 DEF CloseLog, history
<1>2. /\ obj[o] \in DB /\ o \in Obj /\ obj \in [Obj -> DB \cup {Freed}]
      /\ at \in [Caller -> Call] /\ aof \in [Name -> Seq(Line)]
  BY <1>0, <1>1, LiveIsDB DEF TypeInv, TypeOK, Caller
<1>3. PICK c : /\ c.pc = "compact" /\ c.obj = o /\ c.call = at[t].call
               /\ \A u \in Caller : at'[u] = IF u = t THEN c ELSE at[u]
  <2>1. PICK c : c = [at[t] EXCEPT !.pc = "compact"]
    OBVIOUS
  <2>2. c.pc = "compact" /\ c.obj = o /\ c.call = at[t].call
    BY <1>0, <1>1, <2>1, CallCases DEF TypeInv, Call
  <2> QED  BY <1>1, <1>2, <2>1, <2>2 DEF Goto
<1>4. /\ \A p \in Obj : p # o => obj'[p] = obj[p]
      /\ obj'[o].name = obj[o].name /\ obj'[o].store = obj[o].store
      /\ obj'[o].replaying = obj[o].replaying /\ obj'[o].dirty = obj[o].dirty
      /\ ~obj'[o].open /\ obj'[o] # Freed
  <2>1. PICK d : d = [[[obj[o] EXCEPT !.buffer = <<>>] EXCEPT !.open = FALSE]
                        EXCEPT !.file = NoName]
    OBVIOUS
  <2>2. <<>> \in Seq(Line)
    OBVIOUS
  <2>3. /\ d.name = obj[o].name /\ d.store = obj[o].store
        /\ d.replaying = obj[o].replaying /\ d.dirty = obj[o].dirty /\ d.open = FALSE
        /\ d \in DB
    BY <1>2, <2>1, <2>2 DEF DB
  <2> QED  BY <1>1, <1>2, <2>1, <2>3, DBIsLive
<1>5. \A p \in Obj :
        /\ Live(p)' <=> Live(p)
        /\ obj'[p].name = obj[p].name /\ obj'[p].store = obj[p].store
        /\ obj'[p].replaying = obj[p].replaying /\ obj'[p].dirty = obj[p].dirty
        /\ obj'[p].open => obj[p].open
        /\ p # o => (Tracked(p)' <=> Tracked(p))
        /\ Known(p)' = Known(p)
  <2>1. \A p \in Obj : p # o => (Tracked(p)' <=> Tracked(p))
    BY <1>4 DEF Tracked, Opens, Live
  <2> QED  BY <1>1, <1>4, <2>1 DEF Live, Known
<1>6. /\ Busy(t)
      /\ \A u \in Caller : /\ Past(u)' => Past(u)
                           /\ \A p, k : Touching(u, p, k)' => Touching(u, p, k)
  BY <1>1, <1>3 DEF Busy, Past, Touching
<1>7. Doubts'
  BY <1>5, <1>6 DEF KeptInv, Doubts
<1>8. Shut'
  <2> SUFFICES ASSUME NEW u \in Caller, at'[u].pc \in {"compact", "snapshot"},
                      NEW p, p = at'[u].obj, Live(p)'
               PROVE  ~obj'[p].open
    BY DEF Shut
  <2>1. p \in Obj /\ Live(p)
    BY <1>5 DEF Live
  <2>2. CASE u = t
    BY <1>3, <1>4, <2>2
  <2>3. CASE u # t
    BY <1>3, <1>5, <2>1, <2>3 DEF KeptInv, Shut
  <2> QED  BY <2>2, <2>3
<1>9. Unlogged'
  <2> SUFFICES ASSUME NEW p \in Obj, Live(p)', ~Tracked(p)', ~obj'[p].dirty, ~Cleared(p)',
                      NEW k \in Known(p)'
               PROVE  Kept(p, k)'
    BY DEF Unlogged
  <2>1. Live(p) /\ ~obj[p].dirty /\ k \in Known(p) /\ ~Cleared(p)
    BY <1>1, <1>3, <1>5 DEF Cleared
  <2>2. CASE p # o
    <3>1. Kept(p, k)
      BY <1>5, <2>1, <2>2 DEF KeptInv, Unlogged
    <3> QED  BY <1>1, <1>2, <1>5, <2>1, <2>2, <3>1, WritingKept
  <2>3. CASE p = o /\ ~Tracked(o)
    <3>1. Kept(o, k)
      BY <2>1, <2>3 DEF KeptInv, Unlogged
    <3>2. obj[o].file = NoName \/ obj[o].buffer = <<>>
      BY <1>1, <1>2, <2>3 DEF AgreeInv, Files, Tracked, Opens
    <3>3. aof'[obj[o].name] = aof[obj[o].name]
      <4>1. \A s \in Seq(Line) : s \o <<>> = s
        OBVIOUS
      <4>2. obj[o].name \in Name
        BY <1>2, DBIsLive
      <4> QED  BY <1>1, <1>2, <3>2, <4>1, <4>2 DEF Written
    <3> QED  BY <1>5, <2>3, <3>1, <3>3 DEF Kept
  <2>4. CASE p = o /\ Tracked(o)
    <3>1. \A u \in Caller : ~Touching(u, o, k)
      BY <1>6, <2>1, <2>4 DEF KeptInv, Doubts
    <3>2. Recovers(Whole(o), k, obj[o].store[k])
      BY <2>1, <2>4, <3>1 DEF AgreeInv, Agrees, AgreeOn
    <3>3. aof'[obj[o].name] = Whole(o)
      <4>1. obj[o].name \in Name /\ obj[o].name # NoName /\ obj[o].file = obj[o].name
        BY <1>2, <2>4, DBIsLive DEF Tracked
      <4> QED  BY <1>1, <1>2, <4>1 DEF Written, Whole
    <3> QED  BY <1>5, <2>4, <3>2, <3>3 DEF Kept
  <2> QED  BY <2>2, <2>3, <2>4
<1>10. Passed'
  <2> SUFFICES ASSUME NEW u \in Caller, Past(u)', NEW p \in Obj, Live(p)', NEW k \in Known(p)'
               PROVE  Kept(p, k)'
    BY DEF Passed
  <2>1. Past(u) /\ Live(p) /\ k \in Known(p)
    BY <1>5, <1>6
  <2>2. Kept(p, k)
    BY <2>1 DEF KeptInv, Passed
  <2> QED  BY <1>1, <1>2, <1>5, <2>1, <2>2, WritingKept
<1>11. Departed'
  BY <1>1, <1>2, <1>5, WrittenElsewhere, DepartedKept DEF KeptInv
<1> QED  BY <1>7, <1>8, <1>9, <1>10, <1>11 DEF KeptInv

(* compactLog: what a DB that is not dirty holds is in the AOF already,    *)
(* what an empty one does not hold is in doubt from here on, and the rest  *)
(* is in the new AOF.  If another DB has the same name, both hold the same.*)
LEMMA CompactLogKept ==
  ASSUME \A x \in Name : Temp[x] = NoName, Empty \notin Key \cup Value,
         TypeInv, Owned, AgreeInv, KeptInv, NEW t \in Caller, CompactLog(t)
  PROVE  KeptInv'
<1>0. PICK o, x : o = at[t].obj /\ x = obj[o].name
  OBVIOUS
<1>1. /\ Live(o) /\ at[t].pc = "compact" /\ UNCHANGED left
      /\ Goto(t, [at[t] EXCEPT !.pc = "snapshot"])
  BY <1>0 DEF CompactLog
<1>2. /\ obj[o] \in DB /\ o \in Obj /\ obj \in [Obj -> DB \cup {Freed}]
      /\ at \in [Caller -> Call] /\ aof \in [Name -> Seq(Line)]
      /\ unsure \in [Name -> SUBSET Key]
  BY <1>0, <1>1, LiveIsDB DEF TypeInv, TypeOK, Caller
<1>3. x \in Name /\ x # NoName
  BY <1>0, <1>2, DBIsLive
<1>4. PICK c : /\ c.pc = "snapshot" /\ c.obj = o
               /\ \A u \in Caller : at'[u] = IF u = t THEN c ELSE at[u]
  <2>1. PICK c : c = [at[t] EXCEPT !.pc = "snapshot"]
    OBVIOUS
  <2>2. c.pc = "snapshot" /\ c.obj = o
    BY <1>0, <1>1, <2>1, CallCases DEF TypeInv, Call
  <2> QED  BY <1>1, <1>2, <2>1, <2>2 DEF Goto
<1>5. ~obj[o].open /\ Busy(t)
  BY <1>0, <1>1 DEF KeptInv, Shut, Busy
<1>6. \/ ~obj[o].dirty /\ UNCHANGED <<obj, aof, unsure>>
      \/ /\ Stored(obj[o]) = {} /\ UNCHANGED <<obj, aof>>
         /\ unsure' = [unsure EXCEPT ![x] =
                         @ \cup {k \in Key : ~Recovers(aof[x], k, NoValue)}]
      \/ /\ \A p \in Obj : obj'[p] = Relinked(obj[p], NoName, x)
         /\ \E dump \in Dumps(obj[o]) :
              aof' = [y \in Name |-> IF y = x THEN dump ELSE aof[y]]
         /\ UNCHANGED unsure
  <2>1. CASE ~obj[o].dirty
    BY <1>0, <2>1 DEF CompactLog
  <2>2. CASE obj[o].dirty /\ Stored(obj[o]) = {}
    BY <1>0, <2>2 DEF CompactLog
  <2>3. CASE obj[o].dirty /\ Stored(obj[o]) # {}
    <3>1. PICK tmp \in TempNames(obj[o]), dump \in Dumps(obj[o]) :
             /\ aof' = [y \in Name |-> IF y = x THEN dump
                                       ELSE IF y = tmp THEN <<>> ELSE aof[y]]
             /\ obj' = [p \in Obj |-> Relinked(obj[p], tmp, x)]
             /\ UNCHANGED unsure
      <4>1. /\ \E tmp \in TempNames(obj[at[t].obj]), dump \in Dumps(obj[at[t].obj]) :
                 /\ aof' = [y \in Name |-> IF y = obj[at[t].obj].name THEN dump
                                           ELSE IF y = tmp THEN <<>> ELSE aof[y]]
                 /\ obj' = [p \in Obj |-> Relinked(obj[p], tmp, obj[at[t].obj].name)]
            /\ UNCHANGED unsure
        BY <1>0, <2>3 DEF CompactLog
      <4> QED  BY <1>0, <4>1
    <3>2. tmp = NoName
      BY <1>0, <1>3, <3>1 DEF TempNames
    <3>3. aof' = [y \in Name |-> IF y = x THEN dump ELSE aof[y]]
      BY <3>1, <3>2, NamesAssumption
    <3>4. \A p \in Obj : obj'[p] = Relinked(obj[p], NoName, x)
      BY <3>1, <3>2
    <3> QED  BY <3>1, <3>3, <3>4
  <2> QED  BY <2>1, <2>2, <2>3
<1>7. ASSUME NEW p \in Obj
      PROVE  /\ Live(p)' <=> Live(p)
             /\ obj'[p].name = obj[p].name
             /\ Live(p) => /\ obj'[p].store = obj[p].store /\ obj'[p].open = obj[p].open
                           /\ obj'[p].replaying = obj[p].replaying
                           /\ obj[p].name \in Name
  <2>1. CASE UNCHANGED obj
    BY <2>1, LiveIsDB, DBIsLive DEF Live, TypeInv
  <2>2. CASE ~Live(p)
    BY <1>6, <2>2 DEF Live, Relinked
  <2>3. CASE Live(p) /\ obj'[p] = Relinked(obj[p], NoName, x)
    <3>1. obj[p] \in DB
      BY <2>3, LiveIsDB DEF TypeInv
    <3>2. obj'[p] = [obj[p] EXCEPT !.file = IF @ = x THEN NoName ELSE @]
      BY <1>3, <2>3, <3>1, DBIsLive DEF Relinked
    <3>3. /\ obj'[p].name = obj[p].name /\ obj'[p].store = obj[p].store
          /\ obj'[p].open = obj[p].open /\ obj'[p].replaying = obj[p].replaying
          /\ obj'[p] \in DB
      BY <3>1, <3>2 DEF DB
    <3> QED  BY <2>3, <3>1, <3>3, DBIsLive DEF Live
  <2> QED  BY <1>6, <2>1, <2>2, <2>3
<1>8. /\ \A y \in Name : unsure[y] \subseteq unsure'[y] /\ (y # x => unsure'[y] = unsure[y])
      /\ \A y \in Name : y # x => aof'[y] = aof[y]
  BY <1>2, <1>3, <1>6
<1>9. \A p \in Obj : \A k : Live(p) /\ k \in Known(p)' => k \in Known(p)
  BY <1>7, <1>8 DEF Known
<1>10. Doubts'
  <2>1. \A u \in Caller : \A p, k : Touching(u, p, k)' => Touching(u, p, k)
    BY <1>4 DEF Touching
  <2> QED  BY <1>5, <1>7, <1>9, <2>1 DEF KeptInv, Doubts
<1>11. Shut'
  <2> SUFFICES ASSUME NEW u \in Caller, at'[u].pc \in {"compact", "snapshot"},
                      NEW p, p = at'[u].obj, Live(p)'
               PROVE  ~obj'[p].open
    BY DEF Shut
  <2>1. p \in Obj /\ Live(p)
    BY <1>7 DEF Live
  <2>2. CASE u = t
    BY <1>4, <1>5, <1>7, <2>1, <2>2
  <2>3. CASE u # t
    BY <1>4, <1>7, <2>1, <2>3 DEF KeptInv, Shut
  <2> QED  BY <2>2, <2>3
<1>12. ASSUME NEW p \in Obj, Live(p), NEW k \in Known(p)' PROVE Kept(p, k)'
  <2>0. k \in Key /\ k \in Known(p)
    BY <1>9, <1>12 DEF Known
  <2>1. PICK v : v = obj[p].store[k]
    OBVIOUS
  <2>2. Recovers(aof'[obj[p].name], k, v)
    <3>1. CASE \E u \in Caller : Past(u)
      <4>1. Recovers(aof[obj[p].name], k, v)
        BY <1>12, <2>0, <2>1, <3>1 DEF KeptInv, Passed, Kept
      <4>2. CASE aof'[obj[p].name] = aof[obj[p].name]
        BY <4>1, <4>2
      <4>3. CASE aof'[obj[p].name] # aof[obj[p].name]
        <5>1. obj[p].name = x
          BY <1>7, <1>8, <1>12, <4>3
        <5>2. PICK dump \in Dumps(obj[o]) : aof'[x] = dump
          BY <1>3, <1>6, <4>3, <5>1
        <5>3. k \in Known(o)
          BY <1>0, <2>0, <5>1 DEF Known
        <5>4. Recovers(aof[x], k, obj[o].store[k])
          BY <1>0, <1>1, <1>2, <3>1, <5>3 DEF KeptInv, Passed, Kept
        <5>5. obj[o].store[k] = v
          BY <1>2, <1>3, <4>1, <5>1, <5>4, LeavesOneValue DEF Recovers
        <5>6. Recovers(dump, k, obj[o].store[k])
          BY <1>2, <2>0, DumpRecovers
        <5> QED  BY <5>1, <5>2, <5>5, <5>6
      <4> QED  BY <4>2, <4>3
    <3>2. CASE \A u \in Caller : ~Past(u)
      <4>1. p = o
        BY <1>1, <1>2, <1>12, <3>2, OnlyOne
      <4>2. CASE ~obj[o].dirty /\ UNCHANGED <<obj, aof, unsure>>
        <5>0. ~Cleared(o)
          BY <1>1, <1>5, <2>0, <4>1 DEF AgreeInv, Emptied, Cleared
        <5>1. Kept(o, k)
          BY <1>1, <1>2, <1>5, <2>0, <4>1, <4>2, <5>0 DEF KeptInv, Unlogged, Tracked, Opens
        <5> QED  BY <2>1, <4>1, <4>2, <5>1 DEF Kept
      <4>3. CASE /\ Stored(obj[o]) = {} /\ UNCHANGED aof
                 /\ unsure' = [unsure EXCEPT ![x] =
                                 @ \cup {j \in Key : ~Recovers(aof[x], j, NoValue)}]
        <5>1. k \notin unsure'[x]
          BY <1>0, <1>7, <1>12, <4>1 DEF Known
        <5>2. Recovers(aof[x], k, NoValue)
          BY <1>2, <1>3, <2>0, <4>3, <5>1
        <5>3. v = NoValue
          BY <2>0, <2>1, <4>1, <4>3 DEF Stored
        <5> QED  BY <1>0, <4>1, <4>3, <5>2, <5>3
      <4>4. ASSUME NEW dump \in Dumps(obj[o]),
                   aof' = [y \in Name |-> IF y = x THEN dump ELSE aof[y]]
            PROVE  Recovers(aof'[x], k, v)
        <5>1. Recovers(dump, k, obj[o].store[k])
          BY <1>2, <2>0, DumpRecovers
        <5> QED  BY <1>3, <2>1, <4>1, <4>4, <5>1
      <4> QED  BY <1>0, <1>6, <4>1, <4>2, <4>3, <4>4
    <3> QED  BY <3>1, <3>2
  <2> QED  BY <1>7, <1>12, <2>1, <2>2 DEF Kept
<1>13. Unlogged' /\ Passed'
  BY <1>7, <1>12 DEF Unlogged, Passed
<1>14. Departed'
  <2>1. \A y \in Name : left[y] # {} => y # x
    BY <1>0, <1>2 DEF KeptInv, Departed
  <2> QED  BY <1>1, <1>7, <1>8, <2>1, DepartedKept DEF KeptInv
<1> QED  BY <1>10, <1>11, <1>13, <1>14 DEF KeptInv

(* A step of a command: it changes a key in doubt, or the table of a DB    *)
(* that is dirty or has its log, or nothing.                               *)
LEMMA StepKept ==
  ASSUME TypeInv, KeptInv, NEW t \in Caller, Step(t)
  PROVE  KeptInv'
<1>0. PICK o, s, m : o = at[t].obj /\ s = at[t].todo /\ m = Head(s)
  OBVIOUS
<1>1. /\ o \in Obj /\ Live(o) /\ obj[o] \in DB /\ at[t].pc = "run"
      /\ s \in Seq(Micro) /\ s # <<>> /\ m \in Micro /\ m.line \in Line
      /\ at \in [Caller -> Call] /\ obj \in [Obj -> DB \cup {Freed}]
  <2>1. /\ o \in Obj /\ Live(o) /\ obj[o] \in DB /\ at[t].pc = "run"
        /\ s \in Seq(Micro) /\ s # <<>>
    BY <1>0, CallCases, LiveIsDB DEF Step, TypeInv, ObjectInv, Holds
  <2>2. m \in Micro
    BY <1>0, <2>1
  <2> QED  BY <2>1, <2>2 DEF Micro, TypeInv, TypeOK, Caller
<1>2. Touching(t, o, m.line.key)
  <2>1. 1 \in DOMAIN s /\ s[1] = m
    BY <1>0, <1>1
  <2> QED  BY <1>0, <1>1, <2>1 DEF Touching, Mentions
<1>3. /\ UNCHANGED <<aof, history>>
      /\ \A p \in Obj : p # o => obj'[p] = obj[p]
      /\ obj'[o] = IF m.do = "apply" THEN Applied(obj[o], m.line) ELSE Appended(obj[o], m.line)
  BY <1>0, <1>1 DEF Step
<1>4. PICK c : /\ \A u \in Caller : at'[u] = IF u = t THEN c ELSE at[u]
               /\ c.pc \in {"idle", "run"}
               /\ c.pc = "run" => c.obj = o /\ c.todo = Tail(s)
  <2>1. CASE Len(s) = 1
    <3>1. at' = [at EXCEPT ![t] = Idle]
      BY <1>0, <2>1 DEF Step, Goto
    <3>2. Idle.pc = "idle" /\ \A u \in Caller : at'[u] = IF u = t THEN Idle ELSE at[u]
      BY <1>1, <3>1 DEF Idle
    <3> QED  BY <3>2
  <2>2. CASE Len(s) # 1
    <3>1. PICK c : c = [at[t] EXCEPT !.todo = Tail(@)] /\ at' = [at EXCEPT ![t] = c]
      BY <1>0, <2>2 DEF Step, Goto
    <3>2. c.pc = "run" /\ c.obj = o /\ c.todo = Tail(s)
      BY <1>0, <1>1, <3>1, CallCases DEF TypeInv, Call
    <3>3. \A u \in Caller : at'[u] = IF u = t THEN c ELSE at[u]
      BY <1>1, <3>1
    <3> QED  BY <3>2, <3>3
  <2> QED  BY <2>1, <2>2
<1>5. /\ obj'[o].name = obj[o].name /\ obj'[o].open = obj[o].open /\ obj'[o].file = obj[o].file
      /\ obj'[o].replaying = obj[o].replaying /\ (obj[o].dirty => obj'[o].dirty)
      /\ \A k \in Key : \/ obj'[o].store[k] = obj[o].store[k]
                        \/ k = m.line.key /\ (obj[o].replaying \/ obj'[o].dirty)
      /\ obj'[o] # Freed
  <2>1. Applied(obj[o], m.line) \in DB /\ Appended(obj[o], m.line) \in DB
    BY <1>1, AppliedType, AppendedType
  <2>2. obj[o].store \in Content /\ <<>> \in Seq(Line) /\ obj[o].buffer \in Seq(Line)
    BY <1>1 DEF DB
  <2>3. CASE m.do = "apply"
    <3>1. PICK d : d = Applied(obj[o], m.line) /\ obj'[o] = d
      BY <1>3, <2>3
    <3>2. /\ d.name = obj[o].name /\ d.open = obj[o].open /\ d.file = obj[o].file
          /\ d.replaying = obj[o].replaying
          /\ d.store = [obj[o].store EXCEPT ![m.line.key] = m.line.val]
      BY <1>1, <3>1 DEF Applied, DB
    <3>3. d.dirty = (obj[o].dirty \/ (~obj[o].replaying /\
                      (m.line.val # NoValue \/ obj[o].store[m.line.key] # NoValue)))
      BY <1>1, <3>1 DEF Applied, DB
    <3>4. ASSUME NEW k \in Key
          PROVE  \/ d.store[k] = obj[o].store[k]
                 \/ k = m.line.key /\ (obj[o].replaying \/ d.dirty)
      <4>1. d.store[k] = IF k = m.line.key THEN m.line.val ELSE obj[o].store[k]
        BY <2>2, <3>2 DEF Content
      <4> QED  BY <3>3, <4>1
    <3> QED  BY <2>1, <3>1, <3>2, <3>3, <3>4, DBIsLive
  <2>4. CASE m.do # "apply"
    <3>1. PICK d : d = Appended(obj[o], m.line) /\ obj'[o] = d
      BY <1>3, <2>4
    <3>2. /\ d.name = obj[o].name /\ d.open = obj[o].open /\ d.file = obj[o].file
          /\ d.replaying = obj[o].replaying /\ d.store = obj[o].store
          /\ d.dirty = obj[o].dirty
      BY <1>1, <3>1 DEF Appended, DB
    <3> QED  BY <2>1, <3>1, <3>2, DBIsLive
  <2> QED  BY <2>3, <2>4
<1>6. \A p \in Obj :
        /\ Live(p)' <=> Live(p)
        /\ obj'[p].name = obj[p].name /\ obj'[p].open = obj[p].open
        /\ obj'[p].replaying = obj[p].replaying
        /\ obj[p].dirty => obj'[p].dirty
        /\ Known(p)' = Known(p)
        /\ Live(p) => (Tracked(p)' <=> Tracked(p))
  BY <1>1, <1>3, <1>5 DEF Live, Known, Tracked, Opens, history
<1>7. \A u \in Caller :
        /\ (Busy(u)' <=> Busy(u)) /\ (Past(u)' <=> Past(u))
        /\ \A p, k : Touching(u, p, k)' => Touching(u, p, k)
        /\ at'[u].pc \in {"compact", "snapshot"} => at'[u] = at[u]
  <2>1. \A k : Mentions(Tail(s), k) => Mentions(s, k)
    BY <1>1, MentionsTail
  <2> QED  BY <1>0, <1>1, <1>4, <2>1 DEF Busy, Past, Touching
<1>8. ASSUME NEW p \in Obj, Live(p), NEW k \in Known(p), Kept(p, k),
             ~obj'[p].dirty \/ \E u \in Caller : Busy(u)
      PROVE  Kept(p, k)'
  <2>1. k \in Key
    BY DEF Known
  <2>2. obj'[p].store[k] = obj[p].store[k]
    <3>1. CASE p # o
      BY <1>3, <3>1
    <3>2. CASE p = o /\ k = m.line.key
      <4>1. ~obj[o].replaying /\ \A u \in Caller : ~Busy(u)
        BY <1>2, <1>8, <3>2 DEF KeptInv, Doubts
      <4> QED  BY <1>5, <1>8, <2>1, <3>2, <4>1
    <3>3. CASE p = o /\ k # m.line.key
      BY <1>5, <2>1, <3>3
    <3> QED  BY <3>1, <3>2, <3>3
  <2> QED  BY <1>3, <1>6, <1>8, <2>2 DEF Kept
<1>9. Doubts'
  BY <1>6, <1>7 DEF KeptInv, Doubts
<1>10. Shut'
  <2> SUFFICES ASSUME NEW u \in Caller, at'[u].pc \in {"compact", "snapshot"},
                      NEW p, p = at'[u].obj, Live(p)'
               PROVE  ~obj'[p].open
    BY DEF Shut
  <2>1. p \in Obj /\ Live(p) /\ at'[u] = at[u]
    BY <1>6, <1>7 DEF Live
  <2> QED  BY <1>6, <2>1 DEF KeptInv, Shut
<1>11. Unlogged'
  <2>1. \A p : Cleared(p) => Cleared(p)'
    BY <1>1, <1>4 DEF Cleared
  <2> QED  BY <1>6, <1>8, <2>1 DEF KeptInv, Unlogged
<1>12. Passed'
  BY <1>6, <1>7, <1>8, PastIsLeaving DEF KeptInv, Passed
<1>13. Departed'
  BY <1>3, <1>6, DepartedKept DEF KeptInv, history
<1> QED  BY <1>9, <1>10, <1>11, <1>12, <1>13 DEF KeptInv

(* A command begins.  It settles doubts only when no call is busy, and     *)
(* only about a DB that has its log.                                       *)
LEMMA RunKept ==
  ASSUME TypeInv, Owned, KeptInv, NEW t \in Thread, NEW ls, NEW todo, Run(t, ls, todo),
         \A k : Mentions(todo, k) => \E i \in DOMAIN ls : ls[i].key = k
  PROVE  KeptInv'
<1> DEFINE touched == {ls[i].key : i \in DOMAIN ls}
           x       == obj[db].name
           others  == DOMAIN at \ {t}
           clash   == obj[db].replaying \/ \E u \in others : Busy(u)
           call    == [pc |-> "run", obj |-> db, todo |-> todo]
           logged  == obj[db].open /\ obj[db].file = obj[db].name
<1>1. /\ db # NoObj /\ db \in Obj /\ at[t].pc = "idle" /\ obj[db] \in DB /\ Live(db)
      /\ at' = [at EXCEPT ![t] = call] /\ UNCHANGED <<db, obj, aof, left>>
      /\ at \in [Caller -> Call] /\ t \in Caller /\ unsure \in [Name -> SUBSET Key]
  BY LiveIsDB DEF Run, Ready, Goto, TypeInv, TypeOK, ObjectInv, Caller
<1>2. x \in Name
  BY <1>1, DBIsLive
<1>3. /\ call.pc = "run" /\ call.obj = db /\ call.todo = todo
      /\ \A u \in Caller : at'[u] = IF u = t THEN call ELSE at[u]
      /\ others = Caller \ {t}
  BY <1>1
<1>4. /\ unsure'[x] = (IF logged THEN unsure[x] \ touched ELSE unsure[x]) \cup
                      (IF clash THEN touched ELSE touched \cap Mentioned(others))
      /\ \A y \in Name : y # x => unsure'[y] = unsure[y]
  BY <1>1, <1>2 DEF Run
<1>5. \A k : Mentions(todo, k) => k \in touched
  OBVIOUS
<1>6. logged <=> Tracked(db)
  BY <1>1 DEF Tracked, Opens
<1> HIDE DEF touched, call, logged
<1>7. \A u \in Caller :
        /\ \A p, k : Touching(u, p, k)' =>
                       Touching(u, p, k) \/ (p = db /\ k \in touched)
        /\ (Busy(u)' <=> Busy(u)) /\ (Past(u)' <=> Past(u))
        /\ at'[u].pc \in {"compact", "snapshot"} => at'[u] = at[u]
  BY <1>1, <1>3, <1>5 DEF Touching, Busy, Past
<1>8. (\E u \in Caller : Busy(u)) => clash
  BY <1>1, <1>3 DEF Busy
<1> HIDE DEF clash
<1>9. clash \/ ~logged => \A y \in Name : unsure[y] \subseteq unsure'[y]
  BY <1>2, <1>4
<1>10. clash => touched \subseteq unsure'[x]
  BY <1>4
<1>11. ASSUME NEW p \in Obj, Live(p) PROVE p = db \/ clash
  BY <1>8, <1>11 DEF Owned, Owns
<1>12. ASSUME NEW p \in Obj, Live(p)
       PROVE  /\ obj[p].name \in Name
              /\ clash \/ ~logged => \A k \in Known(p)' : k \in Known(p)
  <2>1. obj[p].name \in Name
    BY <1>12, LiveIsDB, DBIsLive DEF TypeInv
  <2> QED  BY <1>1, <1>9, <2>1 DEF Known, Kept
<1>13. Doubts'
  <2> SUFFICES ASSUME NEW p \in Obj, Live(p)', NEW k \in Known(p)', NEW u \in Caller,
                      Touching(u, p, k)'
               PROVE  ~obj'[p].replaying /\ \A v \in Caller : ~Busy(v)'
    BY DEF Doubts
  <2>1. Live(p)
    BY <1>1 DEF Live
  <2>2. CASE clash
    <3>1. ~(p = db /\ k \in touched)
      BY <1>1, <1>10, <2>2 DEF Known
    <3>2. Touching(u, p, k) /\ k \in Known(p)
      BY <1>7, <1>12, <2>1, <2>2, <3>1
    <3> QED  BY <1>1, <1>7, <2>1, <3>2 DEF KeptInv, Doubts
  <2>3. CASE ~clash
    <3>1. p = db
      BY <1>11, <2>1, <2>3
    <3>2. ~obj[db].replaying
      BY <2>3 DEF clash
    <3> QED  BY <1>1, <1>7, <1>8, <2>3, <3>1, <3>2
  <2> QED  BY <2>2, <2>3
<1>14. Shut'
  BY <1>1, <1>7 DEF KeptInv, Shut, Live
<1>15. Unlogged'
  <2> SUFFICES ASSUME NEW p \in Obj, Live(p)', ~Tracked(p)', ~obj'[p].dirty, ~Cleared(p)',
                      NEW k \in Known(p)'
               PROVE  Kept(p, k)'
    BY DEF Unlogged
  <2>1. Live(p) /\ ~Tracked(p) /\ ~obj[p].dirty /\ ~Cleared(p)
    BY <1>1, <1>3 DEF Live, Tracked, Opens, Cleared
  <2>2. clash \/ ~logged
    BY <1>6, <1>11, <2>1
  <2>3. Kept(p, k)
    BY <1>12, <2>1, <2>2 DEF KeptInv, Unlogged
  <2> QED  BY <1>1, <2>3 DEF Kept
<1>16. Passed'
  <2> SUFFICES ASSUME NEW u \in Caller, Past(u)', NEW p \in Obj, Live(p)', NEW k \in Known(p)'
               PROVE  Kept(p, k)'
    BY DEF Passed
  <2>1. Past(u) /\ Live(p) /\ clash
    BY <1>1, <1>7, <1>8, PastIsLeaving DEF Live
  <2>2. Kept(p, k)
    BY <1>12, <2>1 DEF KeptInv, Passed
  <2> QED  BY <1>1, <2>2 DEF Kept
<1>17. Departed'
  <2>1. left[x] = {}
    BY <1>1, <1>2 DEF KeptInv, Departed
  <2>2. \A y \in Name : left[y] # {} => unsure'[y] = unsure[y]
    BY <1>4, <2>1
  <2> QED  BY <1>1, <2>2, DepartedKept DEF KeptInv
<1> QED  BY <1>13, <1>14, <1>15, <1>16, <1>17 DEF KeptInv

(* clearData empties the table: when a call is busy every key of that      *)
(* keyspace is in doubt.                                                   *)
LEMMA ClearKept ==
  ASSUME TypeInv, Owned, KeptInv, NEW t \in Thread, Clear(t)
  PROVE  KeptInv'
<1> DEFINE x    == obj[db].name
           call == [pc |-> "clear", obj |-> db, call |-> "clear", to |-> NoName]
<1>1. /\ db # NoObj /\ db \in Obj /\ obj[db] \in DB /\ Live(db) /\ UNCHANGED <<db, aof, left>>
      /\ at[t].pc = "idle" /\ at' = [at EXCEPT ![t] = call] /\ t \in Caller
      /\ at \in [Caller -> Call] /\ obj \in [Obj -> DB \cup {Freed}]
      /\ unsure \in [Name -> SUBSET Key]
      /\ obj' = [obj EXCEPT ![db] = [@ EXCEPT !.store = NoKeys]]
  BY LiveIsDB DEF Clear, Ready, Goto, TypeInv, TypeOK, ObjectInv, Caller
<1>2. x \in Name
  BY <1>1, DBIsLive
<1>3. /\ (\E u \in Caller : Busy(u)) => unsure'[x] = Key
      /\ (\A u \in Caller : ~Busy(u)) => Mentioned(Caller) \subseteq unsure'[x]
      /\ \A y \in Name : y # x => unsure'[y] = unsure[y]
  BY <1>1, <1>2 DEF Clear
<1>4. /\ \A p \in Obj : p # db => obj'[p] = obj[p]
      /\ obj'[db].name = x /\ obj'[db].open = obj[db].open /\ obj'[db] # Freed
  <2>1. PICK d : d = [obj[db] EXCEPT !.store = NoKeys]
    OBVIOUS
  <2>2. d \in DB /\ d.name = x /\ d.open = obj[db].open
    BY <1>1, <2>1 DEF DB, Content, NoKeys
  <2> QED  BY <1>1, <2>1, <2>2, DBIsLive
<1>5. /\ call.pc = "clear" /\ call.obj = db /\ call.call = "clear"
      /\ \A u \in Caller : at'[u] = IF u = t THEN call ELSE at[u]
  BY <1>1
<1> HIDE DEF call
<1>6. /\ \A u \in Caller : /\ \A p, k : Touching(u, p, k)' <=> Touching(u, p, k)
                           /\ Past(u)' => Past(u)
                           /\ at'[u].pc \in {"compact", "snapshot"} => at'[u] = at[u]
      /\ \A p : Cleared(p) => Cleared(p)'
      /\ \A p : p = db => Cleared(p)'
  BY <1>1, <1>5 DEF Touching, Past, Busy, Cleared
<1>7. ASSUME NEW p \in Obj, Live(p)'
      PROVE  /\ Live(p) /\ obj[p].name \in Name /\ obj'[p].name = obj[p].name
             /\ p = db \/ \E u \in Caller : Busy(u)
  <2>1. Live(p)
    BY <1>1, <1>4, <1>7 DEF Live
  <2>2. obj[p].name \in Name
    BY <2>1, LiveIsDB, DBIsLive DEF TypeInv
  <2> QED  BY <1>4, <2>1, <2>2 DEF Owned, Owns
<1>8. ASSUME NEW p \in Obj, Live(p)', obj[p].name # x
      PROVE  /\ p # db /\ obj'[p] = obj[p] /\ (Tracked(p)' <=> Tracked(p))
             /\ \A k \in Known(p)' : k \in Known(p) /\ (Kept(p, k)' <=> Kept(p, k))
  <2>1. obj'[p] = obj[p] /\ Live(p)
    BY <1>4, <1>7, <1>8
  <2>2. unsure'[obj[p].name] = unsure[obj[p].name]
    BY <1>3, <1>7, <1>8
  <2> QED  BY <1>1, <1>8, <2>1, <2>2 DEF Tracked, Opens, Live, Known, Kept
<1>9. ASSUME NEW p \in Obj, Live(p)', obj[p].name = x, NEW k \in Known(p)'
      PROVE  /\ p = db /\ (\A u \in Caller : ~Busy(u))
             /\ \A u \in Caller : ~Touching(u, p, k)
  <2>1. k \in Key /\ k \notin unsure'[x]
    BY <1>7, <1>9 DEF Known
  <2>2. (\A u \in Caller : ~Busy(u)) /\ k \notin Mentioned(Caller)
    BY <1>3, <2>1
  <2>3. p = db
    BY <1>7, <1>9, <2>2
  <2> QED  BY <2>1, <2>2, <2>3, MentionedIs DEF Touching
<1>10. Doubts'
  <2> SUFFICES ASSUME NEW p \in Obj, Live(p)', NEW k \in Known(p)', NEW u \in Caller,
                      Touching(u, p, k)'
               PROVE  FALSE
    BY DEF Doubts
  <2>1. Touching(u, p, k)
    BY <1>6
  <2>2. obj[p].name # x
    BY <1>9, <2>1
  <2> QED  BY <1>7, <1>8, <2>1, <2>2 DEF KeptInv, Doubts
<1>11. Shut'
  <2> SUFFICES ASSUME NEW u \in Caller, at'[u].pc \in {"compact", "snapshot"},
                      NEW p, p = at'[u].obj, Live(p)'
               PROVE  ~obj'[p].open
    BY DEF Shut
  <2>1. p \in Obj /\ Live(p) /\ at'[u] = at[u]
    BY <1>6, <1>7 DEF Live
  <2> QED  BY <1>4, <2>1 DEF KeptInv, Shut
<1>12. Unlogged'
  <2> SUFFICES ASSUME NEW p \in Obj, Live(p)', ~Tracked(p)', ~obj'[p].dirty, ~Cleared(p)',
                      NEW k \in Known(p)'
               PROVE  Kept(p, k)'
    BY DEF Unlogged
  <2>1. obj[p].name # x /\ Live(p) /\ ~Cleared(p)
    BY <1>6, <1>7, <1>9
  <2> QED  BY <1>8, <2>1 DEF KeptInv, Unlogged
<1>13. Passed'
  <2> SUFFICES ASSUME NEW u \in Caller, Past(u)', NEW p \in Obj, Live(p)', NEW k \in Known(p)'
               PROVE  Kept(p, k)'
    BY DEF Passed
  <2>1. Past(u) /\ Live(p)
    BY <1>6, <1>7
  <2>2. obj[p].name # x
    BY <1>9, <2>1, PastIsLeaving
  <2> QED  BY <1>8, <2>1, <2>2 DEF KeptInv, Passed
<1>14. Departed'
  <2>1. \A y \in Name : left[y] # {} => y # x
    BY <1>1 DEF KeptInv, Departed
  <2> QED  BY <1>1, <1>3, <1>4, <2>1, DepartedKept DEF KeptInv
<1> QED  BY <1>10, <1>11, <1>12, <1>13, <1>14 DEF KeptInv

(* clearData empties the AOF: now it gives what the table holds.           *)
LEMMA ClearFilesKept ==
  ASSUME TypeInv, Owned, AgreeInv, KeptInv, NEW t \in Caller, ClearFiles(t)
  PROVE  KeptInv'
<1>0. PICK o, x : o = at[t].obj /\ x = obj[o].name
  OBVIOUS
<1>1. /\ at[t].pc = "clear" /\ Live(o) /\ UNCHANGED <<db, obj, left>>
      /\ at' = [at EXCEPT ![t] = Idle]
      /\ aof' = [aof EXCEPT ![x] = <<>>]
      /\ unsure' = [unsure EXCEPT ![x] = @ \cup Doubted(obj[o])]
      /\ at \in [Caller -> Call] /\ aof \in [Name -> Seq(Line)]
      /\ unsure \in [Name -> SUBSET Key]
  BY <1>0 DEF ClearFiles, Goto, TypeInv, TypeOK, Caller
<1>2. o \in Obj /\ x \in Name /\ Busy(t)
  BY <1>0, <1>1, LiveIsDB, DBIsLive DEF TypeInv, Busy
<1>3. Idle.pc = "idle" /\ \A u \in Caller : at'[u] = IF u = t THEN Idle ELSE at[u]
  BY <1>1 DEF Idle
<1>4. /\ \A u \in Caller : /\ \A p, k : Touching(u, p, k)' => Touching(u, p, k)
                           /\ Busy(u)' => Busy(u)
                           /\ Past(u)' => Past(u) /\ u # t
                           /\ at'[u].pc \in {"compact", "snapshot"} => at'[u] = at[u]
      /\ \A p : Cleared(p) => Cleared(p)' \/ p = o
  BY <1>0, <1>1, <1>3 DEF Touching, Busy, Past, Cleared
<1>5. ASSUME NEW p \in Obj, Live(p)'
      PROVE  /\ Live(p) /\ obj[p].name \in Name /\ (Tracked(p)' <=> Tracked(p))
             /\ \A k \in Known(p)' : /\ k \in Known(p)
                                     /\ obj[p].name # x => (Kept(p, k)' <=> Kept(p, k))
  <2>1. Live(p)
    BY <1>1, <1>5 DEF Live
  <2>2. obj[p].name \in Name
    BY <2>1, LiveIsDB, DBIsLive DEF TypeInv
  <2> QED  BY <1>1, <2>1, <2>2 DEF Tracked, Opens, Live, Known, Kept
<1>6. ASSUME NEW p \in Obj, Live(p)', obj[p].name = x, NEW k \in Known(p)'
      PROVE  Kept(p, k)' /\ \A u \in Caller : Busy(u) => u = t
  <2>1. Live(p) /\ k \in Known(p)
    BY <1>5, <1>6
  <2>2. /\ p = o /\ obj[o].store[k] = NoValue
        /\ \A u \in Caller : Busy(u) => u = t
    BY <1>0, <1>1, <1>6, <2>1, ClearedIs DEF AgreeInv
  <2>3. aof'[x] = <<>>
    BY <1>1, <1>2
  <2>4. Recovers(<<>>, k, NoValue)
    BY LeavesEmpty DEF Recovers
  <2> QED  BY <1>0, <1>1, <2>2, <2>3, <2>4 DEF Kept
<1>7. Doubts'
  BY <1>1, <1>4, <1>5 DEF KeptInv, Doubts
<1>8. Shut'
  BY <1>1, <1>4 DEF KeptInv, Shut, Live
<1>9. Unlogged'
  <2> SUFFICES ASSUME NEW p \in Obj, Live(p)', ~Tracked(p)', ~obj'[p].dirty, ~Cleared(p)',
                      NEW k \in Known(p)', obj[p].name # x
               PROVE  Kept(p, k)'
    BY <1>6 DEF Unlogged
  <2>1. ~Cleared(p)
    BY <1>0, <1>4
  <2> QED  BY <1>1, <1>5, <2>1 DEF KeptInv, Unlogged
<1>10. Passed'
  <2> SUFFICES ASSUME NEW u \in Caller, Past(u)', NEW p \in Obj, Live(p)', NEW k \in Known(p)',
                      obj[p].name # x
               PROVE  Kept(p, k)'
    BY <1>6 DEF Passed
  <2> QED  BY <1>4, <1>5 DEF KeptInv, Passed
<1>11. Departed'
  <2>1. \A y \in Name : left[y] # {} => y # x
    BY <1>0, <1>2 DEF KeptInv, Departed
  <2> QED  BY <1>1, <2>1, DepartedKept DEF KeptInv
<1> QED  BY <1>7, <1>8, <1>9, <1>10, <1>11 DEF KeptInv

(* put, del, mput and mdel begin.                                          *)
LEMMA CommandsKept ==
  ASSUME TypeInv, Owned, KeptInv, NEW t \in Thread,
         \/ \E l \in Line : Single(t, l)
         \/ \E l, m \in Line : Multi(t, <<l, m>>)
  PROVE  KeptInv'
<1>1. ASSUME NEW l \in Line, Single(t, l) PROVE KeptInv'
  <2> DEFINE r == obj[db].replaying
  <2>1. PICK ls : /\ ls = <<l>> /\ DOMAIN ls = {1} /\ ls[1] = l
                  /\ Run(t, ls, SingleTodo(l, r))
    <3>1. DOMAIN <<l>> = {1} /\ <<l>>[1] = l
      OBVIOUS
    <3> QED  BY <1>1, <3>1, Zenon DEF Single, SingleTodo
  <2>2. \A k : Mentions(SingleTodo(l, r), k) => \E i \in DOMAIN ls : ls[i].key = k
    <3>1. \A z, k : Mentions(SingleTodo(l, z), k) => k = l.key
      BY CommandsAgree
    <3> QED  BY <2>1, <3>1
  <2> QED  BY <2>1, <2>2, RunKept
<1>2. ASSUME NEW l \in Line, NEW m \in Line, Multi(t, <<l, m>>) PROVE KeptInv'
  <2>1. PICK ls : /\ ls = <<l, m>> /\ DOMAIN ls = {1, 2} /\ ls[1] = l /\ ls[2] = m
                  /\ Run(t, ls, MultiTodo(<<l, m>>))
    <3>1. DOMAIN <<l, m>> = {1, 2} /\ <<l, m>>[1] = l /\ <<l, m>>[2] = m
      OBVIOUS
    <3> QED  BY <1>2, <3>1, Zenon DEF Multi, MultiTodo
  <2>2. \A k : Mentions(MultiTodo(<<l, m>>), k) => \E i \in DOMAIN ls : ls[i].key = k
    <3>1. \A k : Mentions(MultiTodo(<<l, m>>), k) <=> k \in {l.key, m.key}
      BY CommandsAgree
    <3> QED  BY <2>1, <3>1
  <2> QED  BY <2>1, <2>2, RunKept
<1> QED  BY <1>1, <1>2

(* Every step keeps it, under the same conditions as AgreeStep.            *)
LEMMA KeptStep ==
  ASSUME \A x \in Name : Temp[x] = NoName, Empty \notin Key \cup Value
  PROVE  TypeInv /\ Owned /\ AgreeInv /\ KeptInv /\ [Next]_vars => KeptInv'
<1> SUFFICES ASSUME TypeInv, Owned, AgreeInv, KeptInv, [Next]_vars PROVE KeptInv'
  OBVIOUS
<1>1. ASSUME NEW x \in Name, Start(x) PROVE KeptInv'
  BY <1>1, StartKept
<1>2. ASSUME NEW t \in Thread, Command(t) PROVE KeptInv'
  <2>1. /\ t \in Caller
        /\ \A k \in Key : DelLine(k) \in Line
        /\ \A k \in Key, v \in Value : PutLine(k, v) \in Line
    BY DEF Caller, PutLine, DelLine, Line
  <2>2. CASE \/ \E k \in Key, v \in Value : Single(t, PutLine(k, v))
             \/ \E k \in Key : Single(t, DelLine(k))
    BY <2>1, <2>2, CommandsKept
  <2>3. CASE \/ \E j, k \in Key, v, w \in Value : Multi(t, <<PutLine(j, v), PutLine(k, w)>>)
             \/ \E j, k \in Key : Multi(t, <<DelLine(j), DelLine(k)>>)
    BY <2>1, <2>3, CommandsKept
  <2>4. CASE Clear(t)
    BY <2>4, ClearKept
  <2>5. ASSUME NEW x \in Name, Use(t, x) PROVE KeptInv'
    BY <2>1, <2>5, ShutdownKept DEF Use, Ready
  <2>6. CASE Quit(t)
    BY <2>1, <2>6, ShutdownKept DEF Quit, Ready
  <2> QED  BY <1>2, <2>2, <2>3, <2>4, <2>5, <2>6 DEF Command
<1>3. CASE Exit
  BY <1>3, ShutdownKept DEF Exit, Caller
<1>4. ASSUME NEW t \in Caller, Proceed(t) PROVE KeptInv'
  BY <1>4, StepKept, ClearFilesKept, CloseLogKept, CompactLogKept, GivesUpKept,
     WriteSnapshotKept, ConstructKept, SwapKept DEF Proceed
<1>5. ASSUME NEW o \in Obj, Flush(o) PROVE KeptInv'
  BY <1>5, FlushKept
<1>6. CASE Crash
  <2>1. UNCHANGED <<aof, history>> /\ \A o \in Obj : obj'[o] = Freed
    BY <1>6 DEF Crash
  <2> QED  BY <2>1, NothingKept
<1>7. CASE UNCHANGED vars
  <2>1. UNCHANGED <<db, obj, at, aof, left, unsure>>
    BY <1>7 DEF vars, history
  <2>2. Doubts' /\ Shut' /\ Unlogged' /\ Passed'
    BY <2>1, FewerKept DEF Past, Busy, Cleared
  <2>3. Departed'
    BY <2>1, DepartedKept DEF KeptInv
  <2> QED  BY <2>2, <2>3 DEF KeptInv
<1> QED  BY <1>1, <1>2, <1>3, <1>4, <1>5, <1>6, <1>7 DEF Next, Caller

(* use and ~Server keep what they leave (shutdown() compacts the AOF       *)
(* before the object is freed): however the calls of any number of clients *)
(* interleave, and also after failed uses, quits and renames that took a   *)
(* DB's log away, a load of an AOF that has been left gives, for every key *)
(* that is not in doubt, what the last DB of that keyspace held.           *)
THEOREM LeavingKeeps ==
  ASSUME \A x \in Name : Temp[x] = NoName, Empty \notin Key \cup Value
  PROVE  Spec => []LeftMeansKept
<1>1. Init => Owned /\ AgreeInv /\ KeptInv
  <2>1. Init => Owned /\ AgreeInv
    BY DEF Init, Owned, Live, AgreeInv, Files, Alone, Clean, Emptied, Agrees, Tracked, Opens
  <2>2. Init => Doubts /\ Shut /\ Unlogged /\ Passed /\ Departed
    BY DEF Init, Live, Doubts, Shut, Unlogged, Passed, Departed
  <2> QED  BY <2>1, <2>2 DEF KeptInv
<1>2. KeptInv => LeftMeansKept
  BY DEF KeptInv, Departed, LeftMeansKept
<1>3. Spec => [](TypeInv /\ Owned /\ AgreeInv /\ KeptInv)
  <2>1. Init => TypeInv
    BY TypeInit
  <2>2. TypeInv /\ Owned /\ AgreeInv /\ KeptInv /\ [Next]_vars =>
          (TypeInv /\ Owned /\ AgreeInv /\ KeptInv)'
    BY TypeStep, OwnedStep, AgreeStep, KeptStep
  <2> QED  BY <1>1, <2>1, <2>2, PTL DEF Spec
<1> QED  BY <1>2, <1>3, PTL
=============================================================================
