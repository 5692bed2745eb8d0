--------------------------- MODULE KeyspaceProofs ---------------------------
(***************************************************************************)
(* Proofs about Keyspace for every finite set of keys, every set of values *)
(* and logs of any length: log and table agree, a restart finds recent     *)
(* values, the two files agree, and the dirty counter may be trusted.      *)
(***************************************************************************)
EXTENDS Keyspace, AofProofs, FiniteSetTheorems

(* What the position in a call says of the variables it works on.          *)
ControlInv ==
  /\ phase # "loading" => pos = 0
  /\ pc # "idle" => phase = "up"
  /\ pc = "append" <=> todo # <<>>
  /\ batch # <<>> => pc \in {"append", "apply"}
  /\ pc = "apply" => batch # <<>>
  /\ ~isOpen \/ phase # "up" => localBuffer = <<>> /\ logBuffer = <<>>
  /\ pc \in {"compactLog", "snapshot"} => ~isOpen

TypeInv == TypeOK /\ ControlInv
-----------------------------------------------------------------------------
(* A command's lines are lines of the AOF, and what it makes the history   *)
(* variables remember keeps their types.                                   *)
LEMMA RememberType ==
  ASSUME TypeOK, NEW ls \in Seq(Line), NEW logged, Remember(ls, logged)
  PROVE  /\ unlogged' \in SUBSET Key
         /\ recent' \in [Key -> SUBSET (Value \cup {NoValue})]
         /\ fresh' \in BOOLEAN
<1>1. recent \in [Key -> SUBSET (Value \cup {NoValue})]
  BY DEF TypeOK
<1>2. \A i \in 1..Len(ls) : ls[i].val \in Value \cup {NoValue}
  <2>1. \A l \in Line : l.val \in Value \cup {NoValue}
    BY DEF Line
  <2> QED  BY <2>1
<1> QED  BY <1>1, <1>2, ZenonT(40) DEF Remember

(* The lines of put and mput.                                              *)
LEMMA PutLineType == \A k \in Key, v \in Value : PutLine(k, v) \in Line
BY DEF PutLine, Line

(* The lines of del and mdel.                                              *)
LEMMA DelLineType == \A k \in Key : DelLine(k) \in Line
BY DEF DelLine, Line

(* The compacted file is a sequence of lines.                              *)
LEMMA CompactedType ==
  ASSUME TypeOK, NEW lines \in Compacted
  PROVE  lines \in Seq(Line)
<1>1. IsFiniteSet(Stored)
  BY KeyAssumption, FS_Subset DEF Stored
<1>2. Cardinality(Stored) \in Nat
  BY <1>1, FS_CardinalityType
<1>3. PICK ks \in Orders(Stored) :
        lines = [i \in 1..Cardinality(Stored) |-> PutLine(ks[i], store[ks[i]])]
  BY DEF Compacted
<1>4. ks \in [1..Cardinality(Stored) -> Stored]
  BY <1>3 DEF Orders, Bijection, Injection
<1>5. \A k \in Stored : PutLine(k, store[k]) \in Line
  BY DEF Stored, PutLine, Line, TypeOK, Content
<1>6. \A i \in 1..Cardinality(Stored) : PutLine(ks[i], store[ks[i]]) \in Line
  BY <1>4, <1>5
<1> QED  BY <1>2, <1>3, <1>6
-----------------------------------------------------------------------------
(* mput and mdel run on one sequence of lines, which is not empty.         *)
LEMMA MultiLines ==
  ASSUME MPut \/ MDel
  PROVE  \E ls \in Seq(Line) : ls # <<>> /\ Multi(ls)
<1>1. CASE MPut
  <2>0. PICK n \in 2..MaxBatch : \E ks \in [1..n -> Key], vs \in [1..n -> Value] :
          Multi([i \in 1..n |-> PutLine(ks[i], vs[i])])
    BY <1>1 DEF MPut
  <2>1. PICK ks \in [1..n -> Key], vs \in [1..n -> Value] :
          Multi([i \in 1..n |-> PutLine(ks[i], vs[i])])
    BY <2>0
  <2>2. \A i \in 1..n : PutLine(ks[i], vs[i]) \in Line
    BY PutLineType
  <2> DEFINE ls == [i \in 1..n |-> PutLine(ks[i], vs[i])]
  <2>3. ls \in Seq(Line) /\ ls # <<>>
    BY <2>2, BoundsAssumption
  <2> QED  BY <2>1, <2>3
<1>2. CASE MDel
  <2>0. PICK n \in 2..MaxBatch : \E ks \in [1..n -> Key] :
          Multi([i \in 1..n |-> DelLine(ks[i])])
    BY <1>2 DEF MDel
  <2>1. PICK ks \in [1..n -> Key] : Multi([i \in 1..n |-> DelLine(ks[i])])
    BY <2>0
  <2>2. \A i \in 1..n : DelLine(ks[i]) \in Line
    BY DelLineType
  <2> DEFINE ls == [i \in 1..n |-> DelLine(ks[i])]
  <2>3. ls \in Seq(Line) /\ ls # <<>>
    BY <2>2, BoundsAssumption
  <2> QED  BY <2>1, <2>3
<1> QED  BY <1>1, <1>2

(* A sequence has something behind its head when it has two elements.      *)
LEMMA TailNonEmpty ==
  ASSUME NEW s \in Seq(Line), s # <<>>
  PROVE  Head(s) \in Line /\ Tail(s) \in Seq(Line)
         /\ ((Len(s) > 1) <=> (Tail(s) # <<>>))
<1>1. Head(s) \in Line /\ Tail(s) \in Seq(Line) /\ Len(Tail(s)) = Len(s) - 1
  BY HeadTailProperties
<1>2. Len(s) \in Nat /\ Len(s) # 0
  BY EmptySeq
<1>3. Tail(s) = <<>> <=> Len(Tail(s)) = 0
  BY <1>1, EmptySeq
<1> QED  BY <1>1, <1>2, <1>3

(* The part that put and del share.                                        *)
LEMMA SingleType ==
  ASSUME TypeInv, NEW l \in Line, Single(l)
  PROVE  /\ pc' \in {"idle", "append"}
         /\ pc' = "append" <=> todo' # <<>>
         /\ todo' \in Seq(Line) /\ phase = "up" /\ batch = <<>>
         /\ unlogged' \in SUBSET Key
         /\ recent' \in [Key -> SUBSET (Value \cup {NoValue})]
         /\ fresh' \in BOOLEAN
         /\ UNCHANGED <<phase, files, log, pos, batch, caller>>
<1>1. <<l>> \in Seq(Line) /\ <<l>> # <<>>
  OBVIOUS
<1>2. Remember(<<l>>, ~replaying)
  BY DEF Single
<1>3. pc = "idle" /\ phase = "up" /\ batch = <<>> /\ todo = <<>>
  BY DEF Single, Ready, TypeInv, ControlInv
<1>4. \/ pc' = pc /\ todo' = todo
      \/ pc' = "append" /\ todo' = <<l>>
  BY DEF Single
<1>5. UNCHANGED <<phase, files, log, pos, batch, caller>>
  BY DEF Single
<1>6. /\ unlogged' \in SUBSET Key
      /\ recent' \in [Key -> SUBSET (Value \cup {NoValue})]
      /\ fresh' \in BOOLEAN
  BY <1>1, <1>2, RememberType DEF TypeInv
<1>7. /\ pc' \in {"idle", "append"}
      /\ pc' = "append" <=> todo' # <<>>
      /\ todo' \in Seq(Line)
  <2>1. CASE pc' = pc /\ todo' = todo
    BY <1>3, <2>1, EmptySeq
  <2>2. CASE pc' = "append" /\ todo' = <<l>>
    BY <1>1, <2>2
  <2> QED  BY <1>4, <2>1, <2>2
<1> QED  BY <1>3, <1>5, <1>6, <1>7

(* Every step of loading, of a command, of the flusher, of shutdown and    *)
(* of a crash keeps the types and what ControlInv says.                    *)
LEMMA TypeInvStep ==
  ASSUME TypeInv, [Next]_vars
  PROVE  TypeInv'
<1> USE DEF TypeInv, ControlInv, TypeOK, files, log, memory, call, history,
            Content
<1>1. CASE Open  BY <1>1 DEF Open, NoKeys
<1>2. CASE ReplayLine
  <2>1. aof[pos + 1] \in Line /\ pos' \in 0..Len(aof)
    BY <1>2 DEF ReplayLine
  <2>2. store' \in Content
    BY <1>2, <2>1 DEF ReplayLine, Line
  <2> QED  BY <1>2, <2>1, <2>2 DEF ReplayLine
<1>3. CASE EndLoad  BY <1>3 DEF EndLoad
<1>4. ASSUME NEW k \in Key, NEW v \in Value, Put(k, v) PROVE TypeInv'
  <2>1. store' \in Content /\ replaying' = replaying
    BY <1>4 DEF Put, DBPut
  <2>2. dirty' \in BOOLEAN
    BY <1>4 DEF Put, DBPut
  <2> QED  BY <1>4, <2>1, <2>2, SingleType, PutLineType DEF Put
<1>5. ASSUME NEW k \in Key, Del(k) PROVE TypeInv'
  <2>1. store' \in Content /\ replaying' = replaying
    BY <1>5 DEF Del, DBDel
  <2>2. dirty' \in BOOLEAN
    BY <1>5 DEF Del, DBDel
  <2> QED  BY <1>5, <2>1, <2>2, SingleType, DelLineType DEF Del
<1>6. ASSUME NEW ls \in Seq(Line), ls # <<>>, Multi(ls) PROVE TypeInv'
  BY <1>6, RememberType DEF Multi, Ready
<1>7. CASE AppendCommand
  <2>1. todo # <<>>
    BY <1>7 DEF AppendCommand
  <2>2. Head(todo) \in Line /\ Tail(todo) \in Seq(Line)
    BY <2>1, TailNonEmpty
  <2>3. logBuffer' \in Seq(Line)
    BY <1>7, <2>2 DEF AppendCommand
  <2>4. (Len(todo) > 1) <=> (Tail(todo) # <<>>)
    BY <2>1, TailNonEmpty
  <2>5. todo' = Tail(todo)
        /\ pc' = IF Len(todo) > 1 THEN "append"
                 ELSE IF batch # <<>> THEN "apply" ELSE "idle"
    BY <1>7 DEF AppendCommand
  <2> QED  BY <1>7, <2>2, <2>3, <2>4, <2>5 DEF AppendCommand
<1>8. CASE ApplyItem
  <2>1. batch # <<>> /\ todo = <<>>
    BY <1>8 DEF ApplyItem
  <2>2. Head(batch) \in Line /\ Tail(batch) \in Seq(Line)
    BY <2>1, TailNonEmpty
  <2>3. Head(batch).key \in Key /\ Head(batch).val \in Value \cup {NoValue}
    BY <2>2 DEF Line
  <2>4. store' \in Content /\ replaying' = replaying
    BY <1>8, <2>3 DEF ApplyItem, DBPut, DBDel
  <2>5. dirty' \in BOOLEAN
    BY <1>8 DEF ApplyItem, DBPut, DBDel
  <2>6. (Len(batch) > 1) <=> (Tail(batch) # <<>>)
    BY <2>1, TailNonEmpty
  <2>7. batch' = Tail(batch) /\ pc' = IF Len(batch) > 1 THEN "apply" ELSE "idle"
    BY <1>8 DEF ApplyItem
  <2> QED  BY <1>8, <2>1, <2>2, <2>4, <2>5, <2>6, <2>7 DEF ApplyItem
<1>9. CASE ClearData
  <2>1. /\ recent' \in [Key -> SUBSET (Value \cup {NoValue})]
        /\ unlogged' \in SUBSET Key
    BY <1>9 DEF ClearData
  <2>2. store' \in Content
    BY <1>9 DEF ClearData, NoKeys
  <2>3. aof' \in Seq(Line) /\ pos' \in 0..Len(aof')
    BY <1>9, EmptySeq DEF ClearData, Ready
  <2> QED  BY <1>9, <2>1, <2>2, <2>3 DEF ClearData, Ready
<1>10. CASE FlusherSwap  BY <1>10 DEF FlusherSwap
<1>11. CASE FlusherWrite  BY <1>11 DEF FlusherWrite, Settle
<1>12. ASSUME NEW who \in {"quit", "server", "db"}, BeginShutdown(who)
       PROVE TypeInv'
  BY <1>12 DEF BeginShutdown, Ready
<1>13. CASE CloseLog
  <2>1. recent' \in [Key -> SUBSET (Value \cup {NoValue})]
    BY <1>13 DEF CloseLog, Settle
  <2>2. aof' \in Seq(Line) /\ pos' = 0 /\ pos' \in 0..Len(aof')
    BY <1>13 DEF CloseLog
  <2>3. logBuffer' \in Seq(Line) /\ logBuffer' = <<>> /\ localBuffer' = <<>>
    BY <1>13, EmptySeq DEF CloseLog
  <2> QED  BY <1>13, <2>1, <2>2, <2>3 DEF CloseLog
<1>14. CASE CompactLog  BY <1>14, CompactedType DEF CompactLog, Stored
<1>15. CASE CompactThrows  BY <1>15 DEF CompactThrows
<1>16. CASE WriteBinarySnapshot  BY <1>16 DEF WriteBinarySnapshot, Return
<1>17. CASE SnapshotFails  BY <1>17 DEF SnapshotFails, Return
<1>18. CASE Crash
  <2>1. aof' \in Seq(Line)
    <3>1. \A s \in Seq(Line) : \A n \in 0..Len(s) : SubSeq(s, 1, n) \in Seq(Line)
      OBVIOUS
    <3> QED  BY <1>18, <3>1 DEF Crash
  <2>2. snapshot' \in Content \cup {Torn} /\ store' \in Content
    BY <1>18 DEF Crash, NoKeys
  <2>3. /\ pos' = 0 /\ pos' \in 0..Len(aof')
        /\ localBuffer' = <<>> /\ logBuffer' = <<>> /\ todo' = <<>> /\ batch' = <<>>
        /\ <<>> \in Seq(Line)
    BY <1>18, <2>1, EmptySeq DEF Crash
  <2> QED  BY <1>18, <2>1, <2>2, <2>3 DEF Crash
<1>19. CASE UNCHANGED vars  BY <1>19 DEF vars
<1>20. CASE MPut \/ MDel
  <2>1. PICK ls \in Seq(Line) : ls # <<>> /\ Multi(ls)
    BY <1>20, MultiLines
  <2> QED  BY <2>1, <1>6
<1> QED
  BY <1>1, <1>2, <1>3, <1>4, <1>5, <1>7, <1>8, <1>9, <1>10, <1>11, <1>12,
     <1>13, <1>14, <1>15, <1>16, <1>17, <1>18, <1>19, <1>20
  DEF Next, Load, Command, Execute, Flush, Shutdown

(* A keyspace that was never opened has the types.                         *)
LEMMA TypeInit == Init => TypeInv
<1> SUFFICES ASSUME Init PROVE TypeInv
  OBVIOUS
<1>1. <<>> \in Seq(Line) /\ 0 \in 0..Len(<<>>)
  BY EmptySeq
<1> QED  BY <1>1 DEF Init, TypeInv, TypeOK, ControlInv, NoKeys, Content

(* The variables of a keyspace keep their types, through any number of     *)
(* crashes and restarts.                                                   *)
THEOREM TypeCorrect == Spec => []TypeOK
BY TypeInit, TypeInvStep, PTL DEF Spec, TypeInv
-----------------------------------------------------------------------------
(* The pipeline through the steps that only move lines along it.           *)
LEMMA PipelineMoves ==
  ASSUME NEW a \in Seq(Line), NEW b \in Seq(Line), NEW c \in Seq(Line),
         NEW d \in Seq(Line)
  PROVE  /\ a \o b \o c \o d \in Seq(Line)
         /\ a \o b \o c \o <<>> \o d = a \o b \o c \o d
         /\ (a \o b) \o <<>> \o c \o d = a \o b \o c \o d
         /\ a \o c \o <<>> \o d = a \o <<>> \o c \o d
         /\ (a \o c) \o <<>> \o <<>> \o d = a \o <<>> \o c \o d
         /\ a \o <<>> \o <<>> \o d = a \o d
<1>1. a \o b \in Seq(Line) /\ a \o b \o c \in Seq(Line) /\ a \o c \in Seq(Line)
  BY ConcatProperties
<1> QED  BY <1>1, ConcatProperties, ConcatEmptySeq

(* The flusher and the load move one line from one log to the next.        *)
LEMMA ShiftLine ==
  \A x, y, z \in Seq(Line), l \in Line :
    x \o Append(y, l) \o z = x \o y \o (<<l>> \o z)
<1> TAKE x \in Seq(Line), y \in Seq(Line), z \in Seq(Line), l \in Line
<1>1. \A o \in Seq(Line) : x \o (y \o o) \o z = x \o y \o (o \o z)
  BY SMTT(30)
<1>2. Append(y, l) = y \o <<l>> /\ <<l>> \in Seq(Line)
  OBVIOUS
<1> QED  BY <1>1, <1>2, Zenon

(* A log with a line is its first line and the rest.                       *)
LEMMA HeadBeforeTail ==
  ASSUME NEW d \in Seq(Line), d # <<>>
  PROVE  \E l \in Line, t \in Seq(Line) :
           l = Head(d) /\ t = Tail(d) /\ d = <<l>> \o t
<1>1. Head(d) \in Line /\ Tail(d) \in Seq(Line) /\ d = <<Head(d)>> \o Tail(d)
  OBVIOUS
<1> QED  BY <1>1, Zenon

(* appendCommand moves the first line of a command to the log buffer.      *)
LEMMA PipelineAppend ==
  \A a, b, c, d \in Seq(Line) :
    d # <<>> => a \o b \o Append(c, Head(d)) \o Tail(d) = a \o b \o c \o d
<1> TAKE a \in Seq(Line), b \in Seq(Line), c \in Seq(Line), d \in Seq(Line)
<1> HAVE d # <<>>
<1>1. PICK l \in Line, t \in Seq(Line) :
        l = Head(d) /\ t = Tail(d) /\ d = <<l>> \o t
  BY HeadBeforeTail, Zenon
<1>2. PICK x \in Seq(Line) : x = a \o b
  <2>1. a \o b \in Seq(Line)
    OBVIOUS
  <2> QED  BY <2>1, Zenon
<1>3. \A z \in Seq(Line), k \in Line :
        x \o Append(c, k) \o z = x \o c \o (<<k>> \o z)
  BY ShiftLine, Zenon
<1>4. x \o Append(c, l) \o t = x \o c \o (<<l>> \o t)
  BY <1>3, Zenon
<1> QED  BY <1>1, <1>2, <1>4, Zenon
-----------------------------------------------------------------------------
(* The mirror, strengthened for the steps between two commands: what the   *)
(* rest of an mput or mdel will still make of the store, and what a load   *)
(* has made of it so far.                                                  *)
LinesInv ==
  /\ \A i \in 1..Len(batch) : Readable(batch[i]) \/ batch[i].key \in unlogged
  /\ ~isOpen => \A i \in 1..Len(todo) : todo[i].key \in unlogged

UpMirror ==
  phase = "up" =>
    \A k \in Key \ unlogged, v \in Value \cup {NoValue} :
      Leaves(store[k], batch, k, v) => Recovers(Pipeline, k, v)

LoadMirror ==
  phase = "loading" =>
    \A k \in Key : Recovers(SubSeq(aof, 1, pos), k, store[k])

MirrorInv == TypeInv /\ LinesInv /\ UpMirror /\ LoadMirror

(* A step that moves lines along the pipeline, and changes neither the     *)
(* store nor the command in progress, keeps the mirror.                    *)
LEMMA MirrorMoves ==
  ASSUME UpMirror, phase = "up", Pipeline' = Pipeline,
         UNCHANGED <<store, batch, unlogged>>
  PROVE  UpMirror'
BY DEF UpMirror

(* Between two commands nothing of a command is left.                      *)
LEMMA ReadyIsBetween ==
  ASSUME TypeInv, phase = "up", pc \notin {"append", "apply"}
  PROVE  todo = <<>> /\ batch = <<>> /\ Pipeline = aof \o localBuffer \o logBuffer
<1>1. todo = <<>> /\ batch = <<>>
  BY DEF TypeInv, ControlInv
<1>2. aof \o localBuffer \o logBuffer \in Seq(Line)
  BY DEF TypeInv, TypeOK
<1>3. \A s \in Seq(Line) : s \o <<>> = s
  OBVIOUS
<1>4. Pipeline = aof \o localBuffer \o logBuffer
  BY <1>1, <1>2, <1>3, Zenon DEF Pipeline
<1> QED  BY <1>1, <1>4

(* put and del.                                                            *)
LEMMA SingleMirror ==
  ASSUME TypeInv, UpMirror, NEW l \in Line, Single(l),
         store' = [store EXCEPT ![l.key] = l.val]
  PROVE  LinesInv' /\ UpMirror'
<1> DEFINE P == aof \o localBuffer \o logBuffer
<1>1. phase = "up" /\ todo = <<>> /\ batch = <<>> /\ Pipeline = P
  BY ReadyIsBetween DEF Single, Ready
<1>2. P \in Seq(Line) /\ <<l>> \in Seq(Line) /\ store \in Content
      /\ l.key \in Key /\ l.val \in Value \cup {NoValue}
  BY DEF TypeInv, TypeOK, Line
<1>3. /\ batch' = <<>> /\ isOpen' = isOpen
      /\ Pipeline' = P \o todo'
      /\ replaying => todo' = <<>>
      /\ ~replaying => todo' = <<l>>
  BY <1>1 DEF Single, files, log, Pipeline
<1>4. \A k \in Key : /\ k # l.key => (k \in unlogged' <=> k \in unlogged)
                     /\ k = l.key /\ k \notin unlogged'
                          => ~replaying /\ isOpen /\ Readable(l)
  BY DEF Single, Remember, Mentions
<1>5. LinesInv'
  BY <1>1, <1>2, <1>3, <1>4, EmptySeq DEF LinesInv
<1>6. ASSUME NEW k \in Key \ unlogged', NEW v \in Value \cup {NoValue},
             Leaves(store'[k], batch', k, v)
      PROVE  Recovers(Pipeline', k, v)
  <2>1. v = store'[k]
    BY <1>3, <1>6, LeavesEmpty
  <2>2. CASE k = l.key
    <3>1. Touches(l, k) /\ Pipeline' = P \o <<l>>
      BY <1>3, <1>4, <2>2 DEF Touches
    <3>2. v = l.val
      BY <1>2, <2>1, <2>2 DEF Content
    <3>3. Leaves(NoValue, <<l>>, k, v)
      BY <3>1, <3>2, LeavesLine, Zenon
    <3>4. 1 \in 1..Len(<<l>>) /\ <<l>>[1] = l
      OBVIOUS
    <3> HIDE DEF P
    <3> QED  BY <1>2, <3>1, <3>3, <3>4, LeavesSuffix DEF Recovers
  <2>3. CASE k # l.key
    <3>1. k \in Key \ unlogged /\ v = store[k]
      BY <1>2, <1>4, <2>1, <2>3 DEF Content
    <3>2. Leaves(store[k], batch, k, v)
      BY <1>1, <3>1, LeavesEmpty
    <3>3. Recovers(P, k, v)
      BY <1>1, <3>1, <3>2 DEF UpMirror
    <3>4. todo' \in Seq(Line) /\ \A i \in 1..Len(todo') : ~Touches(todo'[i], k)
      <4>1. CASE todo' = <<>>
        BY <4>1, EmptySeq
      <4>2. CASE todo' = <<l>>
        BY <1>2, <2>3, <4>2 DEF Touches
      <4> QED  BY <1>3, <4>1, <4>2
    <3>5. Leaves(v, todo', k, v)
      BY <3>4, LeavesUntouched
    <3> HIDE DEF P
    <3> QED  BY <1>2, <1>3, <3>3, <3>4, <3>5, LeavesConcat DEF Recovers
  <2> QED  BY <2>2, <2>3
<1> QED  BY <1>5, <1>6 DEF UpMirror

(* mput and mdel: all lines are on their way before the first change.      *)
LEMMA MultiMirror ==
  ASSUME TypeInv, UpMirror, NEW ls \in Seq(Line), Multi(ls)
  PROVE  LinesInv' /\ UpMirror'
<1> DEFINE P == aof \o localBuffer \o logBuffer
<1>1. phase = "up" /\ batch = <<>> /\ Pipeline = P
  BY ReadyIsBetween DEF Multi, Ready
<1>2. P \in Seq(Line) /\ \A i \in 1..Len(ls) : ls[i].key \in Key
  <2>1. \A l \in Line : l.key \in Key
    BY DEF Line
  <2> QED  BY <2>1 DEF TypeInv, TypeOK
<1>3. /\ batch' = ls /\ todo' = ls /\ isOpen' = isOpen /\ store' = store
      /\ Pipeline' = P \o ls
  BY DEF Multi, files, log, memory, Pipeline
<1>4. \A k \in Key :
        /\ ~Mentions(ls, k) => (k \in unlogged' <=> k \in unlogged)
        /\ Mentions(ls, k) /\ k \notin unlogged'
             => isOpen /\ \A i \in 1..Len(ls) : ls[i].key = k => Readable(ls[i])
  BY DEF Multi, Remember
<1>5. LinesInv'
  BY <1>2, <1>3, <1>4 DEF LinesInv, Mentions
<1>6. ASSUME NEW k \in Key \ unlogged', NEW v \in Value \cup {NoValue},
             Leaves(store'[k], batch', k, v)
      PROVE  Recovers(Pipeline', k, v)
  <2>1. Leaves(store[k], ls, k, v)
    BY <1>3, <1>6
  <2>2. CASE Mentions(ls, k)
    <3>1. PICK m \in 1..Len(ls) : Touches(ls[m], k)
      BY <1>4, <2>2 DEF Mentions, Touches
    <3> HIDE DEF P
    <3> QED  BY <1>2, <1>3, <2>1, <3>1, LeavesSuffix DEF Recovers
  <2>3. CASE ~Mentions(ls, k)
    <3>1. k \in Key \ unlogged /\ store[k] \in Value \cup {NoValue}
      BY <1>4, <2>3 DEF TypeInv, TypeOK, Content
    <3>2. Leaves(store[k], batch, k, store[k])
      BY <1>1, LeavesEmpty
    <3>3. Recovers(P, k, store[k])
      BY <1>1, <3>1, <3>2 DEF UpMirror
    <3> HIDE DEF P
    <3> QED  BY <1>2, <1>3, <2>1, <3>3, LeavesConcat DEF Recovers
  <2> QED  BY <2>2, <2>3
<1> QED  BY <1>5, <1>6 DEF UpMirror

(* appendCommand; a closed log refuses only lines about unlogged keys.     *)
LEMMA AppendMirror ==
  ASSUME TypeInv, LinesInv, UpMirror, AppendCommand
  PROVE  LinesInv' /\ UpMirror'
<1> DEFINE P == aof \o localBuffer \o logBuffer
<1>1. phase = "up" /\ todo \in Seq(Line) /\ todo # <<>> /\ P \in Seq(Line)
      /\ aof \in Seq(Line) /\ localBuffer \in Seq(Line) /\ logBuffer \in Seq(Line)
  BY DEF AppendCommand, TypeInv, ControlInv, TypeOK
<1>2. UNCHANGED <<phase, store, batch, unlogged, isOpen, aof, localBuffer>>
      /\ todo' = Tail(todo)
      /\ logBuffer' = IF isOpen THEN Append(logBuffer, Head(todo)) ELSE logBuffer
  BY DEF AppendCommand, memory, files, history
<1>3. Tail(todo) \in Seq(Line)
      /\ \A i \in 1..Len(Tail(todo)) :
           i + 1 \in 1..Len(todo) /\ Tail(todo)[i] = todo[i + 1]
  BY <1>1
<1>4. LinesInv'
  BY <1>2, <1>3 DEF LinesInv
<1>5. CASE isOpen
  <2>1. Pipeline' = Pipeline
    <3>1. logBuffer' = Append(logBuffer, Head(todo))
      BY <1>2, <1>5
    <3>2. Pipeline' = aof \o localBuffer \o Append(logBuffer, Head(todo)) \o Tail(todo)
      BY <1>2, <3>1 DEF Pipeline
    <3>3. aof \o localBuffer \o Append(logBuffer, Head(todo)) \o Tail(todo)
            = aof \o localBuffer \o logBuffer \o todo
      <4>1. \A c, d \in Seq(Line) :
              d # <<>> => aof \o localBuffer \o Append(c, Head(d)) \o Tail(d)
                            = aof \o localBuffer \o c \o d
        BY <1>1, PipelineAppend, Zenon
      <4> QED  BY <1>1, <4>1, Zenon
    <3> QED  BY <3>2, <3>3 DEF Pipeline
  <2> QED  BY <1>1, <1>2, <1>4, <2>1, MirrorMoves
<1>6. CASE ~isOpen
  <2>1. Pipeline = P \o todo /\ Pipeline' = P \o Tail(todo)
    BY <1>2, <1>6 DEF Pipeline
  <2>2. ASSUME NEW k \in Key \ unlogged, NEW v \in Value \cup {NoValue},
               Leaves(store[k], batch, k, v)
        PROVE  Recovers(Pipeline', k, v)
    <3>1. Recovers(P \o todo, k, v)
      BY <1>1, <2>1, <2>2 DEF UpMirror
    <3>2. \A i \in 1..Len(todo) : ~Touches(todo[i], k)
      BY <1>6 DEF LinesInv, Touches
    <3>3. \A i \in 1..Len(Tail(todo)) : ~Touches(Tail(todo)[i], k)
      BY <1>3, <3>2
    <3> HIDE DEF P
    <3>4. Leaves(NoValue, P, k, v)
      BY <1>1, <3>1, <3>2, LeavesFront DEF Recovers
    <3>5. Leaves(v, Tail(todo), k, v)
      BY <1>3, <3>3, LeavesUntouched
    <3> QED  BY <1>1, <1>3, <2>1, <3>4, <3>5, LeavesConcat DEF Recovers
  <2> QED  BY <1>2, <1>4, <2>2 DEF UpMirror
<1> QED  BY <1>5, <1>6

(* One item of mput or mdel reaches the store.                             *)
LEMMA ApplyMirror ==
  ASSUME TypeInv, LinesInv, UpMirror, ApplyItem
  PROVE  LinesInv' /\ UpMirror'
<1>1. phase = "up" /\ batch \in Seq(Line) /\ batch # <<>> /\ store \in Content
  BY DEF ApplyItem, TypeInv, ControlInv, TypeOK
<1>2. PICK l \in Line, t \in Seq(Line) :
        l = Head(batch) /\ t = Tail(batch) /\ batch = <<l>> \o t
  BY <1>1, HeadBeforeTail
<1>3. UNCHANGED <<phase, unlogged, isOpen, aof, localBuffer, logBuffer, todo>>
      /\ batch' = t /\ Pipeline' = Pipeline
  BY <1>2 DEF ApplyItem, files, log, history, Pipeline
<1>4. l.key \in Key /\ l.val \in Value \cup {NoValue} /\ <<l>> \in Seq(Line)
  BY <1>2 DEF Line
<1>5. store' = [store EXCEPT ![l.key] = l.val]
  BY <1>2 DEF ApplyItem, DBPut, DBDel
<1>6. /\ 1 \in 1..Len(batch) /\ batch[1] = l
      /\ \A i \in 1..Len(t) : i + 1 \in 1..Len(batch) /\ t[i] = batch[i + 1]
  BY <1>1, <1>2
<1>7. LinesInv'
  BY <1>3, <1>6 DEF LinesInv
<1>8. ASSUME NEW k \in Key \ unlogged, NEW v \in Value \cup {NoValue},
             Leaves(store'[k], t, k, v)
      PROVE  Recovers(Pipeline, k, v)
  <2>1. Leaves(store[k], <<l>>, k, store'[k])
    <3>1. CASE l.key = k
      <4>1. Touches(l, k)
        BY <1>6, <3>1 DEF LinesInv, Touches
      <4>2. store'[k] = l.val
        BY <1>1, <1>4, <1>5, <3>1 DEF Content
      <4> QED  BY <4>1, <4>2, LeavesLine, Zenon
    <3>2. CASE l.key # k
      <4>1. ~Touches(l, k)
        BY <3>2 DEF Touches
      <4>2. store'[k] = store[k]
        BY <1>1, <1>5, <3>2 DEF Content
      <4> QED  BY <4>1, <4>2, LeavesLine, Zenon
    <3> QED  BY <3>1, <3>2
  <2>2. Leaves(store[k], <<l>> \o t, k, v)
    BY <1>4, <1>8, <2>1, LeavesConcat
  <2> QED  BY <1>1, <1>2, <2>2 DEF UpMirror
<1> QED  BY <1>3, <1>7, <1>8 DEF UpMirror

(* clearData: what is still in a buffer is about unlogged keys only.       *)
LEMMA ClearMirror ==
  ASSUME TypeInv, ClearData
  PROVE  LinesInv' /\ UpMirror'
<1>1. phase = "up" /\ todo = <<>> /\ batch = <<>>
  BY ReadyIsBetween DEF ClearData, Ready
<1>2. localBuffer \in Seq(Line) /\ logBuffer \in Seq(Line)
      /\ localBuffer \o logBuffer \in Seq(Line)
  BY DEF TypeInv, TypeOK
<1>3. /\ batch' = <<>> /\ todo' = <<>> /\ aof' = <<>>
      /\ localBuffer' = localBuffer /\ logBuffer' = logBuffer /\ store' = NoKeys
      /\ unlogged' = {k \in Key : Mentions(localBuffer \o logBuffer, k)}
  BY <1>1 DEF ClearData, log, call
<1>4. \A b, c \in Seq(Line) : <<>> \o b \o c \o <<>> = b \o c
  OBVIOUS
<1>5. Pipeline' = localBuffer \o logBuffer
  BY <1>2, <1>3, <1>4, Zenon DEF Pipeline
<1>6. LinesInv'
  BY <1>3, EmptySeq DEF LinesInv
<1>7. ASSUME NEW k \in Key \ unlogged', NEW v \in Value \cup {NoValue},
             Leaves(store'[k], batch', k, v)
      PROVE  Recovers(Pipeline', k, v)
  <2>1. v = NoValue
    BY <1>3, <1>7, LeavesEmpty DEF NoKeys
  <2>2. \A i \in 1..Len(localBuffer \o logBuffer) :
          ~Touches((localBuffer \o logBuffer)[i], k)
    BY <1>3 DEF Mentions, Touches
  <2> QED  BY <1>2, <1>5, <2>1, <2>2, LeavesUntouched DEF Recovers
<1> QED  BY <1>6, <1>7 DEF UpMirror

(* The compacted file has one line for a stored key and none for another.  *)
LEMMA CompactedMirror ==
  ASSUME TypeOK, NEW lines \in Compacted, NEW k \in Key,
         k \notin Stored \/ Readable(PutLine(k, store[k]))
  PROVE  Recovers(lines, k, store[k])
<1>1. IsFiniteSet(Stored)
  BY KeyAssumption, FS_Subset DEF Stored
<1>2. PICK n \in Nat : n = Cardinality(Stored)
  BY <1>1, FS_CardinalityType
<1>3. PICK ks \in Orders(Stored) :
        lines = [i \in 1..n |-> PutLine(ks[i], store[ks[i]])]
  BY <1>2 DEF Compacted
<1>4. ks \in Bijection(1..n, Stored)
  BY <1>2, <1>3 DEF Orders
<1>5. /\ ks \in [1..n -> Stored]
      /\ \A i, j \in 1..n : ks[i] = ks[j] => i = j
      /\ \A s \in Stored : \E i \in 1..n : ks[i] = s
  BY <1>4 DEF Bijection, Injection, Surjection, IsInjective
<1>6. Len(lines) = n
  BY <1>3
<1>7. \A i \in 1..n : lines[i].key = ks[i] /\ lines[i].val = store[ks[i]]
  BY <1>3 DEF PutLine
<1>8. CASE k \in Stored
  <2>1. PICK i \in 1..n : ks[i] = k
    BY <1>5, <1>8
  <2>2. lines[i] = PutLine(k, store[k])
    BY <1>3, <2>1
  <2>3. Touches(lines[i], k) /\ lines[i].val = store[k]
    BY <1>8, <2>2 DEF Touches, PutLine
  <2>4. \A j \in 1..n : Touches(lines[j], k) => j = i
    BY <1>5, <1>7, <2>1 DEF Touches
  <2>5. \A j \in 1..n : j > i => ~Touches(lines[j], k)
    BY <2>4
  <2> QED  BY <1>6, <2>3, <2>5 DEF Recovers, Leaves
<1>9. CASE k \notin Stored
  <2>1. store[k] = NoValue
    BY <1>9 DEF Stored
  <2>2. \A i \in 1..n : ~Touches(lines[i], k)
    BY <1>5, <1>7, <1>9 DEF Touches
  <2> QED  BY <1>6, <2>1, <2>2 DEF Recovers, Leaves
<1> QED  BY <1>8, <1>9

(* compactLog writes what the table holds.                                 *)
LEMMA CompactMirror ==
  ASSUME TypeInv, LinesInv, UpMirror, CompactLog
  PROVE  LinesInv' /\ UpMirror'
<1>1. /\ phase = "up" /\ todo = <<>> /\ batch = <<>>
      /\ localBuffer = <<>> /\ logBuffer = <<>>
  <2>1. phase = "up" /\ pc = "compactLog" /\ ~isOpen
    BY DEF CompactLog, TypeInv, ControlInv
  <2> QED  BY <2>1, ReadyIsBetween DEF TypeInv, ControlInv
<1>2. UNCHANGED <<phase, store, isOpen, localBuffer, logBuffer, todo, batch>>
  BY DEF CompactLog, memory, log, call
<1>3. LinesInv'
  BY <1>1, <1>2, EmptySeq DEF LinesInv
<1>4. CASE UNCHANGED <<aof, unlogged>>
  <2>1. Pipeline' = Pipeline
    BY <1>2, <1>4 DEF Pipeline
  <2> QED  BY <1>1, <1>2, <1>3, <1>4, <2>1, MirrorMoves
<1>5. CASE /\ aof' \in Compacted
           /\ unlogged' = {k \in Stored : ~Readable(PutLine(k, store[k]))}
  <2>1. aof' \in Seq(Line)
    BY <1>5, CompactedType DEF TypeInv
  <2>2. \A a \in Seq(Line) : a \o <<>> \o <<>> \o <<>> = a
    OBVIOUS
  <2>3. Pipeline' = aof'
    BY <1>1, <1>2, <2>1, <2>2, Zenon DEF Pipeline
  <2>4. ASSUME NEW k \in Key \ unlogged', NEW v \in Value \cup {NoValue},
               Leaves(store[k], <<>>, k, v)
        PROVE  Recovers(aof', k, v)
    <3>1. v = store[k]
      BY <2>4, LeavesEmpty
    <3>2. k \notin Stored \/ Readable(PutLine(k, store[k]))
      BY <1>5, <2>4
    <3> QED  BY <1>5, <3>1, <3>2, CompactedMirror DEF TypeInv
  <2> QED  BY <1>1, <1>2, <1>3, <2>3, <2>4 DEF UpMirror
<1> QED  BY <1>4, <1>5 DEF CompactLog

(* A line that is replayed.                                                *)
LEMMA ReplayMirror ==
  ASSUME TypeInv, LoadMirror, ReplayLine
  PROVE  LoadMirror'
<1>1. phase = "loading" /\ aof \in Seq(Line) /\ pos \in 0..Len(aof)
      /\ pos < Len(aof) /\ store \in Content
  BY DEF ReplayLine, TypeInv, TypeOK
<1>2. PICK l \in Line : l = aof[pos + 1]
  <2>1. aof[pos + 1] \in Line
    BY <1>1
  <2> QED  BY <2>1
<1>3. aof' = aof /\ pos' = pos + 1
      /\ store' = IF Readable(l) THEN [store EXCEPT ![l.key] = l.val] ELSE store
  BY <1>2 DEF ReplayLine, files
<1>4. PICK s \in Seq(Line) : s = SubSeq(aof, 1, pos)
  <2>1. SubSeq(aof, 1, pos) \in Seq(Line)
    BY <1>1
  <2> QED  BY <2>1
<1>5. SubSeq(aof, 1, pos + 1) = s \o <<l>>
  BY <1>1, <1>2, <1>4
<1>6. ASSUME NEW k \in Key
      PROVE  Recovers(s \o <<l>>, k, store'[k])
  <2>1. Leaves(NoValue, s, k, store[k])
    BY <1>1, <1>4 DEF LoadMirror, Recovers
  <2>2. Leaves(store[k], <<l>>, k, store'[k])
    <3>1. CASE Touches(l, k)
      <4>1. store'[k] = l.val
        BY <1>1, <1>3, <3>1 DEF Touches, Content
      <4> QED  BY <3>1, <4>1, LeavesLine, Zenon
    <3>2. CASE ~Touches(l, k)
      <4>1. store'[k] = store[k]
        BY <1>1, <1>3, <3>2 DEF Touches, Content
      <4> QED  BY <3>2, <4>1, LeavesLine, Zenon
    <3> QED  BY <3>1, <3>2
  <2>3. <<l>> \in Seq(Line)
    OBVIOUS
  <2> QED  BY <2>1, <2>2, <2>3, LeavesConcat DEF Recovers
<1> QED  BY <1>3, <1>5, <1>6 DEF LoadMirror

(* The load that has replayed the whole file.                              *)
LEMMA EndLoadMirror ==
  ASSUME TypeInv, LoadMirror, EndLoad
  PROVE  LinesInv' /\ UpMirror'
<1>1. /\ phase = "loading" /\ pc = "idle" /\ todo = <<>> /\ batch = <<>>
      /\ localBuffer = <<>> /\ logBuffer = <<>> /\ pos = Len(aof)
      /\ aof \in Seq(Line)
  BY DEF EndLoad, TypeInv, ControlInv, TypeOK
<1>2. UNCHANGED <<store, isOpen, aof, localBuffer, logBuffer, todo, batch>>
      /\ unlogged' = {}
  BY DEF EndLoad, files, memory, log
<1>3. LinesInv'
  BY <1>1, <1>2, EmptySeq DEF LinesInv
<1>4. \A a \in Seq(Line) : a \o <<>> \o <<>> \o <<>> = a /\ SubSeq(a, 1, Len(a)) = a
  OBVIOUS
<1>5. Pipeline' = aof
  BY <1>1, <1>2, <1>4, Zenon DEF Pipeline
<1>6. \A k \in Key : Recovers(aof, k, store[k])
  BY <1>1, <1>4 DEF LoadMirror
<1>7. \A k \in Key, v \in Value \cup {NoValue} :
        Leaves(store[k], <<>>, k, v) => v = store[k]
  BY LeavesEmpty
<1> QED  BY <1>1, <1>2, <1>3, <1>5, <1>6, <1>7 DEF UpMirror

(* The flusher and closeLog move lines along the pipeline.                 *)
LEMMA FlushMoves ==
  ASSUME TypeInv, FlusherSwap \/ FlusherWrite \/ CloseLog
  PROVE  Pipeline' = Pipeline
<1>1. /\ aof \in Seq(Line) /\ localBuffer \in Seq(Line)
      /\ logBuffer \in Seq(Line) /\ todo \in Seq(Line)
  BY DEF TypeInv, TypeOK
<1>2. CASE FlusherSwap
  <2>1. \A a, c, d \in Seq(Line) : a \o c \o <<>> \o d = a \o <<>> \o c \o d
    BY PipelineMoves
  <2>2. Pipeline = aof \o <<>> \o logBuffer \o todo
        /\ Pipeline' = aof \o logBuffer \o <<>> \o todo
    BY <1>2 DEF FlusherSwap, files, call, Pipeline
  <2> QED  BY <1>1, <2>1, <2>2, Zenon
<1>3. CASE FlusherWrite
  <2>1. \A a, b, c, d \in Seq(Line) : (a \o b) \o <<>> \o c \o d = a \o b \o c \o d
    BY PipelineMoves
  <2>2. Pipeline = aof \o localBuffer \o logBuffer \o todo
        /\ Pipeline' = (aof \o localBuffer) \o <<>> \o logBuffer \o todo
    BY <1>3 DEF FlusherWrite, call, Pipeline
  <2>3. \A c, d \in Seq(Line) :
          (aof \o localBuffer) \o <<>> \o c \o d = aof \o localBuffer \o c \o d
    BY <1>1, <2>1, Zenon
  <2> QED  BY <1>1, <2>2, <2>3, Zenon
<1>4. CASE CloseLog
  <2>1. \A a, c, d \in Seq(Line) :
          (a \o c) \o <<>> \o <<>> \o d = a \o <<>> \o c \o d
    BY PipelineMoves
  <2>2. Pipeline = aof \o <<>> \o logBuffer \o todo
        /\ Pipeline' = (aof \o logBuffer) \o <<>> \o <<>> \o todo
    BY <1>4 DEF CloseLog, call, Pipeline
  <2> QED  BY <1>1, <2>1, <2>2, Zenon
<1> QED  BY <1>2, <1>3, <1>4

(* A step that leaves the lines of the command alone.                      *)
LEMMA LinesKept ==
  ASSUME LinesInv, UNCHANGED <<isOpen, todo, batch, unlogged>>
  PROVE  LinesInv'
BY DEF LinesInv

(* Without a running command there are no lines to speak of.               *)
LEMMA LinesGone ==
  ASSUME todo' = <<>>, batch' = <<>>
  PROVE  LinesInv'
BY EmptySeq DEF LinesInv

(* Every step keeps the mirror, one case for each action.                  *)
LEMMA MirrorStep ==
  ASSUME MirrorInv, [Next]_vars
  PROVE  MirrorInv'
<1>0. TypeInv /\ LinesInv /\ UpMirror /\ LoadMirror
  BY DEF MirrorInv
<1> SUFFICES LinesInv' /\ UpMirror' /\ LoadMirror'
  BY <1>0, TypeInvStep DEF MirrorInv
<1>1. CASE Open
  <2>1. \A a \in Seq(Line) : SubSeq(a, 1, 0) = <<>>
    OBVIOUS
  <2>2. /\ aof \in Seq(Line) /\ aof' = aof /\ pos' = 0 /\ store' = NoKeys
        /\ phase' = "loading"
        /\ todo' = <<>> /\ batch' = <<>>
    BY <1>0, <1>1 DEF Open, files, TypeInv, TypeOK, ControlInv
  <2>3. SubSeq(aof', 1, pos') = <<>>
    BY <2>1, <2>2, Zenon
  <2>4. \A k \in Key : Recovers(<<>>, k, NoValue) /\ store'[k] = NoValue
    BY <2>2, LeavesEmpty DEF Recovers, NoKeys
  <2>5. LoadMirror'
    BY <2>3, <2>4 DEF LoadMirror
  <2>6. UpMirror'
    BY <2>2 DEF UpMirror
  <2> QED  BY <2>2, <2>5, <2>6, LinesGone
<1>2. CASE ReplayLine
  <2>1. UNCHANGED <<isOpen, todo, batch, unlogged>> /\ phase' = "loading"
    BY <1>2 DEF ReplayLine, log, history
  <2> QED  BY <1>0, <1>2, <2>1, ReplayMirror, LinesKept DEF UpMirror
<1>3. CASE EndLoad
  BY <1>0, <1>3, EndLoadMirror DEF EndLoad, LoadMirror
<1>4. ASSUME NEW l \in Line, Single(l), store' = [store EXCEPT ![l.key] = l.val]
      PROVE  LinesInv' /\ UpMirror' /\ LoadMirror'
  BY <1>0, <1>4, SingleMirror DEF Single, Ready, LoadMirror
<1>5. ASSUME NEW k \in Key, NEW v \in Value, Put(k, v)
      PROVE  LinesInv' /\ UpMirror' /\ LoadMirror'
  <2>1. store' = [store EXCEPT ![PutLine(k, v).key] = PutLine(k, v).val]
    BY <1>5 DEF Put, DBPut, PutLine
  <2> QED  BY <1>4, <1>5, <2>1, PutLineType DEF Put
<1>6. ASSUME NEW k \in Key, Del(k)
      PROVE  LinesInv' /\ UpMirror' /\ LoadMirror'
  <2>1. store' = [store EXCEPT ![DelLine(k).key] = DelLine(k).val]
    BY <1>6 DEF Del, DBDel, DelLine
  <2> QED  BY <1>4, <1>6, <2>1, DelLineType DEF Del
<1>7. CASE MPut \/ MDel
  <2>1. PICK ls \in Seq(Line) : Multi(ls)
    BY <1>7, MultiLines
  <2> QED  BY <1>0, <2>1, MultiMirror DEF Multi, Ready, LoadMirror
<1>8. CASE ClearData
  BY <1>0, <1>8, ClearMirror DEF ClearData, Ready, LoadMirror
<1>9. CASE AppendCommand
  BY <1>0, <1>9, AppendMirror DEF AppendCommand, LoadMirror, TypeInv, ControlInv
<1>10. CASE ApplyItem
  BY <1>0, <1>10, ApplyMirror DEF ApplyItem, LoadMirror, TypeInv, ControlInv
<1>11. CASE FlusherSwap \/ FlusherWrite
  <2>1. phase = "up" /\ phase' = "up"
        /\ UNCHANGED <<store, isOpen, todo, batch, unlogged>>
    BY <1>11 DEF FlusherSwap, FlusherWrite, memory, call, history
  <2> QED  BY <1>0, <1>11, <2>1, FlushMoves, MirrorMoves, LinesKept
           DEF LoadMirror
<1>12. CASE CloseLog
  <2>1. phase = "up" /\ phase' = "up"
        /\ todo' = <<>> /\ batch' = <<>> /\ UNCHANGED <<store, batch, unlogged>>
    BY <1>0, <1>12 DEF CloseLog, memory, call, TypeInv, ControlInv
  <2> QED  BY <1>0, <1>12, <2>1, FlushMoves, MirrorMoves, LinesGone
           DEF LoadMirror
<1>13. CASE CompactLog
  BY <1>0, <1>13, CompactMirror DEF CompactLog, LoadMirror, TypeInv, ControlInv
<1>14. ASSUME phase = "up", phase' # "loading",
              UNCHANGED <<store, isOpen, aof, localBuffer, logBuffer, todo,
                          batch, unlogged>>
       PROVE  LinesInv' /\ UpMirror' /\ LoadMirror'
  <2>1. Pipeline' = Pipeline
    BY <1>14 DEF Pipeline
  <2> QED  BY <1>0, <1>14, <2>1, LinesKept, MirrorMoves DEF LoadMirror
<1>15. ASSUME NEW who \in {"quit", "server", "db"}, BeginShutdown(who)
       PROVE  LinesInv' /\ UpMirror' /\ LoadMirror'
  BY <1>14, <1>15 DEF BeginShutdown, Ready, memory, files, log, history
<1>16. CASE CompactThrows \/ WriteBinarySnapshot \/ SnapshotFails
  BY <1>0, <1>14, <1>16
  DEF CompactThrows, WriteBinarySnapshot, SnapshotFails, Return, memory, files,
      log, history, TypeInv, ControlInv
<1>17. CASE Crash
  BY <1>17, LinesGone DEF Crash, UpMirror, LoadMirror
<1>18. CASE UNCHANGED vars
  <2>1. UNCHANGED <<phase, store, isOpen, aof, localBuffer, logBuffer, pos, todo,
                    batch, unlogged>>
    BY <1>18 DEF vars, files, log, memory, call, history
  <2>2. Pipeline' = Pipeline
    BY <2>1 DEF Pipeline
  <2> QED  BY <1>0, <2>1, <2>2, LinesKept DEF LoadMirror, UpMirror
<1> QED
  BY <1>1, <1>2, <1>3, <1>5, <1>6, <1>7, <1>8, <1>9, <1>10, <1>11, <1>12,
     <1>13, <1>15, <1>16, <1>17, <1>18
  DEF Next, Load, Command, Execute, Flush, Shutdown

(* A keyspace that was never opened has nothing to mirror.                 *)
LEMMA MirrorInit == Init => MirrorInv
<1> SUFFICES ASSUME Init PROVE MirrorInv
  OBVIOUS
<1>1. TypeInv
  BY TypeInit
<1> QED  BY <1>1, EmptySeq DEF Init, MirrorInv, LinesInv, UpMirror, LoadMirror

(* Between two commands the AOF and the lines behind it give back the      *)
(* store (put, del, mput, mdel and clearData in db.cpp, with appendCommand,*)
(* flushThread, closeLog, loadFromLog and compactLog in log.cpp), whatever *)
(* came before, crashes and restarts included.                             *)
THEOREM MirrorHolds == Spec => []LogMirrorsStore
<1>1. MirrorInv => LogMirrorsStore
  <2> SUFFICES ASSUME MirrorInv, Ready, NEW k \in Key \ unlogged
               PROVE  Recovers(Pipeline, k, store[k])
    BY DEF LogMirrorsStore
  <2>1. phase = "up" /\ batch = <<>> /\ store[k] \in Value \cup {NoValue}
    BY DEF MirrorInv, Ready, TypeInv, TypeOK, ControlInv, Content
  <2>2. Leaves(store[k], batch, k, store[k])
    BY <2>1, LeavesEmpty
  <2> QED  BY <2>1, <2>2 DEF MirrorInv, UpMirror
<1> QED  BY <1>1, MirrorInit, MirrorStep, PTL DEF Spec
-----------------------------------------------------------------------------
(* What Keyspace keeps through crashes and shutdowns: what a restart finds,*)
(* what the snapshot holds, and what the dirty counter says.               *)

(* Whatever the lines say of a key, the key was given it recently.         *)
GivenRecently(ls) ==
  \A k \in Key : \A i \in 1..Len(ls) : Touches(ls[i], k) => ls[i].val \in recent[k]

AofRecent ==
  \A k \in Key, v \in Value \cup {NoValue} : Recovers(aof, k, v) => v \in recent[k]

(* A crash may stop the lines anywhere on their way to the file.           *)
CrashInv ==
  /\ AofRecent
  /\ GivenRecently(localBuffer)
  /\ GivenRecently(logBuffer)
  /\ GivenRecently(todo)
-----------------------------------------------------------------------------
(* No line, nothing given.                                                 *)
LEMMA EmptyGiven == GivenRecently(<<>>) /\ GivenRecently(<<>>)'
BY EmptySeq DEF GivenRecently

(* A step that only adds to what was given recently.                       *)
LEMMA GivenGrows ==
  ASSUME NEW ls, GivenRecently(ls), \A k \in Key : recent[k] \subseteq recent'[k]
  PROVE  \A k \in Key : \A i \in 1..Len(ls) : Touches(ls[i], k) => ls[i].val \in recent'[k]
BY DEF GivenRecently

(* An AOF stays recent while more values become recent.                    *)
LEMMA AofGrows ==
  ASSUME AofRecent, aof' = aof, \A k \in Key : recent[k] \subseteq recent'[k]
  PROVE  AofRecent'
BY DEF AofRecent

(* Lines that reach the file bring no value that was not given recently.   *)
LEMMA WrittenRecent ==
  ASSUME TypeOK, AofRecent, NEW s \in Seq(Line), GivenRecently(s),
         NEW k \in Key, NEW v \in Value \cup {NoValue}, Recovers(aof \o s, k, v)
  PROVE  v \in recent[k]
<1>1. aof \in Seq(Line)
  BY DEF TypeOK
<1>2. \/ Leaves(NoValue, aof, k, v)
      \/ \E i \in 1..Len(s) : Touches(s[i], k) /\ s[i].val = v
  BY <1>1, LeavesOldOrNew DEF Recovers
<1> QED  BY <1>2 DEF AofRecent, GivenRecently, Recovers

(* When all lines are in the file, it recovers what the store holds.       *)
LEMMA WrittenIsStore ==
  ASSUME TypeInv, UpMirror, phase = "up", batch = <<>>,
         NEW k \in Key \ unlogged, NEW v \in Value \cup {NoValue},
         Pipeline \in Seq(Line), Recovers(Pipeline, k, v)
  PROVE  v = store[k]
<1>1. store[k] \in Value \cup {NoValue}
  BY DEF TypeInv, TypeOK, Content
<1>2. Recovers(Pipeline, k, store[k])
  BY <1>1, LeavesEmpty DEF UpMirror
<1> QED  BY <1>2, LeavesOneValue DEF Recovers

(* The lines of a command join what was given recently.                    *)
LEMMA RememberRecent ==
  ASSUME TypeOK, NEW ls \in Seq(Line), NEW logged, Remember(ls, logged)
  PROVE  /\ \A k \in Key : recent[k] \subseteq recent'[k]
         /\ \A k \in Key : \A i \in 1..Len(ls) :
              Touches(ls[i], k) => ls[i].val \in recent'[k]
BY DEF Remember, Touches, TypeOK

(* A command makes its values recent before a line of it can be written.   *)
LEMMA CommandCrash ==
  ASSUME TypeOK, CrashInv, NEW ls \in Seq(Line), NEW logged, Remember(ls, logged),
         UNCHANGED <<aof, localBuffer, logBuffer>>, todo' \in {todo, ls}
  PROVE  CrashInv'
<1>1. /\ \A k \in Key : recent[k] \subseteq recent'[k]
      /\ \A k \in Key : \A i \in 1..Len(ls) :
           Touches(ls[i], k) => ls[i].val \in recent'[k]
  BY RememberRecent
<1>2. AofRecent'
  BY <1>1, AofGrows DEF CrashInv
<1>3. GivenRecently(localBuffer)' /\ GivenRecently(logBuffer)'
  BY <1>1, GivenGrows DEF CrashInv, GivenRecently
<1>4. GivenRecently(todo)'
  <2>1. CASE todo' = todo
    BY <1>1, <2>1, GivenGrows DEF CrashInv, GivenRecently
  <2>2. CASE todo' = ls
    BY <1>1, <2>2 DEF GivenRecently
  <2> QED  BY <2>1, <2>2
<1> QED  BY <1>2, <1>3, <1>4 DEF CrashInv

(* appendCommand: the line goes to the buffer, or nowhere.                 *)
LEMMA AppendCrash ==
  ASSUME TypeInv, CrashInv, AppendCommand
  PROVE  CrashInv'
<1>1. todo \in Seq(Line) /\ todo # <<>> /\ logBuffer \in Seq(Line)
  BY DEF AppendCommand, TypeInv, ControlInv, TypeOK
<1>2. UNCHANGED <<aof, localBuffer, recent>> /\ todo' = Tail(todo)
      /\ logBuffer' = IF isOpen THEN Append(logBuffer, Head(todo)) ELSE logBuffer
  BY DEF AppendCommand, files, history
<1>3. /\ 1 \in 1..Len(todo) /\ Head(todo) = todo[1]
      /\ \A i \in 1..Len(Tail(todo)) :
           i + 1 \in 1..Len(todo) /\ Tail(todo)[i] = todo[i + 1]
  BY <1>1
<1>4. PICK l \in Line : l = Head(todo)
  BY <1>1, TailNonEmpty
<1>5. \A i \in 1..Len(Append(logBuffer, l)) :
         \/ i \in 1..Len(logBuffer) /\ Append(logBuffer, l)[i] = logBuffer[i]
         \/ Append(logBuffer, l)[i] = l
  BY <1>1
<1>6. GivenRecently(todo)'
  BY <1>2, <1>3 DEF CrashInv, GivenRecently
<1>7. GivenRecently(logBuffer)'
  <2>1. CASE isOpen
    <3>1. \A k \in Key : Touches(l, k) => l.val \in recent[k]
      BY <1>3, <1>4 DEF CrashInv, GivenRecently
    <3> QED  BY <1>2, <1>4, <1>5, <2>1, <3>1 DEF CrashInv, GivenRecently
  <2>2. CASE ~isOpen
    BY <1>2, <2>2 DEF CrashInv, GivenRecently
  <2> QED  BY <2>1, <2>2
<1> QED  BY <1>2, <1>6, <1>7 DEF CrashInv, AofRecent, GivenRecently

(* A write that Settle follows: of the keys it settles, the file holds     *)
(* every line.                                                             *)
LEMMA SettleCrash ==
  ASSUME TypeInv, UpMirror, CrashInv, phase = "up", batch = <<>>,
         NEW s \in Seq(Line), GivenRecently(s), aof' = aof \o s,
         Pipeline = aof \o s, Settle(TRUE)
  PROVE  AofRecent'
<1>1. aof \o s \in Seq(Line) /\ aof \in Seq(Line)
  BY DEF TypeInv, TypeOK
<1> SUFFICES ASSUME NEW k \in Key, NEW v \in Value \cup {NoValue},
                    Recovers(aof \o s, k, v)
             PROVE  v \in recent'[k]
  BY DEF AofRecent
<1>2. CASE k \in unlogged
  BY <1>2, WrittenRecent DEF Settle, CrashInv, TypeInv
<1>3. CASE k \notin unlogged
  BY <1>1, <1>3, WrittenIsStore DEF Settle
<1> QED  BY <1>2, <1>3

(* The flusher.                                                            *)
LEMMA WriteCrash ==
  ASSUME TypeInv, UpMirror, CrashInv, FlusherWrite
  PROVE  CrashInv'
<1>1. aof \in Seq(Line) /\ localBuffer \in Seq(Line) /\ phase = "up"
  BY DEF FlusherWrite, TypeInv, TypeOK
<1>2. aof' = aof \o localBuffer /\ localBuffer' = <<>>
      /\ UNCHANGED <<logBuffer, todo>>
      /\ Settle(logBuffer = <<>> /\ todo = <<>> /\ batch = <<>>)
  BY DEF FlusherWrite, call
<1>3. GivenRecently(localBuffer)'
  BY <1>2, EmptyGiven DEF GivenRecently
<1>4. CASE logBuffer = <<>> /\ todo = <<>> /\ batch = <<>>
  <2>1. \A a, b \in Seq(Line) : a \o b \o <<>> \o <<>> = a \o b
    OBVIOUS
  <2>2. Pipeline = aof \o localBuffer
    BY <1>1, <1>4, <2>1, Zenon DEF Pipeline
  <2>3. Settle(TRUE)
    BY <1>2, <1>4 DEF Settle
  <2>4. AofRecent'
    BY <1>1, <1>2, <1>4, <2>2, <2>3, SettleCrash DEF CrashInv
  <2> QED  BY <1>2, <1>3, <1>4, <2>4, EmptyGiven DEF CrashInv, GivenRecently
<1>5. CASE ~(logBuffer = <<>> /\ todo = <<>> /\ batch = <<>>)
  <2>1. \A k \in Key : recent'[k] = recent[k]
    BY <1>2, <1>5 DEF Settle
  <2>2. AofRecent'
    BY <1>1, <1>2, <2>1, WrittenRecent DEF AofRecent, CrashInv, TypeInv
  <2> QED  BY <1>2, <1>3, <2>1, <2>2 DEF CrashInv, GivenRecently
<1> QED  BY <1>4, <1>5

(* closeLog.                                                               *)
LEMMA CloseCrash ==
  ASSUME TypeInv, UpMirror, CrashInv, CloseLog
  PROVE  CrashInv'
<1>1. /\ phase = "up" /\ batch = <<>> /\ todo = <<>> /\ localBuffer = <<>>
      /\ aof \in Seq(Line) /\ logBuffer \in Seq(Line)
  BY DEF CloseLog, TypeInv, ControlInv, TypeOK
<1>2. aof' = aof \o logBuffer /\ logBuffer' = <<>>
      /\ UNCHANGED <<localBuffer, todo>> /\ Settle(TRUE)
  BY DEF CloseLog, call
<1>3. \A a, b \in Seq(Line) : a \o <<>> \o b \o <<>> = a \o b
  OBVIOUS
<1>4. Pipeline = aof \o logBuffer
  BY <1>1, <1>3, Zenon DEF Pipeline
<1>5. AofRecent'
  BY <1>1, <1>2, <1>4, SettleCrash DEF CrashInv
<1> QED  BY <1>1, <1>2, <1>5, EmptyGiven DEF CrashInv, GivenRecently

(* A key whose line could not be read back is gone after the compaction.   *)
LEMMA CompactedUnread ==
  ASSUME TypeOK, NEW lines \in Compacted, NEW k \in Stored,
         ~Readable(PutLine(k, store[k])), NEW v, Recovers(lines, k, v)
  PROVE  v = NoValue
<1>1. PICK n \in Nat : n = Cardinality(Stored)
  BY KeyAssumption, FS_Subset, FS_CardinalityType DEF Stored
<1>2. PICK ks \in Orders(Stored) :
        lines = [i \in 1..n |-> PutLine(ks[i], store[ks[i]])]
  BY <1>1 DEF Compacted
<1>3. Len(lines) = n /\ \A i \in 1..n : lines[i] = PutLine(ks[i], store[ks[i]])
  BY <1>2
<1>4. \A i \in 1..n : ~Touches(lines[i], k)
  <2> SUFFICES ASSUME NEW i \in 1..n, Touches(lines[i], k) PROVE FALSE
    OBVIOUS
  <2>1. ks[i] = k
    BY <1>3 DEF Touches, PutLine
  <2> QED  BY <1>3, <2>1 DEF Touches
<1> QED  BY <1>3, <1>4 DEF Recovers, Leaves

(* The compacted AOF gives the table, and the table is recent.             *)
LEMMA CompactCrash ==
  ASSUME TypeInv, CrashInv, CompactLog
  PROVE  CrashInv'
<1>1. localBuffer = <<>> /\ logBuffer = <<>> /\ todo = <<>>
  BY DEF CompactLog, TypeInv, ControlInv
<1>2. UNCHANGED <<localBuffer, logBuffer, todo>>
  BY DEF CompactLog, log, call
<1>3. GivenRecently(localBuffer)' /\ GivenRecently(logBuffer)' /\ GivenRecently(todo)'
  BY <1>1, <1>2, EmptyGiven DEF GivenRecently
<1>4. CASE UNCHANGED <<aof, unlogged, recent>>
  BY <1>3, <1>4 DEF CrashInv, AofRecent
<1>5. CASE /\ aof' \in Compacted
           /\ unlogged' = {k \in Stored : ~Readable(PutLine(k, store[k]))}
           /\ recent' = [k \in Key |-> IF k \in unlogged'
                                       THEN {store[k], NoValue} ELSE {store[k]}]
  <2> SUFFICES ASSUME NEW k \in Key, NEW v \in Value \cup {NoValue},
                      Recovers(aof', k, v)
               PROVE  v \in recent'[k]
    BY <1>3 DEF CrashInv, AofRecent
  <2>1. CASE k \in unlogged'
    BY <1>5, <2>1, CompactedUnread DEF TypeInv
  <2>2. CASE k \notin unlogged'
    <3>1. Recovers(aof', k, store[k]) /\ aof' \in Seq(Line)
      BY <1>5, <2>2, CompactedMirror, CompactedType DEF TypeInv
    <3>2. v = store[k]
      BY <3>1, LeavesOneValue DEF Recovers
    <3> QED  BY <1>5, <2>2, <3>2
  <2> QED  BY <2>1, <2>2
<1> QED  BY <1>4, <1>5 DEF CompactLog

(* clearData: a buffered line keeps what was given to its key.             *)
LEMMA ClearCrash ==
  ASSUME TypeInv, CrashInv, ClearData
  PROVE  CrashInv'
<1>1. /\ todo = <<>> /\ localBuffer \in Seq(Line) /\ logBuffer \in Seq(Line)
  BY ReadyIsBetween DEF ClearData, Ready, TypeInv, TypeOK
<1>2. /\ aof' = <<>> /\ UNCHANGED <<localBuffer, logBuffer, todo>>
      /\ recent' = [k \in Key |-> IF Mentions(localBuffer \o logBuffer, k)
                                  THEN recent[k] \cup {NoValue} ELSE {NoValue}]
  BY DEF ClearData, log, call
<1>3. AofRecent'
  <2>1. \A k \in Key, v \in Value \cup {NoValue} :
          Recovers(<<>>, k, v) => v = NoValue
    BY LeavesEmpty DEF Recovers
  <2> QED  BY <1>2, <2>1 DEF AofRecent
<1>4. ASSUME NEW k \in Key
      PROVE  /\ \A i \in 1..Len(localBuffer) : Touches(localBuffer[i], k) =>
                  Mentions(localBuffer \o logBuffer, k)
             /\ \A i \in 1..Len(logBuffer) : Touches(logBuffer[i], k) =>
                  Mentions(localBuffer \o logBuffer, k)
  <2>1. ASSUME NEW i \in 1..Len(localBuffer), Touches(localBuffer[i], k)
        PROVE  Mentions(localBuffer \o logBuffer, k)
    <3>1. i \in 1..Len(localBuffer \o logBuffer)
          /\ (localBuffer \o logBuffer)[i] = localBuffer[i]
      BY <1>1, ConcatIndices
    <3> QED  BY <2>1, <3>1 DEF Mentions, Touches
  <2>2. ASSUME NEW i \in 1..Len(logBuffer), Touches(logBuffer[i], k)
        PROVE  Mentions(localBuffer \o logBuffer, k)
    <3>1. Len(localBuffer) + i \in 1..Len(localBuffer \o logBuffer)
          /\ (localBuffer \o logBuffer)[Len(localBuffer) + i] = logBuffer[i]
      BY <1>1, ConcatIndices
    <3> QED  BY <2>2, <3>1 DEF Mentions, Touches
  <2> QED  BY <2>1, <2>2
<1>5. GivenRecently(localBuffer)' /\ GivenRecently(logBuffer)'
  BY <1>2, <1>4 DEF CrashInv, GivenRecently
<1> QED  BY <1>1, <1>2, <1>3, <1>5, EmptyGiven DEF CrashInv, GivenRecently

(* The load is over: the store is what the file recovers.                  *)
LEMMA EndLoadCrash ==
  ASSUME TypeInv, LoadMirror, EndLoad
  PROVE  CrashInv'
<1>1. /\ phase = "loading" /\ pos = Len(aof) /\ aof \in Seq(Line)
      /\ todo = <<>> /\ localBuffer = <<>> /\ logBuffer = <<>>
  BY DEF EndLoad, TypeInv, ControlInv, TypeOK
<1>2. /\ UNCHANGED <<aof, localBuffer, logBuffer, todo>>
      /\ recent' = [k \in Key |-> {store[k]}]
  BY DEF EndLoad, files, log
<1>3. SubSeq(aof, 1, Len(aof)) = aof
  BY <1>1
<1>4. \A k \in Key : Recovers(aof, k, store[k])
  BY <1>1, <1>3 DEF LoadMirror
<1>5. AofRecent'
  BY <1>1, <1>2, <1>4, LeavesOneValue DEF AofRecent, Recovers
<1> QED  BY <1>1, <1>2, <1>5, EmptyGiven DEF CrashInv, GivenRecently

(* The process is killed while lines are on their way to the file.         *)
LEMMA KilledCrash ==
  ASSUME TypeInv, CrashInv, Crash
  PROVE  CrashInv'
<1>1. PICK w \in {localBuffer, logBuffer} : \E n \in 0..Len(w) :
        aof' = aof \o SubSeq(w, 1, n)
  BY DEF Crash
<1>2. PICK n \in 0..Len(w) : aof' = aof \o SubSeq(w, 1, n)
  BY <1>1
<1>3. w \in Seq(Line) /\ GivenRecently(w)
  BY DEF TypeInv, TypeOK, CrashInv
<1>4. SubSeq(w, 1, n) \in Seq(Line)
      /\ \A i \in 1..Len(SubSeq(w, 1, n)) :
           i \in 1..Len(w) /\ SubSeq(w, 1, n)[i] = w[i]
  BY <1>3
<1>5. GivenRecently(SubSeq(w, 1, n))
  BY <1>3, <1>4 DEF GivenRecently
<1>6. AofRecent'
  BY <1>2, <1>4, <1>5, WrittenRecent DEF Crash, CrashInv, AofRecent, TypeInv
<1>7. localBuffer' = <<>> /\ logBuffer' = <<>> /\ todo' = <<>>
  BY DEF Crash
<1> QED  BY <1>6, <1>7, EmptyGiven DEF CrashInv, GivenRecently

RecoveryInv == MirrorInv /\ CrashInv

(* Every step keeps it, one case for each action.                          *)
LEMMA RecoveryStep ==
  ASSUME RecoveryInv, [Next]_vars
  PROVE  RecoveryInv'
<1>0. TypeInv /\ TypeOK /\ LinesInv /\ UpMirror /\ LoadMirror /\ CrashInv
  BY DEF RecoveryInv, MirrorInv, TypeInv
<1> SUFFICES CrashInv'
  BY MirrorStep DEF RecoveryInv
<1>1. ASSUME UNCHANGED <<aof, localBuffer, logBuffer, todo, recent>>
      PROVE  CrashInv'
  BY <1>0, <1>1 DEF CrashInv, AofRecent, GivenRecently
<1>2. CASE Open \/ ReplayLine \/ ApplyItem
  BY <1>1, <1>2 DEF Open, ReplayLine, ApplyItem, files, log, history
<1>3. CASE EndLoad
  BY <1>0, <1>3, EndLoadCrash
<1>4. ASSUME NEW l \in Line, Single(l)
      PROVE  CrashInv'
  <2>1. <<l>> \in Seq(Line) /\ Remember(<<l>>, ~replaying)
        /\ UNCHANGED <<aof, localBuffer, logBuffer>> /\ todo' \in {todo, <<l>>}
    BY <1>4 DEF Single, files, log
  <2> QED  BY <1>0, <2>1, CommandCrash
<1>5. ASSUME NEW k \in Key, NEW v \in Value, Put(k, v)
      PROVE  CrashInv'
  BY <1>4, <1>5, PutLineType DEF Put
<1>6. ASSUME NEW k \in Key, Del(k)
      PROVE  CrashInv'
  BY <1>4, <1>6, DelLineType DEF Del
<1>7. CASE MPut \/ MDel
  <2>1. PICK ls \in Seq(Line) : Multi(ls)
    BY <1>7, MultiLines
  <2>2. Remember(ls, TRUE) /\ UNCHANGED <<aof, localBuffer, logBuffer>>
        /\ todo' \in {todo, ls}
    BY <2>1 DEF Multi, files, log
  <2> QED  BY <1>0, <2>2, CommandCrash
<1>8. CASE ClearData
  BY <1>0, <1>8, ClearCrash
<1>9. CASE AppendCommand
  BY <1>0, <1>9, AppendCrash
<1>10. CASE FlusherSwap
  <2>1. /\ localBuffer' = logBuffer /\ logBuffer' = <<>>
        /\ UNCHANGED <<aof, todo, recent>>
    BY <1>10 DEF FlusherSwap, files, call, history
  <2> QED  BY <1>0, <2>1, EmptyGiven DEF CrashInv, AofRecent, GivenRecently
<1>11. CASE FlusherWrite
  BY <1>0, <1>11, WriteCrash
<1>12. ASSUME NEW who \in {"quit", "server", "db"}, BeginShutdown(who)
       PROVE  CrashInv'
  BY <1>1, <1>12 DEF BeginShutdown, files, log, history
<1>13. CASE CloseLog
  BY <1>0, <1>13, CloseCrash
<1>14. CASE CompactLog
  BY <1>0, <1>14, CompactCrash
<1>15. CASE CompactThrows \/ WriteBinarySnapshot \/ SnapshotFails
  BY <1>1, <1>15
  DEF CompactThrows, WriteBinarySnapshot, SnapshotFails, files, log, history
<1>16. CASE Crash
  BY <1>0, <1>16, KilledCrash
<1>17. CASE UNCHANGED vars
  BY <1>1, <1>17 DEF vars, files, log, call, history
<1> QED
  BY <1>2, <1>3, <1>5, <1>6, <1>7, <1>8, <1>9, <1>10, <1>11, <1>12, <1>13,
     <1>14, <1>15, <1>16, <1>17
  DEF Next, Load, Command, Execute, Flush, Shutdown

(* It holds before the first load.                                         *)
LEMMA RecoveryInit == Init => RecoveryInv
<1> SUFFICES ASSUME Init PROVE RecoveryInv
  OBVIOUS
<1>1. MirrorInv
  BY MirrorInit
<1>2. CrashInv
  <2>1. AofRecent
    BY LeavesEmpty DEF Init, AofRecent, Recovers
  <2> QED  BY <2>1, EmptyGiven DEF Init, CrashInv
<1> QED  BY <1>1, <1>2 DEF RecoveryInv

(* After a crash at any step of a command, of the flusher or of shutdown,  *)
(* and after any orderly exit, loadFromLog gives every key a value that it *)
(* was given since the AOF last agreed with the store about it, an empty   *)
(* token and a cleared key included.                                       *)
THEOREM RestartFindsRecent == Spec => []RestartRestoresRecent
<1>1. RecoveryInv => RestartRestoresRecent
  <2> SUFFICES ASSUME RecoveryInv, phase = "loading", pos = Len(aof), NEW k \in Key
               PROVE  store[k] \in recent[k]
    BY DEF RestartRestoresRecent
  <2>1. aof \in Seq(Line) /\ store[k] \in Value \cup {NoValue}
    BY DEF RecoveryInv, MirrorInv, TypeInv, TypeOK, Content
  <2>2. SubSeq(aof, 1, Len(aof)) = aof
    BY <2>1
  <2>3. Recovers(aof, k, store[k])
    BY <2>2 DEF RecoveryInv, MirrorInv, LoadMirror
  <2> QED  BY <2>1, <2>3 DEF RecoveryInv, CrashInv, AofRecent
<1> QED  BY <1>1, RecoveryInit, RecoveryStep, PTL DEF Spec
-----------------------------------------------------------------------------
(* The snapshot is fresh while nothing happens after the shutdown that     *)
(* wrote it: the log is closed, nothing is on its way to the file, and the *)
(* file recovers what the snapshot holds.                                  *)
FreshInv ==
  fresh =>
    /\ phase \in {"off", "up"} /\ ~isOpen
    /\ todo = <<>> /\ batch = <<>> /\ localBuffer = <<>> /\ logBuffer = <<>>
    /\ snapshot = store
    /\ \A k \in Key \ unlogged : Recovers(aof, k, store[k])

(* With the log closed and no command in progress, the file is all there   *)
(* is of the pipeline.                                                     *)
LEMMA ClosedMirror ==
  ASSUME TypeInv, UpMirror, phase = "up", ~isOpen, todo = <<>>, batch = <<>>
  PROVE  \A k \in Key \ unlogged : Recovers(aof, k, store[k])
<1>1. localBuffer = <<>> /\ logBuffer = <<>> /\ aof \in Seq(Line)
  BY DEF TypeInv, TypeOK, ControlInv
<1>2. \A a \in Seq(Line) : a \o <<>> \o <<>> \o <<>> = a
  OBVIOUS
<1>3. Pipeline = aof
  BY <1>1, <1>2, Zenon DEF Pipeline
<1>4. \A k \in Key : store[k] \in Value \cup {NoValue}
  BY DEF TypeInv, TypeOK, Content
<1> QED  BY <1>3, <1>4, LeavesEmpty DEF UpMirror

(* writeBinarySnapshot.                                                    *)
LEMMA SnapshotFresh ==
  ASSUME TypeInv, UpMirror, WriteBinarySnapshot
  PROVE  FreshInv'
<1>1. /\ phase = "up" /\ ~isOpen /\ todo = <<>> /\ batch = <<>>
      /\ localBuffer = <<>> /\ logBuffer = <<>>
  BY DEF WriteBinarySnapshot, TypeInv, ControlInv
<1>2. phase' \in {"off", "up"} /\ snapshot' = store
      /\ UNCHANGED <<store, isOpen, todo, batch, localBuffer, logBuffer, aof,
                     unlogged>>
  BY <1>1 DEF WriteBinarySnapshot, Return, memory, log
<1>3. \A k \in Key \ unlogged : Recovers(aof, k, store[k])
  BY <1>1, ClosedMirror
<1> QED  BY <1>1, <1>2, <1>3 DEF FreshInv

(* A second shutdown closes and compacts what the first has left.          *)
LEMMA CloseFresh ==
  ASSUME TypeInv, FreshInv, CloseLog
  PROVE  FreshInv'
<1> SUFFICES ASSUME fresh' PROVE FreshInv'
  BY DEF FreshInv
<1>1. fresh /\ logBuffer = <<>> /\ aof \in Seq(Line)
  BY DEF CloseLog, FreshInv, TypeInv, TypeOK
<1>2. \A a \in Seq(Line) : a \o <<>> = a
  OBVIOUS
<1>3. aof' = aof
  BY <1>1, <1>2 DEF CloseLog
<1>4. /\ UNCHANGED <<phase, todo, batch, localBuffer, snapshot, store, unlogged>>
      /\ ~isOpen' /\ logBuffer' = <<>>
  BY DEF CloseLog, memory, call
<1> QED  BY <1>1, <1>3, <1>4 DEF FreshInv

(* A second shutdown compacts once more: the AOF still gives the table     *)
(* that the snapshot holds.                                                *)
LEMMA CompactFresh ==
  ASSUME TypeInv, FreshInv, CompactLog
  PROVE  FreshInv'
<1> SUFFICES ASSUME fresh' PROVE FreshInv'
  BY DEF FreshInv
<1>1. fresh /\ UNCHANGED <<phase, isOpen, todo, batch, localBuffer, logBuffer,
                           snapshot, store>>
  BY DEF CompactLog, memory, log, call
<1>2. \A k \in Key \ unlogged' : Recovers(aof', k, store[k])
  <2>1. CASE UNCHANGED <<aof, unlogged>>
    BY <1>1, <2>1 DEF FreshInv
  <2>2. CASE /\ aof' \in Compacted
             /\ unlogged' = {k \in Stored : ~Readable(PutLine(k, store[k]))}
    BY <2>2, CompactedMirror DEF TypeInv
  <2> QED  BY <2>1, <2>2 DEF CompactLog
<1> QED  BY <1>1, <1>2 DEF FreshInv

(* Every step keeps it.                                                    *)
LEMMA FreshStep ==
  ASSUME MirrorInv, FreshInv, [Next]_vars
  PROVE  FreshInv'
<1>0. TypeInv /\ ControlInv /\ UpMirror
  BY DEF MirrorInv, TypeInv
<1>1. ASSUME ~fresh'
      PROVE  FreshInv'
  BY <1>1 DEF FreshInv
<1>2. ASSUME phase' \in {phase, "off", "up"},
             UNCHANGED <<fresh, isOpen, todo, batch, localBuffer, logBuffer,
                         snapshot, store, aof, unlogged>>
      PROVE  FreshInv'
  BY <1>2 DEF FreshInv
<1>3. CASE Open \/ Crash \/ ClearData
  BY <1>1, <1>3 DEF Open, Crash, ClearData
<1>4. CASE ReplayLine \/ EndLoad
  BY <1>1, <1>4 DEF ReplayLine, EndLoad, FreshInv, history
<1>5. ASSUME NEW l \in Line, Single(l)
      PROVE  FreshInv'
  BY <1>1, <1>5 DEF Single, Remember
<1>6. ASSUME NEW k \in Key, NEW v \in Value, Put(k, v)
      PROVE  FreshInv'
  BY <1>5, <1>6, PutLineType DEF Put
<1>7. ASSUME NEW k \in Key, Del(k)
      PROVE  FreshInv'
  BY <1>5, <1>7, DelLineType DEF Del
<1>8. CASE MPut \/ MDel
  <2>1. PICK ls \in Seq(Line) : Multi(ls)
    BY <1>8, MultiLines
  <2> QED  BY <1>1, <2>1 DEF Multi, Remember
<1>9. CASE AppendCommand \/ ApplyItem
  BY <1>0, <1>1, <1>9 DEF AppendCommand, ApplyItem, FreshInv, ControlInv, history
<1>10. CASE FlusherSwap \/ FlusherWrite
  BY <1>1, <1>10 DEF FlusherSwap, FlusherWrite, FreshInv, history
<1>11. ASSUME NEW who \in {"quit", "server", "db"}, BeginShutdown(who)
       PROVE  FreshInv'
  BY <1>2, <1>11 DEF BeginShutdown, memory, files, log, history
<1>12. CASE CloseLog
  BY <1>0, <1>12, CloseFresh
<1>13. CASE CompactLog
  BY <1>0, <1>13, CompactFresh
<1>14. CASE CompactThrows \/ SnapshotFails
  BY <1>2, <1>14
  DEF CompactThrows, SnapshotFails, Return, memory, files, log, history
<1>15. CASE WriteBinarySnapshot
  BY <1>0, <1>15, SnapshotFresh
<1>16. CASE UNCHANGED vars
  BY <1>2, <1>16 DEF vars, files, log, memory, call, history
<1> QED
  BY <1>3, <1>4, <1>6, <1>7, <1>8, <1>9, <1>10, <1>11, <1>12, <1>13, <1>14,
     <1>15, <1>16
  DEF Next, Load, Command, Execute, Flush, Shutdown

(* The AOF that a shutdown leaves (closeLog, compactLog) recovers what the *)
(* .db file holds that it wrote (writeBinarySnapshot), after one shutdown  *)
(* or several: quit and both destructors call it.                          *)
THEOREM FilesAgree == Spec => []SnapshotAgreesWithAof
<1>1. Init => FreshInv
  BY DEF Init, FreshInv
<1>2. FreshInv => SnapshotAgreesWithAof
  BY DEF FreshInv, SnapshotAgreesWithAof
<1> QED  BY <1>1, <1>2, MirrorInit, MirrorStep, FreshStep, PTL DEF Spec
-----------------------------------------------------------------------------
(* Deletions of keys that are not there: the only changes that dirty does  *)
(* not count while replaying is false.                                     *)
Idle(ls) == \A i \in 1..Len(ls) : ls[i].val = NoValue /\ store[ls[i].key] = NoValue

(* dirty is zero, and will be when the command in progress is over.        *)
Quiet == phase = "up" /\ ~dirty /\ ~replaying /\ Idle(batch)

Accepted == aof \o localBuffer \o logBuffer

QuietInv ==
  Quiet =>
    /\ \A k \in Key : Recovers(Accepted, k, store[k])
    /\ \A k \in Key : Recovers(localBuffer \o logBuffer, k, NoValue)
    /\ Idle(todo)

(* A step that changes neither what was accepted nor the store.            *)
LEMMA QuietMoves ==
  ASSUME QuietInv, Quiet, Accepted' = Accepted, UNCHANGED <<store, todo>>,
         \A k \in Key : Recovers(localBuffer \o logBuffer, k, NoValue)
                          => Recovers(localBuffer' \o logBuffer', k, NoValue)
  PROVE  QuietInv'
BY DEF QuietInv, Idle

(* The load has left in the store what the file recovers.                  *)
LEMMA EndLoadQuiet ==
  ASSUME TypeInv, LoadMirror, EndLoad
  PROVE  QuietInv'
<1>1. /\ phase = "loading" /\ pos = Len(aof) /\ aof \in Seq(Line)
      /\ todo = <<>> /\ localBuffer = <<>> /\ logBuffer = <<>>
  BY DEF EndLoad, TypeInv, ControlInv, TypeOK
<1>2. UNCHANGED <<aof, localBuffer, logBuffer, todo, store>>
  BY DEF EndLoad, files, log, memory
<1>3. \A a \in Seq(Line) : SubSeq(a, 1, Len(a)) = a /\ a \o <<>> \o <<>> = a
  OBVIOUS
<1>4. \A k \in Key : Recovers(aof, k, store[k])
  BY <1>1, <1>3 DEF LoadMirror
<1>5. Accepted' = aof
  BY <1>1, <1>2, <1>3, Zenon DEF Accepted
<1>6. localBuffer' \o logBuffer' = <<>>
  BY <1>1, <1>2
<1>7. \A k \in Key : Recovers(<<>>, k, NoValue)
  BY LeavesEmpty DEF Recovers
<1>8. Idle(todo)'
  BY <1>1, <1>2, EmptySeq DEF Idle
<1> QED  BY <1>2, <1>4, <1>5, <1>6, <1>7, <1>8 DEF QuietInv

(* put counts, and so does a del that changes the store.                   *)
LEMMA SingleQuiet ==
  ASSUME TypeInv, QuietInv, NEW k \in Key, Del(k), Quiet'
  PROVE  QuietInv'
<1>1. /\ phase = "up" /\ batch = <<>> /\ todo = <<>> /\ store \in Content
  BY ReadyIsBetween DEF Del, Single, Ready, TypeInv, TypeOK
<1>2. ~dirty /\ ~replaying /\ store[k] = NoValue
  BY DEF Del, DBDel, Quiet
<1>3. store' = store
  BY <1>1, <1>2 DEF Del, DBDel, Content
<1>4. Quiet
  BY <1>1, <1>2, EmptySeq DEF Quiet, Idle
<1>5. UNCHANGED <<aof, localBuffer, logBuffer>> /\ todo' = <<DelLine(k)>>
  BY <1>2 DEF Del, Single, files, log
<1>6. Idle(todo)'
  BY <1>2, <1>3, <1>5 DEF Idle, DelLine
<1> QED  BY <1>3, <1>4, <1>5, <1>6 DEF QuietInv, Accepted

(* mput and mdel: the lines are idle when their changes will be.           *)
LEMMA MultiQuiet ==
  ASSUME TypeInv, QuietInv, NEW ls \in Seq(Line), Multi(ls), Quiet'
  PROVE  QuietInv'
<1>1. phase = "up" /\ batch = <<>>
  BY ReadyIsBetween DEF Multi, Ready
<1>2. /\ UNCHANGED <<aof, localBuffer, logBuffer, store, dirty, replaying>>
      /\ todo' = ls /\ batch' = ls
  BY DEF Multi, files, log, memory
<1>3. Quiet
  BY <1>1, <1>2, EmptySeq DEF Quiet, Idle
<1>4. Idle(todo)'
  BY <1>2 DEF Quiet, Idle
<1> QED  BY <1>2, <1>3, <1>4 DEF QuietInv, Accepted

(* The line of an idle deletion joins the buffer, or is refused: neither   *)
(* changes what is recovered.                                              *)
LEMMA AppendQuiet ==
  ASSUME TypeInv, QuietInv, AppendCommand, Quiet'
  PROVE  QuietInv'
<1>1. /\ todo \in Seq(Line) /\ todo # <<>> /\ aof \in Seq(Line)
      /\ localBuffer \in Seq(Line) /\ logBuffer \in Seq(Line)
  BY DEF AppendCommand, TypeInv, ControlInv, TypeOK
<1>2. /\ UNCHANGED <<phase, aof, localBuffer, store, dirty, replaying, batch>>
      /\ todo' = Tail(todo)
      /\ logBuffer' = IF isOpen THEN Append(logBuffer, Head(todo)) ELSE logBuffer
  BY DEF AppendCommand, files, memory
<1>3. Quiet
  BY <1>2 DEF Quiet, Idle
<1>4. PICK l \in Line : l = Head(todo)
  BY <1>1, TailNonEmpty
<1>5. /\ 1 \in 1..Len(todo) /\ l = todo[1]
      /\ \A i \in 1..Len(Tail(todo)) :
           i + 1 \in 1..Len(todo) /\ Tail(todo)[i] = todo[i + 1]
  BY <1>1, <1>4
<1>6. l.val = NoValue /\ store[l.key] = NoValue
  BY <1>3, <1>5 DEF QuietInv, Idle
<1>7. Idle(todo)'
  BY <1>2, <1>3, <1>5 DEF QuietInv, Idle
<1>8. CASE isOpen
  <2>1. \A x, y \in Seq(Line) : x \o Append(y, l) = (x \o y) \o <<l>>
    OBVIOUS
  <2>2. PICK p \in Seq(Line), q \in Seq(Line) :
          p = Accepted /\ q = localBuffer \o logBuffer
    <3>1. Accepted \in Seq(Line) /\ localBuffer \o logBuffer \in Seq(Line)
      BY <1>1 DEF Accepted
    <3> QED  BY <3>1
  <2>3. Accepted' = p \o <<l>> /\ localBuffer' \o logBuffer' = q \o <<l>>
    <3>1. aof \o localBuffer \in Seq(Line)
      BY <1>1
    <3>2. Accepted' = aof \o localBuffer \o Append(logBuffer, l)
          /\ localBuffer' \o logBuffer' = localBuffer \o Append(logBuffer, l)
      BY <1>2, <1>4, <1>8 DEF Accepted
    <3> QED  BY <1>1, <2>1, <2>2, <3>1, <3>2, Zenon DEF Accepted
  <2>4. \A k \in Key : /\ Leaves(store[k], <<l>>, k, store[k])
                       /\ Leaves(NoValue, <<l>>, k, NoValue)
    BY <1>6 DEF Leaves, Touches
  <2>5. <<l>> \in Seq(Line)
    OBVIOUS
  <2>6. ASSUME NEW k \in Key
        PROVE  Recovers(p \o <<l>>, k, store[k]) /\ Recovers(q \o <<l>>, k, NoValue)
    <3>1. Leaves(NoValue, p, k, store[k]) /\ Leaves(NoValue, q, k, NoValue)
      BY <1>3, <2>2 DEF QuietInv, Recovers
    <3> QED  BY <2>4, <2>5, <3>1, LeavesConcat DEF Recovers
  <2> QED  BY <1>2, <1>7, <2>3, <2>6 DEF QuietInv
<1>9. CASE ~isOpen
  BY <1>2, <1>3, <1>7, <1>9 DEF QuietInv, Accepted
<1> QED  BY <1>8, <1>9

(* One idle item of an mdel.                                               *)
LEMMA ApplyQuiet ==
  ASSUME TypeInv, QuietInv, ApplyItem, Quiet'
  PROVE  QuietInv'
<1>1. batch \in Seq(Line) /\ batch # <<>> /\ store \in Content
  BY DEF ApplyItem, TypeInv, ControlInv, TypeOK
<1>2. PICK l \in Line : l = Head(batch)
  BY <1>1, TailNonEmpty
<1>3. /\ UNCHANGED <<phase, aof, localBuffer, logBuffer, todo>>
      /\ batch' = Tail(batch)
      /\ IF l.val = NoValue THEN DBDel(l.key) ELSE DBPut(l.key, l.val)
  BY <1>2 DEF ApplyItem, files, log
<1>4. l.val = NoValue /\ ~dirty /\ ~replaying /\ store[l.key] = NoValue
  <2>1. ~dirty' /\ ~replaying'
    BY DEF Quiet
  <2>2. replaying' = replaying
    BY <1>3 DEF DBPut, DBDel
  <2>3. ASSUME l.val # NoValue PROVE FALSE
    BY <1>3, <2>1, <2>2, <2>3, Zenon DEF DBPut
  <2>4. DBDel(l.key)
    BY <1>3, <2>3
  <2>5. ~replaying
    BY <2>1, <2>2
  <2>6. dirty' = (dirty \/ (store[l.key] # NoValue /\ ~replaying))
    BY <2>4 DEF DBDel
  <2>7. ~(dirty \/ (store[l.key] # NoValue /\ ~replaying))
    BY <2>1, <2>6
  <2> QED  BY <2>3, <2>5, <2>7
<1>5. store' = store
  <2>1. store' = [store EXCEPT ![l.key] = NoValue]
    BY <1>3, <1>4 DEF DBDel
  <2> QED  BY <1>1, <1>4, <2>1 DEF Content
<1>6. \A i \in 1..Len(batch) :
        \/ batch[i] = l
        \/ i - 1 \in 1..Len(Tail(batch)) /\ batch[i] = Tail(batch)[i - 1]
  BY <1>1, <1>2
<1>7. Idle(batch)
  BY <1>3, <1>4, <1>5, <1>6 DEF Quiet, Idle
<1>8. Quiet
  BY <1>3, <1>4, <1>7 DEF Quiet
<1> QED  BY <1>3, <1>5, <1>8, QuietMoves DEF Accepted

(* clearData: what is left in the buffers gives no key a value.            *)
LEMMA ClearQuiet ==
  ASSUME TypeInv, QuietInv, ClearData, Quiet'
  PROVE  QuietInv'
<1>1. /\ phase = "up" /\ todo = <<>> /\ batch = <<>>
      /\ localBuffer \in Seq(Line) /\ logBuffer \in Seq(Line)
  BY ReadyIsBetween DEF ClearData, Ready, TypeInv, TypeOK
<1>2. /\ UNCHANGED <<localBuffer, logBuffer, todo, dirty, replaying>>
      /\ aof' = <<>> /\ store' = NoKeys
  BY DEF ClearData, log, call
<1>3. Quiet
  BY <1>1, <1>2, EmptySeq DEF Quiet, Idle
<1>4. \A b, c \in Seq(Line) : <<>> \o b \o c = b \o c
  OBVIOUS
<1>5. Accepted' = localBuffer \o logBuffer
  BY <1>1, <1>2, <1>4, Zenon DEF Accepted
<1>6. Idle(todo)'
  BY <1>1, <1>2, EmptySeq DEF Idle
<1> QED  BY <1>2, <1>3, <1>5, <1>6 DEF QuietInv, NoKeys

(* The flusher and closeLog.                                               *)
LEMMA FlushQuiet ==
  ASSUME TypeInv, QuietInv, FlusherSwap \/ FlusherWrite \/ CloseLog, Quiet'
  PROVE  QuietInv'
<1>1. /\ aof \in Seq(Line) /\ localBuffer \in Seq(Line)
      /\ logBuffer \in Seq(Line)
  BY DEF TypeInv, TypeOK
<1>2. UNCHANGED <<phase, store, dirty, replaying, todo, batch>>
  BY DEF FlusherSwap, FlusherWrite, CloseLog, memory, call
<1>3. Quiet
  BY <1>2 DEF Quiet, Idle
<1>4. CASE FlusherSwap
  <2>1. \A a, c \in Seq(Line) : a \o c \o <<>> = a \o <<>> \o c /\ c \o <<>> = <<>> \o c
    OBVIOUS
  <2>2. /\ localBuffer = <<>> /\ localBuffer' = logBuffer /\ logBuffer' = <<>>
        /\ aof' = aof
    BY <1>4 DEF FlusherSwap, files
  <2>3. Accepted' = Accepted /\ localBuffer' \o logBuffer' = localBuffer \o logBuffer
    BY <1>1, <2>1, <2>2, Zenon DEF Accepted
  <2> QED  BY <1>2, <1>3, <2>3, QuietMoves
<1>5. CASE FlusherWrite
  <2>1. \A a, b, c \in Seq(Line) :
          (a \o b) \o <<>> \o c = a \o b \o c /\ <<>> \o c = c
    OBVIOUS
  <2>2. aof' = aof \o localBuffer /\ localBuffer' = <<>> /\ logBuffer' = logBuffer
    BY <1>5 DEF FlusherWrite
  <2>3. Accepted' = Accepted /\ localBuffer' \o logBuffer' = logBuffer
    BY <1>1, <2>1, <2>2, Zenon DEF Accepted
  <2>4. \A k \in Key : Recovers(localBuffer \o logBuffer, k, NoValue)
                         => Recovers(logBuffer, k, NoValue)
    BY <1>1, LeavesEnd DEF Recovers
  <2> QED  BY <1>2, <1>3, <2>3, <2>4, QuietMoves
<1>6. CASE CloseLog
  <2>1. \A a, c \in Seq(Line) : (a \o c) \o <<>> \o <<>> = a \o <<>> \o c
    OBVIOUS
  <2>2. /\ localBuffer = <<>> /\ localBuffer' = <<>> /\ logBuffer' = <<>>
        /\ aof' = aof \o logBuffer
    BY <1>6 DEF CloseLog
  <2>3. Accepted' = Accepted
    BY <1>1, <2>1, <2>2, Zenon DEF Accepted
  <2>4. \A k \in Key : Recovers(localBuffer' \o logBuffer', k, NoValue)
    BY <2>2, LeavesEmpty DEF Recovers
  <2> QED  BY <1>2, <1>3, <2>3, <2>4, QuietMoves
<1> QED  BY <1>4, <1>5, <1>6

(* Every step keeps it.                                                    *)
LEMMA QuietStep ==
  ASSUME MirrorInv, QuietInv, [Next]_vars
  PROVE  QuietInv'
<1>0. TypeInv /\ ControlInv /\ TypeOK /\ LoadMirror
  BY DEF MirrorInv, TypeInv
<1> SUFFICES ASSUME Quiet' PROVE QuietInv'
  BY DEF QuietInv
<1>1. phase' = "up" /\ ~dirty' /\ ~replaying'
  BY DEF Quiet
<1>2. ASSUME phase = "up",
             UNCHANGED <<store, replaying, dirty, aof, localBuffer, logBuffer,
                         todo, batch>>
      PROVE  QuietInv'
  <2>1. Quiet
    BY <1>1, <1>2 DEF Quiet, Idle
  <2> QED  BY <1>2, <2>1, QuietMoves DEF Accepted
<1>3. CASE Open \/ Crash \/ ReplayLine
  BY <1>1, <1>3 DEF Open, Crash, ReplayLine
<1>4. CASE EndLoad
  BY <1>0, <1>4, EndLoadQuiet
<1>5. ASSUME NEW k \in Key, NEW v \in Value, Put(k, v)
      PROVE  QuietInv'
  BY <1>1, <1>5, Zenon DEF Put, DBPut
<1>6. ASSUME NEW k \in Key, Del(k)
      PROVE  QuietInv'
  BY <1>0, <1>6, SingleQuiet
<1>7. CASE MPut \/ MDel
  <2>1. PICK ls \in Seq(Line) : Multi(ls)
    BY <1>7, MultiLines
  <2> QED  BY <1>0, <2>1, MultiQuiet
<1>8. CASE ClearData
  BY <1>0, <1>8, ClearQuiet
<1>9. CASE AppendCommand
  BY <1>0, <1>9, AppendQuiet
<1>10. CASE ApplyItem
  BY <1>0, <1>10, ApplyQuiet
<1>11. CASE FlusherSwap \/ FlusherWrite \/ CloseLog
  BY <1>0, <1>11, FlushQuiet
<1>12. ASSUME NEW who \in {"quit", "server", "db"}, BeginShutdown(who)
       PROVE  QuietInv'
  BY <1>2, <1>12 DEF BeginShutdown, Ready, memory, files, log
<1>13. CASE CompactLog
  <2>1. phase = "up" /\ UNCHANGED <<store, replaying, dirty, localBuffer,
                                    logBuffer, todo, batch>>
    BY <1>0, <1>13 DEF CompactLog, ControlInv, memory, log, call
  <2>2. aof' = aof
    BY <1>1, <1>13, <2>1 DEF CompactLog
  <2> QED  BY <1>2, <2>1, <2>2
<1>14. CASE CompactThrows \/ WriteBinarySnapshot \/ SnapshotFails
  BY <1>0, <1>2, <1>14
  DEF CompactThrows, WriteBinarySnapshot, SnapshotFails, Return, ControlInv,
      memory, files, log
<1>15. CASE UNCHANGED vars
  BY <1>1, <1>2, <1>15 DEF vars, files, log, memory, call
<1> QED
  BY <1>3, <1>4, <1>5, <1>6, <1>7, <1>8, <1>9, <1>10, <1>11, <1>12, <1>13,
     <1>14, <1>15
  DEF Next, Load, Command, Execute, Flush, Shutdown

(* While dirty is zero and replaying false, the AOF and the buffered lines *)
(* give back the store for every key, the unlogged ones included: a        *)
(* shutdown that skips compaction (compactLog) then loses nothing.         *)
THEOREM DirtyIsTrusted == Spec => []DirtyTellsTruth
<1>1. Init => QuietInv
  BY DEF Init, QuietInv, Quiet
<1>2. MirrorInv /\ QuietInv => DirtyTellsTruth
  <2> SUFFICES ASSUME MirrorInv, QuietInv, Ready, ~dirty, ~replaying, NEW k \in Key
               PROVE  Recovers(Pipeline, k, store[k])
    BY DEF DirtyTellsTruth
  <2>1. batch = <<>> /\ Pipeline = Accepted
    BY ReadyIsBetween DEF MirrorInv, Ready, Accepted
  <2>2. Quiet
    BY <2>1, EmptySeq DEF Quiet, Ready, Idle
  <2> QED  BY <2>1, <2>2 DEF QuietInv
<1> QED  BY <1>1, <1>2, MirrorInit, MirrorStep, QuietStep, PTL DEF Spec
-----------------------------------------------------------------------------
(* Keyspace implements DurableMap.                                         *)

(* The table, and what a command has still to do to it, are candidates.    *)
TableRecent ==
  /\ phase = "up" => \A k \in Key : store[k] \in recent[k]
  /\ \A i \in 1..Len(batch) : batch[i].val \in recent[batch[i].key]

DurableInv == RecoveryInv /\ TableRecent

(* A command has its values among the candidates before it changes a key.  *)
LEMMA RememberTable ==
  ASSUME TypeOK, TableRecent, phase = "up", NEW ls \in Seq(Line), NEW logged,
         Remember(ls, logged)
  PROVE  /\ \A k \in Key : store[k] \in recent'[k]
         /\ \A i \in 1..Len(ls) : ls[i].val \in recent'[ls[i].key]
         /\ \A i \in 1..Len(batch) : batch[i].val \in recent'[batch[i].key]
<1>1. \A k \in Key : recent[k] \subseteq recent'[k]
  BY RememberRecent
<1>2. \A i \in 1..Len(batch) : batch[i] \in Line
  BY DEF TypeOK
<1>3. \A i \in 1..Len(batch) : batch[i].key \in Key
  BY <1>2 DEF Line
<1>4. ASSUME NEW i \in 1..Len(ls) PROVE ls[i].val \in recent'[ls[i].key]
  <2>1. ls[i] \in Line
    OBVIOUS
  <2>2. ls[i].key \in Key
    BY <2>1 DEF Line
  <2>3. recent'[ls[i].key] = recent[ls[i].key] \cup
          {ls[j].val : j \in {h \in 1..Len(ls) : ls[h].key = ls[i].key}}
    BY <2>2 DEF Remember
  <2> QED  BY <2>3
<1> QED  BY <1>1, <1>3, <1>4 DEF TableRecent

(* Saving keeps what the table holds among the candidates.                 *)
LEMMA SettleTable ==
  ASSUME TypeInv, TableRecent, phase = "up", NEW full, Settle(full), full => batch = <<>>
  PROVE  /\ \A k \in Key : store[k] \in recent'[k] /\ recent'[k] \subseteq recent[k]
         /\ \A i \in 1..Len(batch) : batch[i].val \in recent'[batch[i].key]
<1>1. \A k \in Key : store[k] \in recent'[k] /\ recent'[k] \subseteq recent[k]
  BY DEF Settle, TableRecent
<1>2. ASSUME NEW i \in 1..Len(batch) PROVE batch[i].val \in recent'[batch[i].key]
  <2>1. batch[i] \in Line /\ batch # <<>>
    BY EmptySeq DEF TypeInv, TypeOK
  <2>2. batch[i].key \in Key
    BY <2>1 DEF Line
  <2> QED  BY <2>1, <2>2 DEF Settle, TableRecent
<1> QED  BY <1>1, <1>2

(* compactLog gives up all candidates but the table's values and, where a  *)
(* file drops the value, its absence.                                      *)
LEMMA CompactTable ==
  ASSUME TypeInv, TableRecent, CompactLog
  PROVE  \A k \in Key :
           /\ store[k] \in recent'[k]
           /\ \/ recent'[k] \subseteq recent[k]
              \/ /\ recent'[k] \subseteq {store[k], NoValue}
                 /\ k \in Stored /\ ~Readable(PutLine(k, store[k]))
<1>1. phase = "up"
  BY DEF CompactLog, TypeInv, ControlInv
<1>2. CASE recent' = recent
  BY <1>1, <1>2 DEF TableRecent
<1>3. CASE /\ unlogged' = {k \in Stored : ~Readable(PutLine(k, store[k]))}
           /\ recent' = [k \in Key |-> IF k \in unlogged'
                                       THEN {store[k], NoValue} ELSE {store[k]}]
  BY <1>1, <1>3 DEF TableRecent
<1> QED  BY <1>2, <1>3 DEF CompactLog

(* Every step keeps it, one case for each action.                          *)
LEMMA DurableStep ==
  ASSUME DurableInv, [Next]_vars
  PROVE  DurableInv'
<1>0. TypeInv /\ TypeOK /\ ControlInv /\ RecoveryInv /\ TableRecent
  BY DEF DurableInv, RecoveryInv, MirrorInv, TypeInv
<1> SUFFICES TableRecent'
  BY RecoveryStep DEF DurableInv
<1>a. \A i \in 1..Len(batch) : batch[i].key \in Key /\ batch[i].val \in Value \cup {NoValue}
  <2>1. \A i \in 1..Len(batch) : batch[i] \in Line
    BY <1>0 DEF TypeOK
  <2> QED  BY <2>1 DEF Line
<1>1. ASSUME UNCHANGED <<store, batch, recent>>, phase = "up" \/ phase' # "up"
      PROVE  TableRecent'
  BY <1>0, <1>1 DEF TableRecent
<1>2. CASE Open \/ ReplayLine
  BY <1>0, <1>2 DEF Open, ReplayLine, history, TableRecent
<1>3. CASE EndLoad
  <2>1. batch = <<>> /\ batch' = batch /\ store' = store
        /\ recent' = [k \in Key |-> {store[k]}]
    BY <1>0, <1>3 DEF EndLoad, ControlInv, memory
  <2> QED  BY <2>1, EmptySeq DEF TableRecent
<1>4. ASSUME NEW l \in Line, Single(l), store' = [store EXCEPT ![l.key] = l.val]
      PROVE  TableRecent'
  <2>1. <<l>> \in Seq(Line) /\ Remember(<<l>>, ~replaying) /\ UNCHANGED batch /\ phase = "up"
    BY <1>4 DEF Single, Ready
  <2>2. /\ \A k \in Key : store[k] \in recent'[k]
        /\ \A i \in 1..Len(<<l>>) : <<l>>[i].val \in recent'[<<l>>[i].key]
        /\ \A i \in 1..Len(batch) : batch[i].val \in recent'[batch[i].key]
    BY <1>0, <2>1, RememberTable
  <2>3. l.val \in recent'[l.key] /\ l.key \in Key
    BY <2>2 DEF Line
  <2>4. \A k \in Key : store'[k] \in recent'[k]
    BY <1>0, <1>4, <2>2, <2>3 DEF TypeOK, Content
  <2> QED  BY <2>1, <2>2, <2>4 DEF TableRecent
<1>5. ASSUME NEW k \in Key, NEW v \in Value, Put(k, v)
      PROVE  TableRecent'
  <2>1. Single(PutLine(k, v)) /\ store' = [store EXCEPT ![k] = v]
    BY <1>5 DEF Put, DBPut
  <2> QED  BY <1>4, <2>1, PutLineType DEF PutLine
<1>6. ASSUME NEW k \in Key, Del(k)
      PROVE  TableRecent'
  <2>1. Single(DelLine(k)) /\ store' = [store EXCEPT ![k] = NoValue]
    BY <1>6 DEF Del, DBDel
  <2> QED  BY <1>4, <2>1, DelLineType DEF DelLine
<1>7. CASE MPut \/ MDel
  <2>1. PICK ls \in Seq(Line) : Multi(ls)
    BY <1>7, MultiLines
  <2>2. Remember(ls, TRUE) /\ store' = store /\ batch' = ls /\ phase = "up"
    BY <2>1 DEF Multi, Ready, memory
  <2>3. /\ \A k \in Key : store[k] \in recent'[k]
        /\ \A i \in 1..Len(ls) : ls[i].val \in recent'[ls[i].key]
    BY <1>0, <2>2, RememberTable
  <2> QED  BY <2>2, <2>3 DEF TableRecent
<1>8. CASE ClearData
  <2>1. /\ batch = <<>> /\ batch' = batch /\ store' = NoKeys
        /\ \A k \in Key : NoValue \in recent'[k]
    BY <1>0, <1>8, ReadyIsBetween DEF ClearData, Ready, call
  <2> QED  BY <2>1, EmptySeq DEF TableRecent, NoKeys
<1>9. CASE AppendCommand
  BY <1>0, <1>1, <1>9 DEF AppendCommand, memory, history, TableRecent, ControlInv
<1>10. CASE ApplyItem
  <2>1. /\ batch \in Seq(Line) /\ batch # <<>> /\ phase = "up"
        /\ batch' = Tail(batch) /\ UNCHANGED <<phase, recent>>
    BY <1>0, <1>10 DEF ApplyItem, ControlInv, TypeOK, history
  <2>2. /\ 1 \in 1..Len(batch) /\ Head(batch) = batch[1]
        /\ \A i \in 1..Len(Tail(batch)) :
             i + 1 \in 1..Len(batch) /\ Tail(batch)[i] = batch[i + 1]
    BY <2>1
  <2>3. PICK l : l = Head(batch)
    OBVIOUS
  <2>4. l.key \in Key /\ l.val \in recent[l.key]
    BY <1>0, <1>a, <2>2, <2>3 DEF TableRecent
  <2>5. store' = [store EXCEPT ![l.key] = l.val]
    BY <1>10, <2>3 DEF ApplyItem, DBDel, DBPut
  <2>6. \A k \in Key : store'[k] \in recent'[k]
    BY <1>0, <2>1, <2>4, <2>5 DEF TableRecent, TypeOK, Content
  <2>7. \A i \in 1..Len(batch') : batch'[i].val \in recent'[batch'[i].key]
    BY <1>0, <2>1, <2>2 DEF TableRecent
  <2> QED  BY <2>6, <2>7 DEF TableRecent
<1>11. CASE FlusherSwap
  BY <1>1, <1>11 DEF FlusherSwap, memory, call, history
<1>12. CASE FlusherWrite
  <2>1. /\ phase = "up" /\ UNCHANGED <<store, batch>>
        /\ Settle(logBuffer = <<>> /\ todo = <<>> /\ batch = <<>>)
    BY <1>12 DEF FlusherWrite, memory, call
  <2>2. /\ \A k \in Key : store[k] \in recent'[k]
        /\ \A i \in 1..Len(batch) : batch[i].val \in recent'[batch[i].key]
    BY <1>0, <2>1, SettleTable
  <2> QED  BY <2>1, <2>2 DEF TableRecent
<1>13. ASSUME NEW who \in {"quit", "server", "db"}, BeginShutdown(who)
       PROVE  TableRecent'
  BY <1>1, <1>13 DEF BeginShutdown, memory, history, Ready
<1>14. CASE CloseLog
  <2>1. /\ phase = "up" /\ batch = <<>> /\ UNCHANGED <<store, batch>> /\ Settle(TRUE)
    BY <1>0, <1>14 DEF CloseLog, ControlInv, memory, call
  <2>2. /\ \A k \in Key : store[k] \in recent'[k]
        /\ \A i \in 1..Len(batch) : batch[i].val \in recent'[batch[i].key]
    BY <1>0, <2>1, SettleTable
  <2> QED  BY <2>1, <2>2 DEF TableRecent
<1>15. CASE CompactLog
  <2>1. batch = <<>> /\ UNCHANGED <<store, batch>>
    BY <1>0, <1>15 DEF CompactLog, ControlInv, memory, call
  <2> QED  BY <1>0, <1>15, <2>1, CompactTable, EmptySeq DEF TableRecent
<1>16. CASE CompactThrows \/ WriteBinarySnapshot \/ SnapshotFails
  <2>1. UNCHANGED <<store, batch, recent>> /\ phase = "up"
    BY <1>0, <1>16
    DEF CompactThrows, WriteBinarySnapshot, SnapshotFails, memory, history, ControlInv
  <2> QED  BY <1>1, <2>1
<1>17. CASE Crash
  BY <1>17, EmptySeq DEF Crash, TableRecent
<1>18. CASE UNCHANGED vars
  BY <1>0, <1>18 DEF vars, memory, call, history, TableRecent
<1> QED
  BY <1>2, <1>3, <1>5, <1>6, <1>7, <1>8, <1>9, <1>10, <1>11, <1>12, <1>13,
     <1>14, <1>15, <1>16, <1>17, <1>18
  DEF Next, Load, Command, Execute, Flush, Shutdown

(* Before the first load.                                                  *)
LEMMA DurableInit == Init => DurableInv
<1> SUFFICES ASSUME Init PROVE DurableInv
  OBVIOUS
<1>1. TableRecent
  BY EmptySeq DEF Init, TableRecent
<1> QED  BY <1>1, RecoveryInit DEF DurableInv

(* The value that a candidate's key has when the load is over.             *)
LEMMA LoadedRecent ==
  ASSUME RecoveryInv, EndLoad
  PROVE  \A k \in Key : store[k] \in recent[k]
<1>1. phase = "loading" /\ pos = Len(aof) /\ aof \in Seq(Line) /\ store \in Content
  BY DEF EndLoad, RecoveryInv, MirrorInv, TypeInv, TypeOK
<1>2. SubSeq(aof, 1, Len(aof)) = aof
  BY <1>1
<1>3. \A k \in Key : Recovers(aof, k, store[k])
  BY <1>1, <1>2 DEF RecoveryInv, MirrorInv, LoadMirror
<1> QED  BY <1>1, <1>3 DEF RecoveryInv, CrashInv, AofRecent, Content

(* Every step of a keyspace is one of DurableMap or changes nothing that   *)
(* DurableMap speaks about.                                                *)
LEMMA DurableSimulation ==
  ASSUME DurableInv, [Next]_vars
  PROVE  Durable!Next \/ UNCHANGED Durable!vars
<1>0. TypeInv /\ TypeOK /\ ControlInv /\ RecoveryInv /\ TableRecent
  BY DEF DurableInv, RecoveryInv, MirrorInv, TypeInv
<1>a. TypeOK' /\ recent' \in [Key -> SUBSET (Value \cup {NoValue})] /\ store' \in Content
  BY <1>0, TypeInvStep DEF TypeInv, TypeOK
<1>1. ASSUME phase = "up" <=> phase' = "up",
             recent' = recent, phase = "up" => store' = store
      PROVE  UNCHANGED Durable!vars
  BY <1>1 DEF Durable!vars
<1>2. CASE Open \/ ReplayLine
  BY <1>1, <1>2 DEF Open, ReplayLine, history
<1>3. CASE EndLoad
  <2>1. /\ phase = "loading" /\ phase' = "up" /\ store' = store
        /\ recent' = [k \in Key |-> {store[k]}]
    BY <1>3 DEF EndLoad, memory
  <2>2. \A k \in Key : store[k] \in recent[k]
    BY <1>0, <1>3, LoadedRecent
  <2>3. Durable!Start
    BY <1>a, <2>1, <2>2 DEF Durable!Start, Content
  <2> QED  BY <2>3 DEF Durable!Next
<1>4. ASSUME NEW k \in Key, NEW v \in Value \cup {NoValue}, phase = "up", phase' = "up",
             store' = [store EXCEPT ![k] = v],
             recent' = [recent EXCEPT ![k] = @ \cup {v}]
      PROVE  Durable!Next
  <2>1. Durable!Change(k, v)
    BY <1>4 DEF Durable!Change
  <2> QED  BY <2>1 DEF Durable!Next
<1>5. ASSUME NEW l \in Line, NEW logged, Remember(<<l>>, logged)
      PROVE  recent' = [recent EXCEPT ![l.key] = @ \cup {l.val}]
  <2> DEFINE gained(k) == {<<l>>[i].val : i \in {j \in 1..Len(<<l>>) : <<l>>[j].key = k}}
  <2>1. \A k \in Key : gained(k) = IF k = l.key THEN {l.val} ELSE {}
    OBVIOUS
  <2>2. recent' = [k \in Key |-> recent[k] \cup gained(k)]
    BY <1>5 DEF Remember
  <2> HIDE DEF gained
  <2> QED  BY <1>0, <2>1, <2>2 DEF TypeOK
<1>6. ASSUME NEW k \in Key, NEW v \in Value, Put(k, v)
      PROVE  Durable!Next
  <2>1. /\ store' = [store EXCEPT ![k] = v] /\ phase = "up" /\ phase' = "up"
        /\ Remember(<<PutLine(k, v)>>, ~replaying)
    BY <1>6 DEF Put, DBPut, Single, Ready
  <2>2. recent' = [recent EXCEPT ![k] = @ \cup {v}]
    BY <1>5, <2>1, PutLineType DEF PutLine
  <2> QED  BY <1>4, <2>1, <2>2
<1>7. ASSUME NEW k \in Key, Del(k)
      PROVE  Durable!Next
  <2>1. /\ store' = [store EXCEPT ![k] = NoValue] /\ phase = "up" /\ phase' = "up"
        /\ Remember(<<DelLine(k)>>, ~replaying)
    BY <1>7 DEF Del, DBDel, Single, Ready
  <2>2. recent' = [recent EXCEPT ![k] = @ \cup {NoValue}]
    BY <1>5, <2>1, DelLineType DEF DelLine
  <2> QED  BY <1>4, <2>1, <2>2
<1>8. CASE MPut \/ MDel
  <2>1. PICK ls \in Seq(Line) : Multi(ls)
    BY <1>8, MultiLines
  <2>2. Remember(ls, TRUE) /\ store' = store /\ phase = "up" /\ phase' = "up"
    BY <2>1 DEF Multi, Ready, memory
  <2>3. \A k \in Key : recent[k] \subseteq recent'[k]
    BY <1>0, <2>2, RememberRecent
  <2>4. Durable!Accept
    BY <1>a, <2>2, <2>3 DEF Durable!Accept
  <2> QED  BY <2>4 DEF Durable!Next
<1>9. CASE ClearData
  <2>1. /\ phase = "up" /\ phase' = "up" /\ store' = NoKeys
        /\ \A k \in Key : recent'[k] \in {{NoValue}, recent[k] \cup {NoValue}}
    BY <1>9 DEF ClearData, Ready
  <2>2. Durable!Clear
    BY <1>a, <2>1 DEF Durable!Clear, Durable!Nothing, NoKeys
  <2> QED  BY <2>2 DEF Durable!Next
<1>10. CASE AppendCommand
  BY <1>0, <1>1, <1>10 DEF AppendCommand, memory, history, ControlInv
<1>11. CASE ApplyItem
  <2>1. /\ batch \in Seq(Line) /\ batch # <<>> /\ phase = "up"
        /\ UNCHANGED <<phase, recent>>
    BY <1>0, <1>11 DEF ApplyItem, ControlInv, TypeOK, history
  <2>2. PICK l \in Line : l = Head(batch)
    BY <2>1, TailNonEmpty
  <2>3. 1 \in 1..Len(batch) /\ Head(batch) = batch[1]
    BY <2>1
  <2>4. l.val \in recent[l.key] /\ l.key \in Key /\ l.val \in Value \cup {NoValue}
    BY <1>0, <2>2, <2>3 DEF TableRecent, Line
  <2>5. store' = [store EXCEPT ![l.key] = l.val]
    BY <1>11, <2>2 DEF ApplyItem, DBDel, DBPut
  <2>6. recent' = [recent EXCEPT ![l.key] = @ \cup {l.val}]
    BY <1>0, <2>1, <2>4 DEF TypeOK
  <2> QED  BY <1>4, <2>1, <2>4, <2>5, <2>6
<1>12. CASE FlusherSwap
  BY <1>1, <1>12 DEF FlusherSwap, memory, history
<1>13. ASSUME phase = "up", phase' = "up", store' = store,
              \A k \in Key :
                /\ store[k] \in recent'[k]
                /\ \/ recent'[k] \subseteq recent[k]
                   \/ /\ recent'[k] \subseteq {store[k], NoValue}
                      /\ k \in Stored /\ ~Readable(PutLine(k, store[k]))
       PROVE  Durable!Next
  <2>1. ASSUME NEW k \in Key
        PROVE  recent'[k] \subseteq recent[k] \cup
                 (IF <<k, store[k]>> \in {p \in Key \X Value : ~Readable(PutLine(p[1], p[2]))}
                  THEN {NoValue} ELSE {})
    <3>1. CASE recent'[k] \subseteq recent[k]
      BY <3>1
    <3>2. CASE /\ recent'[k] \subseteq {store[k], NoValue}
               /\ k \in Stored /\ ~Readable(PutLine(k, store[k]))
      <4>1. store[k] \in recent[k] /\ store[k] \in Value
        BY <1>0, <1>13, <3>2 DEF TableRecent, Stored, TypeOK, Content
      <4>2. <<k, store[k]>> \in {p \in Key \X Value : ~Readable(PutLine(p[1], p[2]))}
        BY <3>2, <4>1
      <4> QED  BY <3>2, <4>1, <4>2
    <3> QED  BY <1>13, <3>1, <3>2
  <2>2. Durable!Settle
    BY <1>a, <1>13, <2>1 DEF Durable!Settle
  <2> QED  BY <2>2 DEF Durable!Next
<1>14. CASE FlusherWrite
  <2>1. /\ phase = "up" /\ phase' = "up" /\ store' = store
        /\ Settle(logBuffer = <<>> /\ todo = <<>> /\ batch = <<>>)
    BY <1>14 DEF FlusherWrite, memory
  <2>2. \A k \in Key : store[k] \in recent'[k] /\ recent'[k] \subseteq recent[k]
    BY <1>0, <2>1, SettleTable
  <2> QED  BY <1>13, <2>1, <2>2
<1>15. ASSUME NEW who \in {"quit", "server", "db"}, BeginShutdown(who)
       PROVE  UNCHANGED Durable!vars
  BY <1>1, <1>15 DEF BeginShutdown, memory, history, Ready
<1>16. CASE CloseLog
  <2>1. /\ phase = "up" /\ phase' = "up" /\ store' = store /\ batch = <<>> /\ Settle(TRUE)
    BY <1>0, <1>16 DEF CloseLog, ControlInv, memory
  <2>2. \A k \in Key : store[k] \in recent'[k] /\ recent'[k] \subseteq recent[k]
    BY <1>0, <2>1, SettleTable
  <2> QED  BY <1>13, <2>1, <2>2
<1>17. CASE CompactLog
  <2>1. phase = "up" /\ phase' = "up" /\ store' = store
    BY <1>0, <1>17 DEF CompactLog, ControlInv, memory
  <2> QED  BY <1>0, <1>13, <1>17, <2>1, CompactTable
<1>18. CASE CompactThrows
  BY <1>0, <1>1, <1>18 DEF CompactThrows, memory, history, ControlInv
<1>19. ASSUME phase = "up", phase' # "up", recent' = recent
       PROVE  Durable!Next
  <2>1. Durable!Stop
    BY <1>19 DEF Durable!Stop, Durable!Nothing, NoKeys
  <2> QED  BY <2>1 DEF Durable!Next
<1>20. CASE WriteBinarySnapshot \/ SnapshotFails
  <2>1. phase = "up" /\ UNCHANGED <<store, recent>>
    BY <1>0, <1>20 DEF WriteBinarySnapshot, SnapshotFails, memory, history, ControlInv
  <2>2. CASE phase' = "up"
    BY <1>1, <2>1, <2>2
  <2>3. CASE phase' # "up"
    BY <1>19, <2>1, <2>3
  <2> QED  BY <2>2, <2>3
<1>21. CASE Crash
  <2>1. phase' # "up" /\ recent' = recent
    BY <1>21 DEF Crash
  <2>2. CASE phase = "up"
    BY <1>19, <2>1, <2>2
  <2>3. CASE phase # "up"
    BY <1>1, <2>1, <2>3
  <2> QED  BY <2>2, <2>3
<1>22. CASE UNCHANGED vars
  BY <1>1, <1>22 DEF vars, memory, history
<1> QED
  BY <1>2, <1>3, <1>6, <1>7, <1>8, <1>9, <1>10, <1>11, <1>12, <1>14, <1>15,
     <1>16, <1>17, <1>18, <1>20, <1>21, <1>22
  DEF Next, Load, Command, Execute, Flush, Shutdown

(* DB, Log and the two files are, to a client, one map that comes back     *)
(* after any shutdown or crash with a candidate for every key: what it was *)
(* given since the AOF last agreed with the table about it.  Flusher,      *)
(* closeLog, compactLog and the snapshot change nothing that is read.      *)
THEOREM KeyspaceIsDurableMap == Spec => IsDurableMap
<1>1. Init => Durable!Init
  BY DEF Init, Durable!Init, Durable!Nothing, NoKeys
<1>2. DurableInv /\ [Next]_vars => [Durable!Next]_(Durable!vars)
  BY DurableSimulation
<1> QED  BY <1>1, <1>2, DurableInit, DurableStep, PTL DEF Spec, IsDurableMap, Durable!Spec
=============================================================================
