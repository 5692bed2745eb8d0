------------------------------ MODULE DiskProofs ------------------------------
(***************************************************************************)
(* Proofs about Disk for every finite set of keys, every set of values,    *)
(* and files of any length: the types whatever goes wrong, and what power  *)
(* failures and kills cost when no line is torn and no disk is full.       *)
(***************************************************************************)
EXTENDS Disk, AofProofs, FiniteSetTheorems

(* The lines of a file of pieces, torn or not, are lines or junk.          *)
LEMMA LinesOfType ==
  ASSUME NEW ps \in Seq(Piece)
  PROVE  LinesOf(ps) \in Seq(Line \cup {Junk}) /\ Len(LinesOf(ps)) = Len(ps)
<1>1. \A p \in Piece : p.line \in Line \cup {Junk}
  BY DEF Piece
<1>2. \A i \in 1..Len(ps) : ps[i] \in Piece
  OBVIOUS
<1>3. DOMAIN ps = 1..Len(ps) /\ Len(ps) \in Nat
  OBVIOUS
<1>4. \A i \in 1..Len(ps) :
        (IF \/ ~ps[i].ends /\ i < Len(ps)
            \/ i > 1 /\ ~ps[i - 1].ends THEN Junk ELSE ps[i].line) \in Line \cup {Junk}
  BY <1>1, <1>2
<1> QED  BY <1>3, <1>4 DEF LinesOf

(* loadFromLog gives every key the one value that the file leaves it.      *)
LEMMA ReplayRecovers ==
  ASSUME NEW ps \in Seq(Piece)
  PROVE  /\ Replay(ps) \in Content
         /\ \A k \in Key : Recovers(LinesOf(ps), k, Replay(ps)[k])
<1> DEFINE ls == LinesOf(ps)
<1>1. ls \in Seq(Line \cup {Junk}) /\ Len(ls) \in Nat
  BY LinesOfType
<1> HIDE DEF ls
<1>2. ASSUME NEW k \in Key
      PROVE  \E v \in Value \cup {NoValue} : Recovers(ls, k, v)
  <2>1. PICK v : Leaves(NoValue, ls, k, v)
    BY <1>1, LeavesSome
  <2>2. \/ v = NoValue
        \/ \E i \in 1..Len(ls) : Touches(ls[i], k) /\ ls[i].val = v
    BY <2>1 DEF Leaves
  <2>3. \A l \in Line \cup {Junk} : Touches(l, k) => l.val \in Value \cup {NoValue}
    BY DEF Touches, Readable, Junk, PutLine, Line
  <2>4. v \in Value \cup {NoValue}
    BY <1>1, <2>2, <2>3
  <2> QED  BY <2>1, <2>4 DEF Recovers
<1>3. Replay(ps) = [k \in Key |->
                      CHOOSE v \in Value \cup {NoValue} : Recovers(ls, k, v)]
  BY DEF Replay, ls
<1>4. \A k \in Key : LET v == CHOOSE v \in Value \cup {NoValue} : Recovers(ls, k, v)
                     IN  v \in Value \cup {NoValue} /\ Recovers(ls, k, v)
  BY <1>2
<1> QED  BY <1>3, <1>4 DEF Content, ls

(* What can be written of a file is a file.                                *)
LEMMA BeginningsType ==
  ASSUME NEW l \in Line
  PROVE  Beginnings(l) \subseteq Piece
<1>1. l.key \in Key /\ l.val \in Value \cup {NoValue}
  BY DEF Line
<1>2. \A b \in Line \cup {Junk} : [line |-> b, ends |-> FALSE] \in Piece
  BY DEF Piece
<1>3. CASE l.val = NoValue
  <2>1. \A k \in Clips[l.key] : DelLine(k) \in Line
    BY <1>1, DiskAssumption DEF DelLine, Line
  <2> QED  BY <1>2, <1>3, <2>1 DEF Beginnings
<1>4. CASE l.val # NoValue
  <2>1. \A v \in Clips[l.val] : PutLine(l.key, v) \in Line
    BY <1>1, <1>4, DiskAssumption DEF PutLine, Line
  <2> QED  BY <1>2, <1>4, <2>1 DEF Beginnings
<1> QED  BY <1>3, <1>4

-----------------------------------------------------------------------------
(* A piece that ends in a newline is a line that the log wrote.            *)
SoundPiece == {p \in Piece : p.ends => p.line \in Line}

SoundFile == [pieces : Seq(SoundPiece), synced : Nat]

TypeInv ==
  /\ TypeOK
  /\ aof \in Seq(SoundPiece)
  /\ older \subseteq SoundFile

(* A whole line or the beginning of one is a piece of the file.            *)
LEMMA SoundIsPiece ==
  /\ \A ps \in Seq(SoundPiece) : ps \in Seq(Piece)
  /\ SoundFile \subseteq File
<1>1. SoundPiece \subseteq Piece
  BY DEF SoundPiece
<1>2. \A ps \in Seq(SoundPiece) : ps \in Seq(Piece)
  BY <1>1
<1> QED  BY <1>2 DEF SoundFile, File

(* What a write or a power failure lets through is made of such pieces.    *)
LEMMA PartsType ==
  ASSUME NEW ps \in Seq(SoundPiece), NEW n \in Nat, NEW tears,
         NEW part \in Parts(ps, n, tears)
  PROVE  part \in Seq(SoundPiece)
<1>1. PICK m \in n..Len(ps) :
        \/ part = SubSeq(ps, 1, m)
        \/ /\ m < Len(ps) /\ ps[m + 1].ends
           /\ \E b \in Beginnings(ps[m + 1].line) : part = Append(SubSeq(ps, 1, m), b)
  BY DEF Parts
<1>2. SubSeq(ps, 1, m) \in Seq(SoundPiece)
  BY SMT
<1>3. ASSUME m < Len(ps), ps[m + 1].ends, NEW b \in Beginnings(ps[m + 1].line)
      PROVE  b \in SoundPiece
  <2>1. ps[m + 1] \in SoundPiece
    BY <1>3
  <2>2. ps[m + 1].line \in Line
    BY <1>3, <2>1 DEF SoundPiece
  <2>3. b \in Piece
    BY <2>2, BeginningsType
  <2>4. b.ends = FALSE
    BY DEF Beginnings
  <2> QED  BY <2>3, <2>4 DEF SoundPiece
<1> QED  BY <1>1, <1>2, <1>3

(* What the buffer is written as.                                          *)
Written == [i \in DOMAIN logBuffer |-> Whole(logBuffer[i])]

(* What the flusher writes: the buffered lines, whole.                     *)
LEMMA WrittenType ==
  ASSUME logBuffer \in Seq(Line)
  PROVE  /\ Written \in Seq(SoundPiece)
         /\ Len(Written) = Len(logBuffer)
         /\ \A i \in 1..Len(Written) : Written[i] = Whole(logBuffer[i])
<1>1. \A l \in Line : Whole(l) \in SoundPiece
  BY DEF Whole, SoundPiece, Piece
<1>2. DOMAIN logBuffer = 1..Len(logBuffer) /\ Len(logBuffer) \in Nat
      /\ \A i \in 1..Len(logBuffer) : logBuffer[i] \in Line
  OBVIOUS
<1> QED  BY <1>1, <1>2 DEF Written

Stored == {k \in Key : store[k] # NoValue}

(* The compacted file has one line for each key that has a value.          *)
LEMMA DumpForm ==
  ASSUME store \in Content
  PROVE  \E n \in Nat : \E ks \in Bijection(1..n, Stored) :
           Dump = [i \in 1..n |-> Whole(PutLine(ks[i], store[ks[i]]))]
<1> DEFINE n == Cardinality(Stored)
           ks == SetToSeq(Stored)
<1>1. IsFiniteSet(Stored)
  BY KeyAssumption, FS_Subset DEF Stored
<1>2. n \in Nat /\ ExistsBijection(1..n, Stored)
  BY <1>1, FS_CardinalityType
<1>3. \E f \in [1..n -> Stored] : IsInjective(f)
  BY <1>2 DEF ExistsBijection, Bijection, Injection
<1>4. ks \in [1..n -> Stored] /\ IsInjective(ks)
  BY <1>3 DEF SetToSeq
<1>5. ks \in Injection(1..n, Stored)
  BY <1>4 DEF Injection
<1>6. Cardinality(1..n) = n
  BY <1>2, FS_Interval
<1>7. ks \in Surjection(1..n, Stored)
  BY <1>1, <1>5, <1>6, FS_Injection
<1>8. ks \in Bijection(1..n, Stored)
  BY <1>5, <1>7 DEF Bijection
<1>9. Dump = [i \in 1..n |-> Whole(PutLine(ks[i], store[ks[i]]))]
  BY <1>4 DEF Dump, Stored
<1> HIDE DEF n, ks
<1> QED  BY <1>2, <1>8, <1>9

(* The compacted file is made of such pieces.                              *)
LEMMA DumpType ==
  ASSUME store \in Content
  PROVE  Dump \in Seq(SoundPiece)
<1>1. PICK n \in Nat : \E ks \in Bijection(1..n, Stored) :
        Dump = [i \in 1..n |-> Whole(PutLine(ks[i], store[ks[i]]))]
  BY DumpForm
<1>2. PICK ks \in Bijection(1..n, Stored) :
        Dump = [i \in 1..n |-> Whole(PutLine(ks[i], store[ks[i]]))]
  BY <1>1
<1>3. ks \in [1..n -> Stored]
  BY DEF Bijection, Injection
<1>4. \A k \in Stored : Whole(PutLine(k, store[k])) \in SoundPiece
  BY DEF Stored, Content, Whole, PutLine, SoundPiece, Piece, Line
<1> QED  BY <1>2, <1>3, <1>4
-----------------------------------------------------------------------------
(* The invariant holds at the start.                                       *)
LEMMA TypeInit == Init => TypeInv
<1> SUFFICES ASSUME Init PROVE TypeInv
  OBVIOUS
<1>1. store \in Content /\ recent \in [Key -> SUBSET (Value \cup {NoValue})]
  BY DEF Init, Content
<1>2. since \in [Key -> SUBSET (Value \cup {NoValue})]
  BY <1>1 DEF Init
<1>3. aof = <<>> /\ logBuffer = <<>> /\ synced \in 0..Len(aof) /\ older = {}
  BY DEF Init
<1>4. <<>> \in Seq(Line) /\ <<>> \in Seq(Piece) /\ <<>> \in Seq(SoundPiece)
  OBVIOUS
<1>5. syncing \in BOOLEAN /\ dirty \in BOOLEAN /\ bad \in BOOLEAN
  BY DEF Init
<1>51. replaying \in BOOLEAN
  BY DEF Init
<1>6. phase \in {"off", "up", "closing", "stopped"} /\ older \subseteq File
  BY <1>3 DEF Init
<1> QED  BY <1>1, <1>2, <1>3, <1>4, <1>5, <1>51, <1>6 DEF TypeInv, TypeOK

(* Every step keeps it, whatever goes wrong: what is cut off ends in no    *)
(* newline, and what has one is a line of the log or of the compaction.    *)
LEMMA TypeStep == TypeInv /\ [Next]_vars => TypeInv'
<1> SUFFICES ASSUME TypeInv, [Next]_vars PROVE TypeInv'
  OBVIOUS
<1> USE DEF TypeInv
<1>0. /\ aof \in Seq(SoundPiece) /\ aof \in Seq(Piece) /\ Len(aof) \in Nat
      /\ synced \in Nat /\ [pieces |-> aof, synced |-> synced] \in SoundFile
      /\ store \in Content
  BY SoundIsPiece DEF TypeOK, SoundFile
<1>01. Dies => phase' = "off" /\ syncing' \in BOOLEAN /\ logBuffer' \in Seq(Line)
  <2>1. Dies => syncing' \in BOOLEAN
    BY Zenon DEF Dies
  <2>2. Dies => phase' = "off" /\ logBuffer' \in Seq(Line)
    <3>1. <<>> \in Seq(Line)
      OBVIOUS
    <3> QED  BY <3>1, Zenon DEF Dies
  <2> QED  BY <2>1, <2>2, Zenon
<1>1. CASE Start
  <2>1. replaying' \in BOOLEAN
    BY <1>1 DEF Start
  <2> QED  BY <1>0, <1>1, <2>1, ReplayRecovers DEF Start, disk, TypeOK
<1>2. ASSUME NEW l \in Line, Command(l) PROVE TypeInv'
  <2>1. l.key \in Key /\ l.val \in Value \cup {NoValue}
    BY DEF Line
  <2>2. store' \in Content
    BY <1>0, <1>2, <2>1 DEF Command, Content
  <2>3. recent' \in [Key -> SUBSET (Value \cup {NoValue})]
    BY <1>2, <2>1 DEF Command, TypeOK
  <2>4. since' \in [Key -> SUBSET (Value \cup {NoValue})]
    BY <1>2, <2>1 DEF Command, TypeOK
  <2>5. logBuffer' \in Seq(Line)
    <3>1. logBuffer' = logBuffer \/ logBuffer' = Append(logBuffer, l)
      BY <1>2 DEF Command, Record
    <3>2. logBuffer \in Seq(Line) /\ Append(logBuffer, l) \in Seq(Line)
      BY DEF TypeOK
    <3> QED  BY <3>1, <3>2
  <2>6. dirty' \in BOOLEAN
    <3>1. CASE replaying
      BY <1>2, <3>1 DEF Command, Record, TypeOK
    <3>2. CASE ~replaying
      BY <1>2, <3>2 DEF Command, Record
    <3> QED  BY <3>1, <3>2
  <2> QED  BY <1>2, <2>2, <2>3, <2>4, <2>5, <2>6 DEF Command, disk, TypeOK
<1>3. CASE Write
  <2>1. Written \in Seq(SoundPiece) /\ Len(Written) \in Nat
    BY WrittenType DEF TypeOK
  <2>2. PICK part \in Parts(Written, IF "append" \in Faults THEN 0 ELSE Len(Written), TRUE) :
          /\ aof' = IF bad THEN aof ELSE aof \o part
          /\ bad' = (bad \/ part # Written)
    BY <1>3 DEF Write, Written
  <2>3. part \in Seq(SoundPiece)
    BY <2>1, PartsType
  <2>4. aof' \in Seq(SoundPiece) /\ Len(aof') >= Len(aof)
    BY <1>0, <2>2, <2>3
  <2>5. aof' \in Seq(Piece) /\ synced' \in 0..Len(aof')
    BY <1>0, <1>3, <2>4, SoundIsPiece DEF Write, TypeOK
  <2>6. since' \in [Key -> SUBSET (Value \cup {NoValue})]
    BY <1>0, <1>3 DEF Write, Content
  <2>7. bad' \in BOOLEAN
    BY <2>2
  <2> QED  BY <1>3, <2>4, <2>5, <2>6, <2>7 DEF Write, TypeOK
<1>4. CASE Sync
  <2>1. synced' \in 0..Len(aof') /\ aof' = aof
    BY <1>0, <1>4 DEF Sync
  <2>2. syncing' \in BOOLEAN
    BY <1>4, Zenon DEF Sync
  <2> QED  BY <1>4, <2>1, <2>2 DEF Sync, TypeOK
<1>5. CASE BeginShutdown
  BY <1>5 DEF BeginShutdown, disk, TypeOK
<1>6. CASE Shutdown
  <2>1. CASE UNCHANGED disk
    BY <1>6, <2>1 DEF Shutdown, disk, TypeOK
  <2>2. CASE ~UNCHANGED disk
    <3>1. Dump \in Seq(SoundPiece) /\ Len(Dump) \in Nat
      BY <1>0, DumpType
    <3>2. PICK part \in Parts(Dump, IF "dump" \in Faults THEN 0 ELSE Len(Dump), TRUE) :
            /\ aof' = part
            /\ synced' = IF "delayed" \in Faults THEN 0 ELSE Len(part)
            /\ older' = older \cup {[pieces |-> aof, synced |-> synced]}
      BY <1>6, <2>2 DEF Shutdown
    <3>3. part \in Seq(SoundPiece)
      BY <3>1, PartsType
    <3>4. aof' \in Seq(SoundPiece) /\ aof' \in Seq(Piece) /\ synced' \in 0..Len(aof')
      BY <3>2, <3>3, SoundIsPiece
    <3>5. older' \subseteq SoundFile /\ older' \subseteq File
      BY <1>0, <3>2, SoundIsPiece
    <3> QED  BY <1>6, <3>4, <3>5 DEF Shutdown, TypeOK
  <2> QED  BY <2>1, <2>2
<1>7. CASE WriteBack
  BY <1>0, <1>7 DEF WriteBack, process, TypeOK
<1>8. CASE Kill
  BY <1>8, <1>01 DEF Kill, disk, TypeOK
<1>9. CASE PowerFails
  <2>1. PICK f \in older \cup {[pieces |-> aof, synced |-> synced]} :
          \E part \in Parts(f.pieces, f.synced, "tear" \in Faults) :
            aof' = part /\ synced' = Len(part)
    BY <1>9 DEF PowerFails
  <2>2. PICK part \in Parts(f.pieces, f.synced, "tear" \in Faults) :
          aof' = part /\ synced' = Len(part)
    BY <2>1
  <2>3. f.pieces \in Seq(SoundPiece) /\ f.synced \in Nat
    BY <1>0 DEF SoundFile
  <2>4. part \in Seq(SoundPiece)
    BY <2>3, PartsType
  <2>5. aof' \in Seq(SoundPiece) /\ aof' \in Seq(Piece) /\ synced' \in 0..Len(aof')
    BY <2>2, <2>4, SoundIsPiece
  <2> QED  BY <1>9, <1>01, <2>5 DEF PowerFails, TypeOK
<1>10. CASE UNCHANGED vars
  BY <1>10 DEF vars, process, disk, TypeOK
<1> QED  BY <1>1, <1>2, <1>3, <1>4, <1>5, <1>6, <1>7, <1>8, <1>9, <1>10 DEF Next

(* Whatever is cut off, dropped or renamed too early, a file is a sequence *)
(* of lines and of beginnings of lines, no more of it is on the disk than  *)
(* there is, and what loadFromLog makes of it is a table.                  *)
THEOREM TypeCorrect == Spec => []TypeOK
<1>1. TypeInv => TypeOK
  BY DEF TypeInv
<1> QED  BY <1>1, TypeInit, TypeStep, PTL DEF Spec
-----------------------------------------------------------------------------
(* Files without a torn line.                                              *)
WholePiece == [line : Line, ends : {TRUE}]

(* A file of whole lines is read line by line.                             *)
LEMMA WholeLines ==
  ASSUME NEW ps \in Seq(WholePiece)
  PROVE  /\ Len(ps) \in Nat /\ DOMAIN ps = 1..Len(ps)
         /\ LinesOf(ps) = [i \in 1..Len(ps) |-> ps[i].line]
         /\ LinesOf(ps) \in Seq(Line) /\ Len(LinesOf(ps)) = Len(ps)
         /\ ps \in Seq(Piece)
<1>1. /\ DOMAIN ps = 1..Len(ps) /\ Len(ps) \in Nat
      /\ \A i \in 1..Len(ps) : ps[i] \in WholePiece
  OBVIOUS
<1>2. \A p \in WholePiece : p.ends /\ p.line \in Line /\ p \in Piece
  BY DEF WholePiece, Piece
<1>3. \A i \in 1..Len(ps) : ps[i].ends /\ ps[i].line \in Line
  BY <1>1, <1>2
<1>4. \A i \in 1..Len(ps) : i > 1 => ps[i - 1].ends
  BY <1>1, <1>3
<1>5. LinesOf(ps) = [i \in 1..Len(ps) |-> ps[i].line]
  BY <1>1, <1>3, <1>4 DEF LinesOf
<1> QED  BY <1>1, <1>2, <1>3, <1>5

(* One file after another reads as the lines of both.                      *)
LEMMA WholeConcat ==
  ASSUME NEW ps \in Seq(WholePiece), NEW qs \in Seq(WholePiece)
  PROVE  /\ ps \o qs \in Seq(WholePiece)
         /\ LinesOf(ps \o qs) = LinesOf(ps) \o LinesOf(qs)
<1>0. PICK both : both = ps \o qs
  OBVIOUS
<1>1. /\ both \in Seq(WholePiece) /\ Len(both) = Len(ps) + Len(qs)
      /\ \A i \in 1..Len(ps) : both[i] = ps[i]
      /\ \A i \in 1..Len(qs) : both[Len(ps) + i] = qs[i]
  BY <1>0
<1>2. /\ LinesOf(ps) \in Seq(Line) /\ Len(LinesOf(ps)) = Len(ps) /\ Len(ps) \in Nat
      /\ \A i \in 1..Len(ps) : LinesOf(ps)[i] = ps[i].line
  BY WholeLines
<1>3. /\ LinesOf(qs) \in Seq(Line) /\ Len(LinesOf(qs)) = Len(qs) /\ Len(qs) \in Nat
      /\ \A i \in 1..Len(qs) : LinesOf(qs)[i] = qs[i].line
  BY WholeLines
<1>4. /\ LinesOf(both) \in Seq(Line) /\ Len(LinesOf(both)) = Len(ps) + Len(qs)
      /\ \A i \in 1..Len(ps) + Len(qs) : LinesOf(both)[i] = both[i].line
  BY <1>1, WholeLines
<1> DEFINE a == LinesOf(ps)  b == LinesOf(qs)  c == LinesOf(both)
<1>5. \A i \in 1..Len(ps) : c[i] = a[i]
  <2> SUFFICES ASSUME NEW i \in 1..Len(ps) PROVE c[i] = a[i]
    OBVIOUS
  <2>1. i \in 1..Len(ps) + Len(qs)
    BY <1>2, <1>3
  <2> QED  BY <1>1, <1>2, <1>4, <2>1, Zenon
<1>6. \A i \in 1..Len(ps) + Len(qs) : i > Len(ps) => c[i] = b[i - Len(ps)]
  <2> SUFFICES ASSUME NEW i \in 1..Len(ps) + Len(qs), i > Len(ps)
               PROVE  c[i] = b[i - Len(ps)]
    OBVIOUS
  <2>1. PICK j \in 1..Len(qs) : i = Len(ps) + j
    <3>1. i - Len(ps) \in 1..Len(qs) /\ i = Len(ps) + (i - Len(ps))
      BY <1>2, <1>3
    <3> QED  BY <3>1
  <2>2. c[i] = qs[j].line /\ b[j] = qs[j].line
    <3>1. both[i] = qs[j]
      BY <1>1, <2>1, Zenon
    <3>2. c[i] = both[i].line
      BY <1>4, Zenon
    <3>3. b[j] = qs[j].line
      BY <1>3, Zenon
    <3> QED  BY <3>1, <3>2, <3>3
  <2>3. i - Len(ps) = j
    BY <1>2, <2>1
  <2> QED  BY <2>2, <2>3, Zenon
<1>7. /\ a \in Seq(Line) /\ b \in Seq(Line) /\ c \in Seq(Line)
      /\ Len(a) = Len(ps) /\ Len(b) = Len(qs) /\ Len(c) = Len(ps) + Len(qs)
      /\ Len(ps) \in Nat /\ Len(qs) \in Nat
  BY <1>2, <1>3, <1>4
<1> HIDE DEF a, b, c
<1>8. /\ a \o b \in Seq(Line) /\ Len(a \o b) = Len(c)
      /\ \A i \in 1..Len(c) : (a \o b)[i] = c[i]
  <2>1. a \o b \in Seq(Line) /\ Len(a \o b) = Len(c)
    <3>1. a \o b \in Seq(Line) /\ Len(a \o b) = Len(a) + Len(b)
      BY <1>7, ConcatIndices, Zenon
    <3>2. Len(a) + Len(b) = Len(c)
      BY <1>7
    <3> QED  BY <3>1, <3>2, Zenon
  <2>2. ASSUME NEW i \in 1..Len(c) PROVE (a \o b)[i] = c[i]
    <3>1. CASE i <= Len(ps)
      <4>1. i \in 1..Len(a)
        BY <1>7, <3>1
      <4> QED  BY <1>5, <1>7, <4>1, ConcatIndices
    <3>2. CASE i > Len(ps)
      <4>1. i > Len(a) /\ i \in 1..Len(a \o b) /\ i \in 1..Len(ps) + Len(qs)
        BY <1>7, <2>1, <3>2
      <4>2. (a \o b)[i] = b[i - Len(a)]
        BY <1>7, <4>1, ConcatIndices
      <4> QED  BY <1>6, <1>7, <3>2, <4>1, <4>2
    <3> QED  BY <1>7, <3>1, <3>2
  <2> QED  BY <2>1, <2>2
<1>9. c = a \o b
  BY <1>7, <1>8, SeqEqual
<1> QED  BY <1>0, <1>1, <1>9 DEF a, b, c

(* The beginning of a whole file is one.                                   *)
LEMMA WholePrefix ==
  ASSUME NEW ps \in Seq(WholePiece), NEW m \in 0..Len(ps)
  PROVE  SubSeq(ps, 1, m) \in Seq(WholePiece) /\ Len(SubSeq(ps, 1, m)) = m
BY SMT

(* Without a torn line, a part of a file is a beginning of it.             *)
LEMMA PartsUntorn ==
  ASSUME NEW ps \in Seq(WholePiece), NEW n \in Nat, NEW part \in Parts(ps, n, FALSE)
  PROVE  \E m \in n..Len(ps) : part = SubSeq(ps, 1, m)
BY DEF Parts

(* A write that is not cut short leaves all of what it writes.             *)
LEMMA PartsAll ==
  ASSUME NEW ps \in Seq(WholePiece), NEW tears, NEW part \in Parts(ps, Len(ps), tears)
  PROVE  part = ps
<1>1. Len(ps) \in Nat /\ SubSeq(ps, 1, Len(ps)) = ps
  OBVIOUS
<1>2. PICK m \in Len(ps)..Len(ps) :
        part = SubSeq(ps, 1, m) \/ m < Len(ps)
  BY DEF Parts
<1> QED  BY <1>1, <1>2

(* What the flusher writes reads back as the lines of the buffer.          *)
LEMMA WrittenLines ==
  ASSUME logBuffer \in Seq(Line)
  PROVE  Written \in Seq(WholePiece) /\ LinesOf(Written) = logBuffer
<1>1. DOMAIN logBuffer = 1..Len(logBuffer) /\ Len(logBuffer) \in Nat
      /\ \A i \in 1..Len(logBuffer) : logBuffer[i] \in Line
  OBVIOUS
<1>2. \A l \in Line : Whole(l) \in WholePiece /\ Whole(l).line = l
  BY DEF Whole, WholePiece
<1>3. Written = [i \in 1..Len(logBuffer) |-> Whole(logBuffer[i])]
  BY <1>1 DEF Written
<1>4. Written \in Seq(WholePiece) /\ Len(Written) = Len(logBuffer)
  BY <1>1, <1>2, <1>3
<1>5. LinesOf(Written) = [i \in 1..Len(logBuffer) |-> Written[i].line]
  BY <1>4, WholeLines
<1>6. \A i \in 1..Len(logBuffer) : Written[i].line = logBuffer[i]
  BY <1>1, <1>2, <1>3
<1>7. LinesOf(Written) = [i \in 1..Len(logBuffer) |-> logBuffer[i]]
  BY <1>5, <1>6
<1>8. logBuffer = [i \in 1..Len(logBuffer) |-> logBuffer[i]]
  OBVIOUS
<1> QED  BY <1>4, <1>7, <1>8

(* What clients stored reads back.                                         *)
StoredReadable ==
  \A k \in Key : store[k] # NoValue => Readable(PutLine(k, store[k]))

(* The compacted file leaves the table that was compacted.                 *)
LEMMA DumpRecovers ==
  ASSUME store \in Content, StoredReadable
  PROVE  /\ Dump \in Seq(WholePiece)
         /\ \A k \in Key : Recovers(LinesOf(Dump), k, store[k])
<1>1. PICK n \in Nat : \E ks \in Bijection(1..n, Stored) :
        Dump = [i \in 1..n |-> Whole(PutLine(ks[i], store[ks[i]]))]
  BY DumpForm
<1>2. PICK ks \in Bijection(1..n, Stored) :
        Dump = [i \in 1..n |-> Whole(PutLine(ks[i], store[ks[i]]))]
  BY <1>1
<1>3. /\ ks \in [1..n -> Stored]
      /\ \A k \in Stored : \E i \in 1..n : ks[i] = k
      /\ \A i, j \in 1..n : ks[i] = ks[j] => i = j
  BY DEF Bijection, Injection, Surjection, IsInjective
<1>4. \A k \in Stored : k \in Key /\ PutLine(k, store[k]) \in Line
                        /\ Touches(PutLine(k, store[k]), k)
  BY DEF Stored, Content, StoredReadable, PutLine, Line, Touches
<1>5. \A l \in Line : Whole(l) \in WholePiece /\ Whole(l).line = l
  BY DEF Whole, WholePiece
<1>6. Dump \in Seq(WholePiece) /\ Len(Dump) = n
  BY <1>2, <1>3, <1>4, <1>5
<1> DEFINE ls == LinesOf(Dump)
<1>7. Len(ls) = n /\ \A i \in 1..n : ls[i] = Dump[i].line
  BY <1>6, WholeLines
<1>8. \A i \in 1..n : ls[i] = PutLine(ks[i], store[ks[i]])
  BY <1>2, <1>3, <1>4, <1>5, <1>7
<1>81. /\ \A i \in 1..n : ks[i] \in Stored /\ ls[i].val = store[ks[i]]
       /\ \A i \in 1..n : Touches(ls[i], ks[i])
       /\ \A i \in 1..n, k \in Key : Touches(ls[i], k) => ks[i] = k
  <2>1. \A i \in 1..n : ks[i] \in Stored
    BY <1>3
  <2>2. \A k : PutLine(k, store[k]).key = k /\ PutLine(k, store[k]).val = store[k]
    BY DEF PutLine
  <2>3. \A i \in 1..n, k \in Key : Touches(ls[i], k) => ls[i].key = k
    BY DEF Touches
  <2>4. \A i \in 1..n : Touches(PutLine(ks[i], store[ks[i]]), ks[i])
    BY <1>4, <2>1
  <2> HIDE DEF ls
  <2> QED  BY <1>8, <2>1, <2>2, <2>3, <2>4, ZenonT(40)
<1> HIDE DEF ls
<1>9. ASSUME NEW k \in Key PROVE Recovers(ls, k, store[k])
  <2>1. CASE k \in Stored
    <3>1. PICK i \in 1..n : ks[i] = k
      BY <1>3, <2>1
    <3>2. Touches(ls[i], k) /\ ls[i].val = store[k]
      BY <1>81, <3>1
    <3>3. \A j \in 1..n : j > i => ~Touches(ls[j], k)
      BY <1>3, <1>81, <3>1
    <3> QED  BY <1>7, <3>2, <3>3 DEF Recovers, Leaves
  <2>2. CASE k \notin Stored
    <3>1. \A i \in 1..n : ~Touches(ls[i], k)
      BY <1>81, <2>2
    <3>2. store[k] = NoValue
      BY <2>2 DEF Stored
    <3> QED  BY <1>7, <3>1, <3>2 DEF Recovers, Leaves
  <2> QED  BY <2>1, <2>2
<1> QED  BY <1>6, <1>9 DEF ls
-----------------------------------------------------------------------------
(* Without a torn line and a full disk, no file has a torn line, nothing   *)
(* waits to be written in a DB that is not open, and what is in the file   *)
(* and the buffer is the table, unless the DB takes itself to be replaying *)
(* and has logged and counted nothing at all.                              *)
CleanInv ==
  /\ TypeInv
  /\ ~bad
  /\ aof \in Seq(WholePiece)
  /\ \A f \in older : f.pieces \in Seq(WholePiece)
  /\ phase \in {"off", "stopped"} => logBuffer = <<>> /\ ~syncing
  /\ StoredReadable
  /\ phase # "off" /\ replaying => aof = <<>> /\ logBuffer = <<>> /\ ~dirty
  /\ phase # "off" /\ ~replaying =>
       \A k \in Key : Recovers(LinesOf(aof) \o logBuffer, k, store[k])

(* It holds before the first load.                                         *)
LEMMA CleanInit == Init => CleanInv
<1> SUFFICES ASSUME Init PROVE CleanInv
  OBVIOUS
<1>1. <<>> \in Seq(WholePiece)
  OBVIOUS
<1>2. StoredReadable
  BY DEF Init, StoredReadable
<1> QED  BY <1>1, <1>2, TypeInit DEF Init, CleanInv

(* loadFromLog takes only lines that parseCommand understands.             *)
LEMMA ReplayReadable ==
  ASSUME NEW ps \in Seq(WholePiece), NEW k \in Key, Replay(ps)[k] # NoValue
  PROVE  Readable(PutLine(k, Replay(ps)[k]))
<1>1. ps \in Seq(Piece)
  BY WholeLines
<1>2. Recovers(LinesOf(ps), k, Replay(ps)[k])
  BY <1>1, ReplayRecovers
<1>3. PICK i \in 1..Len(LinesOf(ps)) :
        Touches(LinesOf(ps)[i], k) /\ LinesOf(ps)[i].val = Replay(ps)[k]
  BY <1>2 DEF Recovers, Leaves
<1> QED  BY <1>3 DEF Touches, Readable, PutLine

(* Every step keeps it, also when new names reach the disk early.          *)
LEMMA CleanStep ==
  ASSUME Faults \subseteq {"delayed"}
  PROVE  CleanInv /\ [Next]_vars => CleanInv'
<1> SUFFICES ASSUME CleanInv, [Next]_vars PROVE CleanInv'
  OBVIOUS
<1>a. TypeInv'
  BY TypeStep DEF CleanInv
<1>b. /\ "append" \notin Faults /\ "dump" \notin Faults /\ "tear" \notin Faults
      /\ ("tear" \in Faults) = FALSE
  OBVIOUS
<1>c. /\ aof \in Seq(WholePiece) /\ LinesOf(aof) \in Seq(Line)
      /\ logBuffer \in Seq(Line) /\ store \in Content
      /\ aof \in Seq(Piece) /\ Len(aof) \in Nat /\ synced \in 0..Len(aof)
  BY WholeLines DEF CleanInv, TypeInv, TypeOK
<1>d. \A s \in Seq(Line) : s \o <<>> = s
  OBVIOUS
<1>1. CASE Start
  <2>1. store' = Replay(aof) /\ aof' = aof /\ older' = older /\ logBuffer' = logBuffer
        /\ phase' = "up" /\ syncing' = syncing
    BY <1>1 DEF Start, disk
  <2>6. ~dirty'
    BY <1>1, Zenon DEF Start
  <2>7. replaying' => aof = <<>>
    BY <1>1 DEF Start
  <2>2. logBuffer = <<>>
    BY <1>1 DEF Start, CleanInv
  <2>3. \A k \in Key : Recovers(LinesOf(aof) \o logBuffer, k, store'[k])
    BY <1>c, <1>d, <2>1, <2>2, ReplayRecovers
  <2>4. StoredReadable'
    BY <1>c, <2>1, ReplayReadable DEF StoredReadable
  <2>5. ~bad'
    BY <1>1 DEF Start
  <2> QED  BY <1>a, <2>1, <2>2, <2>3, <2>4, <2>5, <2>6, <2>7 DEF CleanInv
<1>2. ASSUME NEW l \in Line, Command(l) PROVE CleanInv'
  <2>1. l.key \in Key /\ l.val \in Value \cup {NoValue} /\ Readable(l)
    BY <1>2 DEF Line, Command
  <2>2. /\ store' = [store EXCEPT ![l.key] = l.val]
        /\ replaying => logBuffer' = logBuffer
        /\ ~replaying => logBuffer' = Append(logBuffer, l)
        /\ aof' = aof /\ older' = older /\ phase' = "up" /\ phase = "up" /\ bad' = bad
    BY <1>2 DEF Command, Record, disk
  <2>6. replaying' = replaying
    BY <1>2, Zenon DEF Command
  <2>7. replaying => aof' = <<>> /\ logBuffer' = <<>> /\ ~dirty'
    BY <1>2, <2>2 DEF Command, Record, CleanInv
  <2>3. \A k \in Key : store'[k] = IF k = l.key THEN l.val ELSE store[k]
    BY <1>c, <2>2 DEF Content
  <2>4. StoredReadable'
    BY <2>1, <2>3 DEF StoredReadable, CleanInv, Readable, PutLine
  <2>5. ASSUME ~replaying, NEW k \in Key
        PROVE  Recovers(LinesOf(aof) \o logBuffer', k, store'[k])
    <3>1. PICK s \in Seq(Line) : s = LinesOf(aof) \o logBuffer
      BY <1>c, ConcatIndices
    <3>2. LinesOf(aof) \o logBuffer' = s \o <<l>>
      <4>1. \A x, y \in Seq(Line) : x \o Append(y, l) = (x \o y) \o <<l>>
        OBVIOUS
      <4> QED  BY <1>c, <2>2, <2>5, <3>1, <4>1, Zenon
    <3>3. Leaves(NoValue, s, k, store[k])
      BY <2>2, <2>5, <3>1 DEF CleanInv, Recovers
    <3>4. Leaves(store[k], <<l>>, k, store'[k])
      BY <2>1, <2>3, LeavesLine DEF Touches
    <3>5. Leaves(NoValue, s \o <<l>>, k, store'[k])
      <4>1. <<l>> \in Seq(Line)
        OBVIOUS
      <4> QED  BY <3>3, <3>4, <4>1, LeavesConcat
    <3> QED  BY <3>2, <3>5 DEF Recovers
  <2> QED  BY <1>a, <2>2, <2>4, <2>5, <2>6, <2>7 DEF CleanInv
<1>3. CASE Write
  <2>1. Written \in Seq(WholePiece) /\ LinesOf(Written) = logBuffer
    BY <1>c, WrittenLines
  <2>2. PICK part \in Parts(Written, Len(Written), TRUE) :
          /\ aof' = IF bad THEN aof ELSE aof \o part
          /\ bad' = (bad \/ part # Written)
    BY <1>3, <1>b DEF Write, Written
  <2>3. part = Written
    BY <2>1, PartsAll
  <2>4. aof' = aof \o Written /\ ~bad'
    BY <2>2, <2>3 DEF CleanInv
  <2>5. aof' \in Seq(WholePiece) /\ LinesOf(aof') = LinesOf(aof) \o logBuffer
    BY <1>c, <2>1, <2>4, WholeConcat
  <2>6. /\ logBuffer' = <<>> /\ store' = store /\ older' = older
        /\ phase' = phase /\ phase \notin {"off", "stopped"}
        /\ replaying' = replaying /\ dirty' = dirty
    BY <1>3 DEF Write
  <2>61. ~replaying
    BY <1>3 DEF Write, CleanInv
  <2>7. LinesOf(aof') \o logBuffer' = LinesOf(aof) \o logBuffer
    <3>1. LinesOf(aof') \in Seq(Line)
      BY <2>5, WholeLines
    <3> QED  BY <1>d, <2>5, <2>6, <3>1
  <2>8. \A k \in Key : Recovers(LinesOf(aof') \o logBuffer', k, store[k])
    BY <2>6, <2>61, <2>7 DEF CleanInv
  <2> QED  BY <1>a, <2>4, <2>5, <2>6, <2>61, <2>8 DEF CleanInv, StoredReadable
<1>4. CASE Sync
  BY <1>a, <1>4 DEF Sync, CleanInv, StoredReadable
<1>5. CASE BeginShutdown
  BY <1>a, <1>5 DEF BeginShutdown, disk, CleanInv, StoredReadable
<1>6. CASE Shutdown
  <2>0. /\ phase' = "stopped" /\ logBuffer = <<>> /\ logBuffer' = <<>> /\ store' = store
        /\ syncing' = syncing /\ ~syncing /\ bad' = bad /\ phase = "closing"
        /\ replaying' = replaying /\ dirty' = dirty
    BY <1>6 DEF Shutdown
  <2>1. CASE UNCHANGED disk
    BY <1>a, <2>0, <2>1 DEF disk, CleanInv, StoredReadable
  <2>2. CASE ~UNCHANGED disk
    <3>1. /\ Dump \in Seq(WholePiece)
          /\ \A k \in Key : Recovers(LinesOf(Dump), k, store[k])
      BY <1>c, DumpRecovers DEF CleanInv
    <3>2. PICK part \in Parts(Dump, Len(Dump), TRUE) :
            /\ aof' = part
            /\ older' = older \cup {[pieces |-> aof, synced |-> synced]}
      BY <1>6, <1>b, <2>2 DEF Shutdown
    <3>3. aof' = Dump
      BY <3>1, <3>2, PartsAll
    <3>4. LinesOf(aof') \o logBuffer' = LinesOf(Dump)
      BY <1>d, <2>0, <3>1, <3>3, WholeLines
    <3>5. \A f \in older' : f.pieces \in Seq(WholePiece)
      BY <1>c, <3>2 DEF CleanInv
    <3>6. ~replaying
      BY <1>6, <2>0, <2>2 DEF Shutdown, CleanInv
    <3> QED  BY <1>a, <2>0, <3>1, <3>3, <3>4, <3>5, <3>6 DEF CleanInv, StoredReadable
  <2> QED  BY <2>1, <2>2
<1>7. CASE WriteBack
  BY <1>a, <1>7 DEF WriteBack, process, CleanInv, StoredReadable
<1>8. CASE Kill
  BY <1>a, <1>8 DEF Kill, Dies, disk, CleanInv, StoredReadable
<1>9. CASE PowerFails
  <2>1. PICK f \in older \cup {[pieces |-> aof, synced |-> synced]} :
          \E part \in Parts(f.pieces, f.synced, FALSE) :
            aof' = part /\ synced' = Len(part)
    BY <1>9, <1>b DEF PowerFails
  <2>2. PICK part \in Parts(f.pieces, f.synced, FALSE) :
          aof' = part /\ synced' = Len(part)
    BY <2>1
  <2>3. f.pieces \in Seq(WholePiece) /\ f.synced \in Nat
    BY <1>c, <2>1 DEF CleanInv, TypeInv, SoundFile
  <2>4. PICK m \in f.synced..Len(f.pieces) : part = SubSeq(f.pieces, 1, m)
    BY <2>3, PartsUntorn
  <2>5. aof' \in Seq(WholePiece)
    BY <2>2, <2>3, <2>4, WholePrefix
  <2> QED  BY <1>a, <1>9, <2>5 DEF PowerFails, Dies, CleanInv, StoredReadable
<1>10. CASE UNCHANGED vars
  BY <1>a, <1>10 DEF vars, process, disk, CleanInv, StoredReadable
<1> QED  BY <1>1, <1>2, <1>3, <1>4, <1>5, <1>6, <1>7, <1>8, <1>9, <1>10 DEF Next

(* A shutdown that runs to its end leaves an AOF that brings back the whole *)
(* table, compacted or not: however often the process was killed or the    *)
(* power failed before, and even if renames reach the disk too early.  The *)
(* DB that took itself to be replaying is the only one that leaves an empty *)
(* file whatever its table held.                                           *)
THEOREM ShutdownIsSafe ==
  ASSUME Faults \subseteq {"delayed"}
  PROVE  Spec => []CleanShutdownLosesNothing
<1>1. CleanInv => CleanShutdownLosesNothing
  <2> SUFFICES ASSUME CleanInv, phase = "stopped", ~replaying
               PROVE  Replay(aof) = store
    BY DEF CleanShutdownLosesNothing, CleanInv
  <2>1. /\ aof \in Seq(Piece) /\ LinesOf(aof) \in Seq(Line)
        /\ store \in Content /\ logBuffer = <<>>
    BY WholeLines DEF CleanInv, TypeInv, TypeOK
  <2>2. LinesOf(aof) \o logBuffer = LinesOf(aof)
    BY <2>1
  <2>3. \A k \in Key : Recovers(LinesOf(aof), k, store[k])
    BY <2>2 DEF CleanInv
  <2>4. /\ Replay(aof) \in Content
        /\ \A k \in Key : Recovers(LinesOf(aof), k, Replay(aof)[k])
    BY <2>1, ReplayRecovers
  <2>5. \A k \in Key : Replay(aof)[k] = store[k]
    BY <2>1, <2>3, <2>4, LeavesOneValue DEF Recovers
  <2> QED  BY <2>1, <2>4, <2>5 DEF Content
<1> QED  BY <1>1, CleanInit, CleanStep, PTL DEF Spec
-----------------------------------------------------------------------------
(* What is left of file ps when at least its first n pieces are gives no   *)
(* key a value that is not in vals.                                        *)
LeavesOnly(ps, n, vals) ==
  \A m \in n..Len(ps), k \in Key : \A v :
     Recovers(LinesOf(SubSeq(ps, 1, m)), k, v) => v \in vals[k]

(* Every file that a power failure may leave, the lines on their way to it *)
(* and the table hold recent values only; once the lines of a flush are in *)
(* the page cache, the whole file holds values since that flush.           *)
RecentInv ==
  /\ CleanInv
  /\ LeavesOnly(aof, synced, recent)
  /\ \A f \in older : LeavesOnly(f.pieces, f.synced, recent)
  /\ syncing => LeavesOnly(aof, Len(aof), since)
  /\ \A i \in 1..Len(logBuffer) :
       /\ logBuffer[i].val \in recent[logBuffer[i].key]
       /\ syncing => logBuffer[i].val \in since[logBuffer[i].key]
  /\ phase # "off" => \A k \in Key : /\ store[k] \in recent[k]
                                     /\ syncing => store[k] \in since[k]

(* It holds at first.                                                      *)
LEMMA RecentInit == Init => RecentInv
<1> SUFFICES ASSUME Init PROVE RecentInv
  OBVIOUS
<1>1. \A m \in 0..0 : SubSeq(aof, 1, m) = <<>>
  BY DEF Init
<1>2. LinesOf(<<>>) = <<>>
  BY DEF LinesOf
<1>3. aof = <<>> /\ synced = 0 /\ \A k \in Key : recent[k] = {NoValue}
  BY DEF Init
<1>4. LeavesOnly(aof, synced, recent)
  <2> SUFFICES ASSUME NEW m \in 0..0, NEW k \in Key, NEW v,
                      Recovers(LinesOf(SubSeq(aof, 1, m)), k, v)
               PROVE  v \in recent[k]
    BY <1>3 DEF LeavesOnly
  <2>1. Leaves(NoValue, <<>>, k, v)
    BY <1>1, <1>2, Zenon DEF Recovers
  <2> QED  BY <1>3, <2>1, LeavesEmpty
<1> QED  BY <1>4, CleanInit DEF Init, RecentInv

(* A longer file leaves old values or those of its new lines.              *)
LEMMA LongerFile ==
  ASSUME NEW ps \in Seq(WholePiece), NEW qs \in Seq(WholePiece),
         NEW n \in 0..Len(ps), NEW vals, LeavesOnly(ps, n, vals),
         \A i \in 1..Len(qs) : qs[i].line.val \in vals[qs[i].line.key]
  PROVE  LeavesOnly(ps \o qs, n, vals)
<1> SUFFICES ASSUME NEW m \in n..Len(ps \o qs), NEW k \in Key, NEW v,
                    Recovers(LinesOf(SubSeq(ps \o qs, 1, m)), k, v)
             PROVE  v \in vals[k]
  BY DEF LeavesOnly
<1>1. CASE m <= Len(ps)
  <2>1. SubSeq(ps \o qs, 1, m) = SubSeq(ps, 1, m)
    BY <1>1
  <2>2. m \in n..Len(ps)
    BY <1>1
  <2>3. Recovers(LinesOf(SubSeq(ps, 1, m)), k, v)
    BY <2>1
  <2> QED  BY <2>2, <2>3 DEF LeavesOnly
<1>2. CASE m > Len(ps)
  <2>1. PICK h \in 1..Len(qs) : m = Len(ps) + h
    <3>1. m - Len(ps) \in 1..Len(qs) /\ m = Len(ps) + (m - Len(ps))
      BY <1>2
    <3> QED  BY <3>1
  <2> DEFINE new == SubSeq(qs, 1, h)
  <2>2. SubSeq(ps \o qs, 1, m) = ps \o new
    BY <2>1
  <2>3. new \in Seq(WholePiece) /\ Len(new) = h /\ \A i \in 1..h : new[i] = qs[i]
    BY SMT
  <2> HIDE DEF new
  <2>4. /\ LinesOf(ps) \in Seq(Line) /\ LinesOf(new) \in Seq(Line)
        /\ Len(LinesOf(new)) = h
        /\ \A i \in 1..h : LinesOf(new)[i] = qs[i].line
    BY <2>3, WholeLines
  <2>5. Leaves(NoValue, LinesOf(ps) \o LinesOf(new), k, v)
    BY <2>2, <2>3, WholeConcat DEF Recovers
  <2>6. CASE Leaves(NoValue, LinesOf(ps), k, v)
    <3>1. SubSeq(ps, 1, Len(ps)) = ps /\ Len(ps) \in n..Len(ps)
      OBVIOUS
    <3> QED  BY <2>6, <3>1 DEF LeavesOnly, Recovers
  <2>7. CASE \E i \in 1..h : Touches(LinesOf(new)[i], k) /\ LinesOf(new)[i].val = v
    <3>1. PICK i \in 1..h : Touches(qs[i].line, k) /\ qs[i].line.val = v
      BY <2>4, <2>7
    <3> QED  BY <3>1 DEF Touches
  <2> QED  BY <2>4, <2>5, <2>6, <2>7, LeavesOldOrNew
<1> QED  BY <1>1, <1>2

(* A file whose replay gives the table holds nothing but the table.        *)
LEMMA WholeTable ==
  ASSUME NEW ps \in Seq(WholePiece), NEW vals,
         \A k \in Key : /\ Recovers(LinesOf(ps), k, store[k])
                        /\ store[k] \in vals[k]
  PROVE  LeavesOnly(ps, Len(ps), vals)
<1> SUFFICES ASSUME NEW m \in Len(ps)..Len(ps), NEW k \in Key, NEW v,
                    Recovers(LinesOf(SubSeq(ps, 1, m)), k, v)
             PROVE  v \in vals[k]
  BY DEF LeavesOnly
<1>1. SubSeq(ps, 1, m) = ps
  OBVIOUS
<1>2. LinesOf(ps) \in Seq(Line)
  BY WholeLines
<1>3. v = store[k]
  BY <1>1, <1>2, LeavesOneValue DEF Recovers
<1> QED  BY <1>3

(* The histories may grow, and more of a file may be known to be there.    *)
LEMMA LeavesMore ==
  ASSUME NEW ps \in Seq(WholePiece), NEW n \in Nat, NEW m \in Nat, n <= m,
         NEW vals, NEW more, \A k \in Key : vals[k] \subseteq more[k],
         LeavesOnly(ps, n, vals)
  PROVE  LeavesOnly(ps, m, more)
BY DEF LeavesOnly
-----------------------------------------------------------------------------
(* Every step keeps it when nothing but kills and power failures happens.  *)
LEMMA RecentStep ==
  ASSUME Faults = {}
  PROVE  RecentInv /\ [Next]_vars => RecentInv'
<1> SUFFICES ASSUME RecentInv, [Next]_vars PROVE RecentInv'
  OBVIOUS
<1>a. CleanInv'
  BY CleanStep DEF RecentInv
<1>b. /\ aof \in Seq(WholePiece) /\ LinesOf(aof) \in Seq(Line)
      /\ logBuffer \in Seq(Line) /\ store \in Content
      /\ aof \in Seq(Piece) /\ Len(aof) \in Nat /\ synced \in 0..Len(aof)
      /\ recent \in [Key -> SUBSET (Value \cup {NoValue})]
      /\ since \in [Key -> SUBSET (Value \cup {NoValue})]
  BY WholeLines DEF RecentInv, CleanInv, TypeInv, TypeOK
<1>c. \A f \in older : f.pieces \in Seq(WholePiece) /\ f.synced \in Nat
  BY DEF RecentInv, CleanInv, TypeInv, SoundFile
<1>1. CASE Start
  <2>1. /\ store' = Replay(aof) /\ aof' = aof /\ synced' = synced /\ older' = older
        /\ logBuffer' = logBuffer /\ syncing' = syncing /\ recent' = recent /\ since' = since
        /\ phase \in {"off", "stopped"}
    BY <1>1 DEF Start, disk
  <2>2. logBuffer = <<>> /\ ~syncing
    BY <2>1 DEF RecentInv, CleanInv
  <2>3. ASSUME NEW k \in Key PROVE store'[k] \in recent[k]
    <3>1. Recovers(LinesOf(aof), k, store'[k])
      BY <1>b, <2>1, ReplayRecovers
    <3>2. SubSeq(aof, 1, Len(aof)) = aof /\ Len(aof) \in synced..Len(aof)
      BY <1>b
    <3> QED  BY <3>1, <3>2 DEF RecentInv, LeavesOnly
  <2> QED  BY <1>a, <2>1, <2>2, <2>3 DEF RecentInv
<1>2. ASSUME NEW l \in Line, Command(l) PROVE RecentInv'
  <2>1. l.key \in Key
    BY DEF Line
  <2>2. /\ store' = [store EXCEPT ![l.key] = l.val]
        /\ logBuffer' \in {logBuffer, Append(logBuffer, l)}
        /\ aof' = aof /\ synced' = synced /\ older' = older /\ syncing' = syncing
        /\ phase = "up"
        /\ recent' = [recent EXCEPT ![l.key] = @ \cup {l.val}]
        /\ since' = [since EXCEPT ![l.key] = @ \cup {l.val}]
    BY <1>2 DEF Command, Record, disk
  <2>3. \A k \in Key : /\ recent[k] \subseteq recent'[k] /\ since[k] \subseteq since'[k]
    BY <1>b, <2>1, <2>2
  <2>4. l.val \in recent'[l.key] /\ l.val \in since'[l.key]
    BY <1>b, <2>1, <2>2
  <2>5. \A k \in Key : /\ store'[k] \in recent'[k]
                       /\ syncing => store'[k] \in since'[k]
    <3>1. \A k \in Key : store'[k] = IF k = l.key THEN l.val ELSE store[k]
      BY <1>b, <2>2 DEF Content
    <3>2. \A k \in Key : store[k] \in recent[k] /\ (syncing => store[k] \in since[k])
      BY <2>2 DEF RecentInv
    <3> QED  BY <2>3, <2>4, <3>1, <3>2
  <2>6. LeavesOnly(aof, synced, recent')
    BY <1>b, <2>3, LeavesMore DEF RecentInv
  <2>7. ASSUME NEW f \in older PROVE LeavesOnly(f.pieces, f.synced, recent')
    <3>1. f.pieces \in Seq(WholePiece) /\ f.synced \in Nat /\ f.synced <= f.synced
      BY <1>c
    <3>2. LeavesOnly(f.pieces, f.synced, recent)
      BY DEF RecentInv
    <3>3. \A k \in Key : recent[k] \subseteq recent'[k]
      BY <2>3
    <3> QED  BY <3>1, <3>2, <3>3, LeavesMore
  <2>8. syncing => LeavesOnly(aof, Len(aof), since')
    <3> SUFFICES ASSUME syncing PROVE LeavesOnly(aof, Len(aof), since')
      OBVIOUS
    <3>1. LeavesOnly(aof, Len(aof), since) /\ Len(aof) <= Len(aof)
      BY <1>b DEF RecentInv
    <3> QED  BY <1>b, <2>3, <3>1, LeavesMore
  <2>9. ASSUME NEW i \in 1..Len(logBuffer')
        PROVE  /\ logBuffer'[i].val \in recent'[logBuffer'[i].key]
               /\ syncing => logBuffer'[i].val \in since'[logBuffer'[i].key]
    <3>1. CASE i \in 1..Len(logBuffer)
      <4>1. logBuffer'[i] = logBuffer[i] /\ logBuffer[i] \in Line
        <5>1. Append(logBuffer, l)[i] = logBuffer[i] /\ logBuffer[i] \in Line
          BY <1>b, <3>1
        <5> QED  BY <2>2, <5>1
      <4>2. logBuffer[i].key \in Key
        BY <4>1 DEF Line
      <4>3. /\ logBuffer[i].val \in recent[logBuffer[i].key]
            /\ syncing => logBuffer[i].val \in since[logBuffer[i].key]
        BY <3>1 DEF RecentInv
      <4> QED  BY <2>3, <4>1, <4>2, <4>3
    <3>2. CASE i \notin 1..Len(logBuffer)
      <4>1. logBuffer'[i] = l
        <5>1. logBuffer' = Append(logBuffer, l)
          BY <2>2, <3>2
        <5> QED  BY <1>b, <3>2, <5>1
      <4> QED  BY <2>4, <4>1
    <3> QED  BY <3>1, <3>2
  <2> QED  BY <1>a, <2>2, <2>5, <2>6, <2>7, <2>8, <2>9 DEF RecentInv
<1>3. CASE Write
  <2>1. Written \in Seq(WholePiece) /\ LinesOf(Written) = logBuffer
    BY <1>b, WrittenLines
  <2>2. PICK part \in Parts(Written, Len(Written), TRUE) :
          aof' = IF bad THEN aof ELSE aof \o part
    BY <1>3 DEF Write, Written
  <2>3. aof' = aof \o Written
    BY <2>1, <2>2, PartsAll DEF RecentInv, CleanInv
  <2>4. /\ logBuffer' = <<>> /\ store' = store /\ older' = older /\ synced' = synced
        /\ recent' = recent /\ since' = [k \in Key |-> {store[k]}]
        /\ phase' = phase /\ phase \notin {"off", "stopped"}
    BY <1>3 DEF Write
  <2>41. ~replaying
    BY <1>3 DEF Write, RecentInv, CleanInv
  <2>5. \A i \in 1..Len(Written) : Written[i].line.val \in recent[Written[i].line.key]
    <3>1. /\ Len(Written) = Len(logBuffer)
          /\ \A i \in 1..Len(Written) : Written[i].line = logBuffer[i]
      BY <2>1, WholeLines
    <3> QED  BY <3>1 DEF RecentInv
  <2>6. LeavesOnly(aof', synced', recent')
    BY <1>b, <2>1, <2>3, <2>4, <2>5, LongerFile DEF RecentInv
  <2>7. LeavesOnly(aof', Len(aof'), since')
    <3>1. aof' \in Seq(WholePiece) /\ LinesOf(aof') = LinesOf(aof) \o logBuffer
      BY <1>b, <2>1, <2>3, WholeConcat
    <3>2. \A k \in Key : Recovers(LinesOf(aof'), k, store[k]) /\ store[k] \in since'[k]
      BY <2>4, <2>41, <3>1 DEF RecentInv, CleanInv
    <3> QED  BY <3>1, <3>2, WholeTable
  <2>8. \A k \in Key : store[k] \in recent'[k] /\ store[k] \in since'[k]
    BY <2>4 DEF RecentInv
  <2>9. /\ Len(logBuffer') = 0
        /\ \A f \in older' : LeavesOnly(f.pieces, f.synced, recent')
    BY <2>4 DEF RecentInv
  <2> QED  BY <1>a, <2>4, <2>6, <2>7, <2>8, <2>9 DEF RecentInv
<1>4. CASE Sync
  <2>1. /\ syncing /\ ~syncing' /\ synced' = Len(aof) /\ older' = {} /\ recent' = since
        /\ since' = since /\ aof' = aof /\ logBuffer' = logBuffer /\ store' = store
        /\ phase' = phase
    BY <1>4 DEF Sync
  <2> QED  BY <1>a, <2>1 DEF RecentInv
<1>5. CASE BeginShutdown
  BY <1>a, <1>5 DEF BeginShutdown, disk, RecentInv
<1>6. CASE Shutdown
  <2>0. /\ logBuffer = <<>> /\ logBuffer' = <<>> /\ store' = store /\ ~syncing /\ ~syncing'
        /\ phase = "closing" /\ recent' = recent /\ since' = since
    BY <1>6 DEF Shutdown
  <2>1. CASE UNCHANGED disk
    BY <1>a, <2>0, <2>1 DEF disk, RecentInv
  <2>2. CASE ~UNCHANGED disk
    <3>1. /\ Dump \in Seq(WholePiece)
          /\ \A k \in Key : Recovers(LinesOf(Dump), k, store[k])
      BY <1>b, DumpRecovers DEF RecentInv, CleanInv
    <3>2. PICK part \in Parts(Dump, Len(Dump), TRUE) :
            /\ aof' = part /\ synced' = Len(part)
            /\ older' = older \cup {[pieces |-> aof, synced |-> synced]}
      BY <1>6, <2>2 DEF Shutdown
    <3>3. aof' = Dump /\ synced' = Len(Dump)
      BY <3>1, <3>2, PartsAll
    <3>4. \A k \in Key : store[k] \in recent[k]
      BY <2>0 DEF RecentInv
    <3>5. LeavesOnly(Dump, Len(Dump), recent)
      BY <3>1, <3>4, WholeTable
    <3>6. \A f \in older' : LeavesOnly(f.pieces, f.synced, recent)
      BY <3>2 DEF RecentInv
    <3> QED  BY <1>a, <2>0, <3>3, <3>4, <3>5, <3>6 DEF RecentInv
  <2> QED  BY <2>1, <2>2
<1>7. CASE WriteBack
  <2>1. LeavesOnly(aof, Len(aof), recent)
    BY <1>b, LeavesMore DEF RecentInv
  <2> QED  BY <1>a, <1>7, <2>1 DEF WriteBack, process, RecentInv
<1>8. CASE Kill
  BY <1>a, <1>8 DEF Kill, Dies, disk, RecentInv
<1>9. CASE PowerFails
  <2>1. PICK f \in older \cup {[pieces |-> aof, synced |-> synced]} :
          \E part \in Parts(f.pieces, f.synced, FALSE) :
            aof' = part /\ synced' = Len(part)
    <3>1. ("tear" \in Faults) = FALSE
      OBVIOUS
    <3> QED  BY <1>9, <3>1 DEF PowerFails
  <2>2. PICK part \in Parts(f.pieces, f.synced, FALSE) :
          aof' = part /\ synced' = Len(part)
    BY <2>1
  <2>3. /\ f.pieces \in Seq(WholePiece) /\ f.synced \in Nat
        /\ LeavesOnly(f.pieces, f.synced, recent)
    BY <1>b, <1>c, <2>1 DEF RecentInv
  <2>4. PICK m \in f.synced..Len(f.pieces) : part = SubSeq(f.pieces, 1, m)
    BY <2>3, PartsUntorn
  <2>5. /\ aof' = SubSeq(f.pieces, 1, m) /\ aof' \in Seq(WholePiece)
        /\ Len(aof') = m /\ synced' = m
    BY <2>2, <2>3, <2>4, WholePrefix
  <2>6. \A h \in m..m : SubSeq(aof', 1, h) = aof'
    BY <2>5
  <2>7. LeavesOnly(aof', synced', recent)
    BY <2>3, <2>5, <2>6 DEF LeavesOnly
  <2> QED  BY <1>a, <1>9, <2>7 DEF PowerFails, Dies, RecentInv
<1>10. CASE UNCHANGED vars
  BY <1>a, <1>10 DEF vars, process, disk, RecentInv
<1> QED  BY <1>1, <1>2, <1>3, <1>4, <1>5, <1>6, <1>7, <1>8, <1>9, <1>10 DEF Next

(* "Everysec": unless a line is torn, a disk is full or a rename overtakes  *)
(* its data, a restarted DB has for every key its value at the last write  *)
(* that was synced, or a later one, and keeps to that through any number   *)
(* of kills, power failures and compactions.                               *)
THEOREM PowerFailureIsBounded ==
  ASSUME Faults = {}
  PROVE  Spec => []LosesOnlyLastSecond
<1>1. RecentInv => LosesOnlyLastSecond
  BY DEF RecentInv, LosesOnlyLastSecond
<1> QED  BY <1>1, RecentInit, RecentStep, PTL DEF Spec
-----------------------------------------------------------------------------
(* Disk implements DurableMap.                                             *)

(* What was given since the write under way is recent too: the fsync only  *)
(* gives up candidates.                                                    *)
SinceRecent == \A k \in Key : since[k] \subseteq recent[k]

DurableInv == RecentInv /\ SinceRecent

(* Every step keeps it when nothing but kills and power failures happens.  *)
LEMMA DurableStep ==
  ASSUME Faults = {}
  PROVE  DurableInv /\ [Next]_vars => DurableInv'
<1> SUFFICES ASSUME DurableInv, [Next]_vars PROVE RecentInv' /\ SinceRecent'
  BY DEF DurableInv
<1>1. RecentInv /\ RecentInv' /\ SinceRecent
  BY RecentStep DEF DurableInv
<1>2. /\ recent \in [Key -> SUBSET (Value \cup {NoValue})]
      /\ since \in [Key -> SUBSET (Value \cup {NoValue})]
  BY <1>1 DEF RecentInv, CleanInv, TypeInv, TypeOK
<1>3. ASSUME NEW l \in Line, Command(l) PROVE SinceRecent'
  <2>1. /\ recent' = [recent EXCEPT ![l.key] = @ \cup {l.val}]
        /\ since' = [since EXCEPT ![l.key] = @ \cup {l.val}]
    BY <1>3 DEF Command
  <2> QED  BY <1>1, <1>2, <2>1 DEF SinceRecent
<1>4. ASSUME Write PROVE SinceRecent'
  <2>1. /\ since' = [k \in Key |-> {store[k]}] /\ recent' = recent
        /\ \A k \in Key : store[k] \in recent[k]
    BY <1>1, <1>4 DEF Write, RecentInv
  <2> QED  BY <2>1 DEF SinceRecent
<1>5. ASSUME Sync PROVE SinceRecent'
  BY <1>5 DEF Sync, SinceRecent
<1>6. ASSUME \/ Start \/ BeginShutdown \/ Shutdown \/ WriteBack \/ Kill \/ PowerFails
             \/ UNCHANGED vars
      PROVE  SinceRecent'
  <2>1. UNCHANGED <<recent, since>>
    BY <1>6 DEF Start, BeginShutdown, Shutdown, WriteBack, Kill, PowerFails, vars
  <2> QED  BY <1>1, <2>1 DEF SinceRecent
<1> QED  BY <1>1, <1>3, <1>4, <1>5, <1>6 DEF Next

(* Every step of Disk is one of DurableMap or changes nothing that         *)
(* DurableMap speaks about.                                                *)
LEMMA DurableSimulation ==
  ASSUME Faults = {}
  PROVE  DurableInv /\ [Next]_vars => Durable!Next \/ UNCHANGED Durable!vars
<1> SUFFICES ASSUME DurableInv, [Next]_vars
             PROVE  Durable!Next \/ UNCHANGED Durable!vars
  OBVIOUS
<1>0. RecentInv /\ RecentInv' /\ SinceRecent
  BY RecentStep DEF DurableInv
<1>a. /\ TypeOK /\ TypeOK'
      /\ store' \in Content /\ recent' \in [Key -> SUBSET (Value \cup {NoValue})]
  BY <1>0 DEF RecentInv, CleanInv, TypeInv, TypeOK
<1> DEFINE Running == phase \in {"up", "closing"}
<1>1. ASSUME Running <=> Running', recent' = recent, Running => store' = store
      PROVE  UNCHANGED Durable!vars
  BY <1>1 DEF Durable!vars
<1>2. ASSUME Running, ~Running', recent' = recent
      PROVE  Durable!Next
  <2>1. Durable!Stop
    BY <1>2 DEF Durable!Stop, Durable!Nothing
  <2> QED  BY <2>1 DEF Durable!Next
<1>3. CASE Start
  <2>1. phase \in {"off", "stopped"} /\ phase' = "up" /\ recent' = recent
    BY <1>3 DEF Start
  <2>2. \A k \in Key : store'[k] \in recent'[k]
    BY <1>0, <2>1 DEF RecentInv
  <2>3. Durable!Start
    BY <1>a, <2>1, <2>2 DEF Durable!Start, Content
  <2> QED  BY <2>3 DEF Durable!Next
<1>4. ASSUME NEW l \in Line, Command(l) PROVE Durable!Next
  <2>1. /\ phase = "up" /\ phase' = "up"
        /\ store' = [store EXCEPT ![l.key] = l.val]
        /\ recent' = [recent EXCEPT ![l.key] = @ \cup {l.val}]
    BY <1>4 DEF Command
  <2>2. l.key \in Key /\ l.val \in Value \cup {NoValue}
    BY DEF Line
  <2>3. Durable!Change(l.key, l.val)
    BY <2>1 DEF Durable!Change
  <2> QED  BY <2>2, <2>3 DEF Durable!Next
<1>5. CASE Write \/ BeginShutdown \/ WriteBack
  <2>1. /\ Running <=> Running'
        /\ recent' = recent /\ store' = store
    BY <1>5 DEF Write, BeginShutdown, WriteBack, process
  <2> QED  BY <1>1, <2>1
<1>6. CASE Sync
  <2>1. syncing /\ phase' = phase /\ store' = store /\ recent' = since
    BY <1>6 DEF Sync
  <2>2. Running
    BY <1>0, <1>a, <2>1 DEF RecentInv, CleanInv, TypeOK
  <2>3. \A k \in Key : store[k] \in recent'[k] /\ recent'[k] \subseteq recent[k]
    BY <1>0, <2>1, <2>2 DEF RecentInv, SinceRecent
  <2>4. Durable!Settle
    BY <1>a, <2>1, <2>2, <2>3 DEF Durable!Settle
  <2> QED  BY <2>4 DEF Durable!Next
<1>7. CASE Shutdown \/ Kill
  BY <1>2, <1>7 DEF Shutdown, Kill, Dies
<1>8. CASE PowerFails
  <2>1. ~Running' /\ recent' = recent
    BY <1>8 DEF PowerFails, Dies
  <2>2. CASE Running
    BY <1>2, <2>1, <2>2
  <2>3. CASE ~Running
    BY <1>1, <2>1, <2>3
  <2> QED  BY <2>2, <2>3
<1>9. CASE UNCHANGED vars
  BY <1>1, <1>9 DEF vars, process
<1> QED  BY <1>3, <1>4, <1>5, <1>6, <1>7, <1>8, <1>9 DEF Next

(* Unless a line is torn, a disk is full or a rename overtakes its data,   *)
(* page cache, fsync and rename are, to a client, one map that comes back  *)
(* after any kills, power failures and shutdowns with what every key had   *)
(* when it was last synced or was given later; an fsync gives up only what *)
(* the table no longer has, and nothing else the log does can be read.     *)
THEOREM DiskIsDurableMap ==
  ASSUME Faults = {}
  PROVE  Spec => IsDurableMap
<1>1. Init => Durable!Init
  BY DEF Init, Durable!Init, Durable!Nothing
<1>2. Init => DurableInv
  BY RecentInit DEF Init, DurableInv, SinceRecent
<1>3. DurableInv /\ [Next]_vars => [Durable!Next]_(Durable!vars)
  BY DurableSimulation
<1> QED  BY <1>1, <1>2, <1>3, DurableStep, PTL DEF Spec, IsDurableMap, Durable!Spec
=============================================================================
