------------------------------ MODULE Snapshot ------------------------------
(***************************************************************************)
(* The bytes of a .db file: Log::writeBinarySnapshot and Log::compress     *)
(* (src/log.cpp), called at every shutdown of a DB, and what a reader can  *)
(* make of them.  (Nothing under src/ reads the file.)  Until the shutdown *)
(* the table changes and is read as in Queries.                            *)
(*                                                                         *)
(* A file is a sequence of fields, each with its width in bytes.  Wrap,    *)
(* MaxInput and Threshold stand for 2^32, LZ4_MAX_INPUT_SIZE and           *)
(* COMPRESSION_THRESHOLD.                                                  *)
(***************************************************************************)
EXTENDS Queries

CONSTANTS SizeWidth,   \* sizeof(size_t)
          Threshold,
          Wrap,        \* an int holds -Wrap \div 2 .. Wrap \div 2 - 1
          MaxInput

ASSUME SizeAssumption ==
  /\ {SizeWidth, Threshold, Wrap, MaxInput} \subseteq Nat /\ SizeWidth > 0
  /\ Threshold < MaxInput /\ 2 * MaxInput < Wrap

VARIABLES
  phase,   \* "up", or "writing", "written", "thrown", "killed" in a shutdown
  stream,  \* datastream, once it is complete
  file     \* the .db file

vars == <<rows, phase, stream, file>>

Magic      == [is |-> "magic", of |-> "TDB"]
Flag(b)    == [is |-> "flag", of |-> b]
Sized(n)   == [is |-> "size", of |-> n]
Data(s)    == [is |-> "data", of |-> s]

(* What LZ4 makes of the first n bytes of the fields s, in c bytes.        *)
Packed(s, n, c) == [is |-> "packed", of |-> s, bytes |-> n, packed |-> c]

Width(f) == CASE f.is = "magic" -> 3
              [] f.is = "flag" -> 1
              [] f.is = "size" -> SizeWidth
              [] f.is = "data" -> Size[f.of]
              [] f.is = "packed" -> f.packed

Bytes(s) == FoldLeft(LAMBDA n, f : n + Width(f), 0, s)

Init ==
  /\ phase = "up"
  /\ rows = <<>>
  /\ stream = <<>>
  /\ file = <<>>
-----------------------------------------------------------------------------
Change ==
  /\ phase = "up"
  /\ \E k \in Key : (\E v \in Value : Put(k, v)) \/ Del(k)
  /\ UNCHANGED <<phase, stream, file>>

(* datastream: the table in the order of iteration.                        *)
Serialized ==
  <<Magic, Sized(Len(rows))>> \o
  FlattenSeq([i \in DOMAIN rows |->
    LET k == KeyOf(rows[i])
        v == ValueOf(rows[i])
    IN <<Sized(Size[k]), Data(k), Sized(Size[v]), Data(v)>>])

Open_Keeps ==   \* mutant: the file is opened without being emptied
  /\ phase = "up"
  /\ phase' = "writing"
  /\ stream' = Serialized
  /\ UNCHANGED <<rows, file>>

(* The file is opened, and by that emptied, when the stream is complete.   *)
Open ==
  /\ phase = "up"
  /\ phase' = "writing"
  /\ stream' = Serialized
  /\ file' = <<>>
  /\ UNCHANGED rows

OpenFails ==
  /\ phase = "up"
  /\ phase' = "written"
  /\ UNCHANGED <<rows, stream, file>>

WritePlain ==
  /\ phase = "writing" /\ Bytes(stream) <= Threshold
  /\ phase' = "written"
  /\ file' = stream
  /\ UNCHANGED <<rows, stream>>
-----------------------------------------------------------------------------
(* The conversion of a size_t to an int.                                   *)
ToInt(n) == ((n + Wrap \div 2) % Wrap) - (Wrap \div 2)

CompressBound_Unchecked(n) ==   \* mutant: a length that wrapped is accepted
  IF n > MaxInput THEN 0 ELSE IF n < 0 THEN n + Wrap ELSE n + 1

(* LZ4_compressBound; it grows by more than one, which makes no difference *)
(* here.                                                                   *)
CompressBound(n) == IF n < 0 \/ n > MaxInput THEN 0 ELSE n + 1

(* How many bytes LZ4_compress_default may need; none when it fails.       *)
CompressedSizes(n) == 1..CompressBound(ToInt(n))

CompressThrows ==
  /\ phase = "writing" /\ Bytes(stream) > Threshold
  /\ CompressedSizes(Bytes(stream)) = {}
  /\ phase' = "thrown"
  /\ UNCHANGED <<rows, stream, file>>

Packing_AlsoEqual(c) ==   \* mutant: <= in the place of <
  IF c <= Bytes(stream)
  THEN <<Flag(1), Sized(Bytes(stream)), Packed(stream, ToInt(Bytes(stream)), c)>>
  ELSE <<Flag(0)>> \o stream

(* Compressed to c bytes when that is smaller, and else behind a flag 0.   *)
Packing(c) ==
  IF c < Bytes(stream)
  THEN <<Flag(1), Sized(Bytes(stream)), Packed(stream, ToInt(Bytes(stream)), c)>>
  ELSE <<Flag(0)>> \o stream

WriteCompressed ==
  /\ phase = "writing" /\ Bytes(stream) > Threshold
  /\ phase' = "written"
  /\ \E c \in CompressedSizes(Bytes(stream)) : file' = Packing(c)
  /\ UNCHANGED <<rows, stream>>

(* The process is killed when only the beginning is in the file.           *)
Killed ==
  /\ phase = "writing"
  /\ phase' = "killed"
  /\ \E whole \in IF Bytes(stream) <= Threshold THEN {stream}
                   ELSE {Packing(c) : c \in CompressedSizes(Bytes(stream))} :
       \E n \in 0..(Len(whole) - 1) : file' = SubSeq(whole, 1, n)
  /\ UNCHANGED <<rows, stream>>

(* The keyspace is opened again (with what the AOF holds: the same table). *)
Reopen ==
  /\ phase \in {"written", "thrown", "killed"}
  /\ phase' = "up"
  /\ stream' = <<>>
  /\ UNCHANGED <<rows, file>>

Next ==
  \/ Change
  \/ Open
  \/ OpenFails
  \/ WritePlain
  \/ CompressThrows
  \/ WriteCompressed
  \/ Killed
  \/ Reopen

Spec == Init /\ [][Next]_vars
-----------------------------------------------------------------------------
(* A reader of the file.  It sees bytes: the first one tells a flag from   *)
(* the T of TDB, and each size tells where the data behind it end.         *)
Unreadable == {<<>>}   \* not a table

Entry(s, i) == SubSeq(s, 4 * i - 1, 4 * i + 2)

IsEntry(e) ==
  /\ e[1].is = "size" /\ e[2].is = "data" /\ e[1].of = Width(e[2])
  /\ e[3].is = "size" /\ e[4].is = "data" /\ e[3].of = Width(e[4])

Parse(s) ==
  IF /\ Len(s) >= 2 /\ s[1].is = "magic" /\ s[2].is = "size" /\ Len(s) = 2 + 4 * s[2].of
     /\ \A i \in 1..s[2].of : IsEntry(Entry(s, i))
  THEN {<<Entry(s, i)[2].of, Entry(s, i)[4].of>> : i \in 1..s[2].of}
  ELSE Unreadable

Expand(s) ==
  IF /\ Len(s) = 2 /\ s[1].is = "size" /\ s[2].is = "packed"
     /\ s[1].of = s[2].bytes /\ s[2].bytes = Bytes(s[2].of)
  THEN s[2].of ELSE <<>>

Decode(f) ==
  IF f = <<>> THEN Unreadable
  ELSE IF f[1].is # "flag" THEN Parse(f)
  ELSE IF f[1].of = 1 THEN Parse(Expand(Tail(f)))
  ELSE Parse(Tail(f))

Pairs  == Range(rows)
Opened == stream # <<>>   \* this shutdown could open the file

TypeOK ==
  /\ phase \in {"up", "writing", "written", "thrown", "killed"}
  /\ RowsOK
  /\ \A f \in Range(stream) \cup Range(file) : Width(f) \in Nat

(* Whatever the table and the order in which it iterates, with or without  *)
(* compression, a file that writeBinarySnapshot has written reads back as  *)
(* the table, up to the size at which compress loses bits of the length.   *)
ReadsBackBelowWrap ==
  phase = "written" /\ Opened /\ Bytes(stream) < Wrap => Decode(file) = Pairs

(* A shutdown that is killed, or in which compress throws, leaves a file   *)
(* that cannot be read, never an older table or a part of this one: it was *)
(* emptied before anything was written.  (A length that wrapped is seen.)  *)
NeverMistaken ==
  Opened => Decode(file) \in {Pairs, Unreadable}

(* The attempt to compress never makes a file longer than the table by     *)
(* more than a size_t (8 bytes): the worst data are those that come out of *)
(* compress one byte shorter, behind a flag and a size.                    *)
CompressionIsWorthIt ==
  phase = "written" /\ Opened => Bytes(file) <= Bytes(stream) + SizeWidth

(* "binary-serialized versions of the compacted state of the keyspace,     *)
(* where all the key-value pairs are stored" (docs.md): so does the file   *)
(* that a shutdown has opened, when the shutdown is over.                  *)
SnapshotHoldsAll ==
  phase \in {"written", "thrown"} /\ Opened => Decode(file) = Pairs

(* "[MAGIC][isCompressed bit][Keyspace size]..." (log.cpp,                 *)
(* writeBinarySnapshot).                                                   *)
DocumentedLayout ==
  phase = "written" /\ Opened => file[1].is = "magic" /\ file[2].is = "flag"
=============================================================================
