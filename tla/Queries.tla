------------------------------ MODULE Queries -------------------------------
(***************************************************************************)
(* The hash table of a DB (src/db.cpp) as its readers see it: what put and *)
(* del do to it, what the reading operations answer, and what is left of   *)
(* an answer in the reply to mget.  (Snapshot has the specification.)      *)
(*                                                                         *)
(* A request is a sequence of keys.  An answer is a sequence of rows: of   *)
(* keys, of values or of pairs of them.                                    *)
(***************************************************************************)
EXTENDS Integers, Sequences, FiniteSets, SequencesExt

CONSTANTS Key, Value,
          NoValue,     \* std::nullopt
          Size,        \* Size[s]: the bytes of a key or a value
          MaxKeys      \* bound: keys in a request

ASSUME QueryAssumption ==
  NoValue \notin Value /\ MaxKeys \in Nat /\ Size \in [Key \cup Value -> Nat]

VARIABLE rows   \* the pairs of the hash table, in the order of iteration

KeyOf(row)   == row[1]
ValueOf(row) == row[2]

RowOf(k)  == {i \in DOMAIN rows : KeyOf(rows[i]) = k}

Put_Appends(k, v) ==   \* mutant: a multimap
  rows' = Append(rows, <<k, v>>)

(* A new key may move all others (the table grows); an old one moves none. *)
Put(k, v) ==
  IF RowOf(k) = {} THEN rows' \in SetToSeqs(Range(rows) \cup {<<k, v>>})
  ELSE rows' = [i \in DOMAIN rows |-> IF i \in RowOf(k) THEN <<k, v>> ELSE rows[i]]

Del(k) == \E i \in RowOf(k) : rows' = RemoveAt(rows, i)
-----------------------------------------------------------------------------
Get(k) == IF RowOf(k) = {} THEN NoValue ELSE ValueOf(rows[CHOOSE i \in RowOf(k) : TRUE])

MGet(ks)     == [i \in DOMAIN ks |-> Get(ks[i])]
GetItems(ks) == [i \in DOMAIN ks |-> <<ks[i], Get(ks[i])>>]
GetKeys      == [i \in DOMAIN rows |-> KeyOf(rows[i])]
GetValues    == [i \in DOMAIN rows |-> ValueOf(rows[i])]

(* The rows of display(keys): contains looks each stored key up in ks.     *)
Display(ks) ==
  FoldLeft(LAMBDA a, r : IF Contains(ks, KeyOf(r)) THEN Append(a, r) ELSE a, <<>>, rows)

StatsBytes_Keys ==   \* mutant: the sizes of the values are forgotten
  FoldLeft(LAMBDA n, r : n + Size[KeyOf(r)], 0, rows)

StatsBytes == FoldLeft(LAMBDA n, r : n + (Size[KeyOf(r)] + Size[ValueOf(r)]), 0, rows)

MGetReply_StopsAtNull(ks) ==   \* mutant: break in the place of if (v)
  LET n == CHOOSE n \in 0..Len(ks) :
             /\ \A i \in 1..n : MGet(ks)[i] # NoValue
             /\ n < Len(ks) => MGet(ks)[n + 1] = NoValue
  IN SubSeq(MGet(ks), 1, n)

(* The lines that mget sends: parseCommand keeps the values that are there.*)
MGetReply(ks) ==
  FoldLeft(LAMBDA a, v : IF v # NoValue THEN Append(a, v) ELSE a, <<>>, MGet(ks))
-----------------------------------------------------------------------------
RowsOK ==
  /\ rows \in Seq(Key \X Value)
  /\ \A k \in Key : Cardinality(RowOf(k)) <= 1

Requests == UNION {[1..n -> Key] : n \in 1..MaxKeys}

(* The pairs that getItems finds.                                          *)
Found(ks) ==
  FoldLeft(LAMBDA a, r : IF ValueOf(r) # NoValue THEN Append(a, r) ELSE a, <<>>,
           GetItems(ks))

(* The three ways to read some keys (mget, getItems(keys) and              *)
(* display(keys)) agree: mget sends the values of the pairs that getItems  *)
(* finds, in the order of the request and as often as a key is repeated,   *)
(* and display shows each of those pairs once.                             *)
ReadsAgree ==
  \A ks \in Requests :
    /\ MGetReply(ks) = [i \in DOMAIN Found(ks) |-> ValueOf(Found(ks)[i])]
    /\ Range(Display(ks)) = Range(Found(ks))
    /\ Len(Display(ks)) = Cardinality(Range(Found(ks)))

(* The answers of keys and values belong together line by line, as long as *)
(* nothing changes: asking for any key of keys gives that line of values,  *)
(* and the total of stats is what their lines add up to.                   *)
ListsAlign ==
  /\ \A i \in DOMAIN GetKeys : Get(GetKeys[i]) = GetValues[i]
  /\ StatsBytes = FoldLeft(LAMBDA n, s : n + Size[s], 0, GetKeys \o GetValues)

(* "mget alonzo alan" answers "alonzo: church" and "alan: turing"          *)
(* (README.md): a reply to mget tells which of the keys have the values.   *)
MGetNamesKeys ==
  \A ks \in Requests : \A f \in [Range(ks) -> Value \cup {NoValue}] :
    SelectSeq([i \in DOMAIN ks |-> f[ks[i]]], LAMBDA v : v # NoValue) = MGetReply(ks)
      => \A k \in Range(ks) : f[k] = Get(k)
=============================================================================
