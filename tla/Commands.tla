------------------------------ MODULE Commands ------------------------------
(***************************************************************************)
(* From a line to its tokens (src/utils.cpp), to a command (parseCommand   *)
(* in src/db.cpp, src/operations.cpp), to the lines that it logs, and back *)
(* to tokens when the log is replayed.                                     *)
(*                                                                         *)
(* A line is a sequence of characters: quotes, spaces and letters.  The    *)
(* name of an operation is a single letter here; it is only compared.      *)
(***************************************************************************)
EXTENDS Integers, Sequences, FiniteSets, SequencesExt

CONSTANTS Letter,   \* letters
          Quote,
          Space,    \* any whitespace
          MaxLen    \* bound: the length of a line

Op == {"put", "del", "get", "mput", "mdel", "mget"}

ASSUME CharAssumption ==
  /\ Quote # Space /\ {Quote, Space} \cap (Letter \cup Op) = {}
  /\ Letter # {}
ASSUME LengthAssumption == MaxLen \in Nat

VARIABLE line   \* what has been typed, or read from a socket or an AOF

(* Operations are typed first: a line that starts otherwise has none.      *)
Lines == {<<>>} \cup {<<op>> : op \in Op}

Prompt == line \in Lines

Type == /\ Len(line) < MaxLen
        /\ \E c \in Letter \cup {Quote, Space} : line' = Append(line, c)

Enter == line' \in Lines

Edit == Type \/ Enter

Editing == Prompt /\ [][Edit]_line
-----------------------------------------------------------------------------
(* tokenize.                                                               *)
Has(c, s)  == \E i \in DOMAIN s : s[i] = c
Opens(w)   == w[1] = Quote
Closes(w)  == w[Len(w)] = Quote
Join(s, t) == s \o <<Space>> \o t

(* iss >> token: a white space ends a word, if there is one to end.        *)
Finish(a) == IF a.word = <<>> THEN a
             ELSE [all |-> Append(a.all, a.word), word |-> <<>>]
Read(a, c) == IF c = Space THEN Finish(a) ELSE [a EXCEPT !.word = Append(@, c)]

Words(s) == Finish(FoldLeft(Read, [all |-> <<>>, word |-> <<>>], s)).all

Stripped_KeepsQuotes(t) ==   \* mutant: a single word keeps its quotes too
  t

(* A token of one word loses its first and its last character.             *)
Stripped(t) == IF Has(Space, t) THEN t ELSE SubSeq(t, 2, Len(t) - 1)

Take_ClosesAtOpening(a, w) ==   \* mutant: front() in the place of back()
  IF a.open THEN [a EXCEPT !.quoted = Join(@, w), !.open = ~Opens(w)]
  ELSE IF ~Opens(w) THEN [a EXCEPT !.tokens = Append(@, w)]
  ELSE [a EXCEPT !.quoted = w, !.open = ~Closes(w)]

(* A word that opens a quotation takes up words to the one that closes it, *)
(* or to the end of the line.                                              *)
Take(a, w) ==
  IF a.open THEN [a EXCEPT !.quoted = Join(@, w), !.open = ~Closes(w)]
  ELSE IF ~Opens(w) THEN [a EXCEPT !.tokens = Append(@, w)]
  ELSE [a EXCEPT !.quoted = w, !.open = ~Closes(w)]

Emit(a) ==
  IF a.open \/ a.quoted = <<>> THEN a
  ELSE [a EXCEPT !.tokens = Append(@, Stripped(a.quoted)), !.quoted = <<>>]

TakeWord(a, w) == Emit(Take(a, w))

Grouped(ws) ==
  LET end == FoldLeft(TakeWord, [tokens |-> <<>>, quoted |-> <<>>, open |-> FALSE], ws)
  IN Emit([end EXCEPT !.open = FALSE]).tokens

Tokenize(s) == Grouped(Words(s))

IsAllSpace_Any(s) ==   \* mutant: a space is enough
  s = <<>> \/ \E i \in DOMAIN s : s[i] = Space

(* The test before parseCommand reads the first token.                     *)
IsAllSpace(s) == \A i \in DOMAIN s : s[i] = Space
-----------------------------------------------------------------------------
(* parseCommand: the changes of the table and the lines for the log, each  *)
(* a record of an operation, a key and a value.                            *)
Name(ts) == IF Len(ts[1]) = 1 THEN ts[1][1] ELSE "none"

Is(ts, op) ==
  /\ ts # <<>>
  /\ Name(ts) = op
  /\ \/ op = "put" /\ Len(ts) = 3
     \/ op \in {"del", "get"} /\ Len(ts) = 2
     \/ op = "mput" /\ Len(ts) >= 5 /\ Len(ts) % 2 = 1
     \/ op \in {"mdel", "mget"} /\ Len(ts) >= 3

Puts(op, ts) == [i \in 1..((Len(ts) - 1) \div 2) |->
                   [op |-> op, key |-> ts[2 * i], val |-> ts[2 * i + 1]]]
Dels(op, ts) == [i \in 1..(Len(ts) - 1) |-> [op |-> op, key |-> ts[i + 1], val |-> <<>>]]

Changes(ts) ==
  IF Is(ts, "put") \/ Is(ts, "mput") THEN Puts("put", ts)
  ELSE IF Is(ts, "del") \/ Is(ts, "mdel") THEN Dels("del", ts)
  ELSE <<>>

(* op.substr(1): the name without its first letter.                        *)
Single(op) == CASE op = "mput" -> "put" [] op = "mdel" -> "del"

Logged_Always(ts, replaying) ==   \* mutant: put does not look at replaying
  IF Is(ts, "put") THEN Puts("put", ts)
  ELSE IF Is(ts, "mput") THEN Puts(Single("mput"), ts)
  ELSE IF Is(ts, "del") /\ ~replaying THEN Dels("del", ts)
  ELSE IF Is(ts, "mdel") THEN Dels(Single("mdel"), ts)
  ELSE <<>>

(* Only put and del look at replaying.                                     *)
Logged(ts, replaying) ==
  IF Is(ts, "put") /\ ~replaying THEN Puts("put", ts)
  ELSE IF Is(ts, "mput") THEN Puts(Single("mput"), ts)
  ELSE IF Is(ts, "del") /\ ~replaying THEN Dels("del", ts)
  ELSE IF Is(ts, "mdel") THEN Dels(Single("mdel"), ts)
  ELSE <<>>

(* The line that appendCommand writes.                                     *)
Text(l) ==
  IF l.op = "put" THEN Join(Join(<<"put">>, l.key), l.val) ELSE Join(<<"del">>, l.key)
-----------------------------------------------------------------------------
Command == Tokenize(line)

(* What tokenize is for: the words of the line, grouped.  A group starts   *)
(* at the first word and behind every group; it ends with its first word,  *)
(* or, when that opens a quotation, with the next word that closes it, or  *)
(* with the line.                                                          *)
EndOf(ws, i) ==
  IF Opens(ws[i]) /\ \E j \in i..Len(ws) : Closes(ws[j])
  THEN CHOOSE j \in i..Len(ws) : Closes(ws[j]) /\ \A h \in i..(j - 1) : ~Closes(ws[h])
  ELSE IF Opens(ws[i]) THEN Len(ws) ELSE i

Heads(ws) ==
  CHOOSE S \in SUBSET (1..Len(ws)) :
    \A j \in 1..Len(ws) : j \in S <=> j = 1 \/ \E i \in S : EndOf(ws, i) = j - 1

Group(ws, i) == FoldLeft(Join, ws[i], SubSeq(ws, i + 1, EndOf(ws, i)))

(* Every group is a token, in this order, and there are no others.         *)
TokensAreGroups ==
  LET ws    == Words(line)
      heads == Heads(ws) IN
  /\ Len(Command) = Cardinality(heads)
  /\ \A i \in heads :
       Command[Cardinality({h \in heads : h <= i})]
         = IF Opens(ws[i]) THEN Stripped(Group(ws, i)) ELSE ws[i]

(* parseCommand refuses just the lines without a first token.              *)
BlanksAreRefused == IsAllSpace(line) <=> Command = <<>>

(* Which tokens survive the AOF: a logged key reads back as itself, and    *)
(* leaves the value alone, exactly when it is not empty and does not begin *)
(* with a quote, or is a quotation of several words that is closed.  (A    *)
(* value is last on its line, and may also be a quotation left open.)      *)
Durable(t) == t # <<>> /\ (Opens(t) => Has(Space, t) /\ Closes(t))

KeysReadBack ==
  \A n \in DOMAIN Logged(Command, FALSE) :
    LET l == Logged(Command, FALSE)[n] IN
      Durable(l.key) <=>
        \A a \in Letter : Tokenize(Text([l EXCEPT !.op = "put", !.val = <<a>>]))
                            = <<<<"put">>, l.key, <<a>>>>

(* Whatever a logged line has become, loadFromLog, which replays it, adds  *)
(* nothing to the log that it reads.                                       *)
ReplayLogsNothing ==
  \A n \in DOMAIN Logged(Command, FALSE) :
    Logged(Tokenize(Text(Logged(Command, FALSE)[n])), TRUE) = <<>>
-----------------------------------------------------------------------------
(* "Replay the commands from the AOF to fill the store with data" (db.cpp, *)
(* loadFromLog): each logged command is replayed as the change it made.    *)
ReplayRepeatsTheChange ==
  \A n \in DOMAIN Logged(Command, FALSE) :
    Changes(Tokenize(Text(Logged(Command, FALSE)[n]))) = <<Changes(Command)[n]>>

(* "it only contains one word in actuality.  So, remove quotes from        *)
(* beginning and end" (utils.cpp, tokenize): nothing else is removed.      *)
Letters(s) == SelectSeq(s, LAMBDA c : c \notin {Quote, Space})

OnlyQuotesRemoved == FlattenSeq([i \in DOMAIN Command |-> Letters(Command[i])]) = Letters(line)
=============================================================================
