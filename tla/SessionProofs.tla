------------------------------ MODULE SessionProofs ------------------------------
(***************************************************************************)
(* Proofs about Session for any set of clients, any replies, and any       *)
(* number of attempts and requests: its types, and that what send()        *)
(* returns answers what it sent.                                           *)
(***************************************************************************)
EXTENDS Session, TLAPS, SequenceTheorems, WellFoundedInduction

(* A client that tries to connect has attempts left.                       *)
TypeInv ==
  /\ TypeOK
  /\ \A c \in Client : cli[c] = "connecting" => tries[c] < MaxRetries

(* Nothing has happened yet.                                               *)
LEMMA TypeInit == Init => TypeInv
<1> SUFFICES ASSUME Init PROVE TypeInv
  OBVIOUS
<1>1. MaxRetries \in Nat \ {0} /\ MaxRequests \in Nat
  BY RetriesAssumption
<1>2. running \in BOOLEAN
  BY Zenon DEF Init
<1>3. /\ requests \in [Client -> Seq(Line)] /\ replies \in [Client -> Seq(Item)]
      /\ buffer \in [Client -> Seq(Item)] /\ answers \in [Client -> Seq(Seq(Item))]
  BY DEF Init
<1>4. /\ tries \in [Client -> 0..MaxRetries] /\ sent \in [Client -> 0..MaxRequests]
      /\ line \in [Client -> Line \cup {NoLine}]
      /\ result \in [Client -> Seq(Item) \cup {NoResult}]
  BY <1>1 DEF Init
<1>5. /\ server \in {"starting", "accepting", "leaving", "exited"}
      /\ backlog \in SUBSET Client
      /\ handler \in [Client -> {"none", "reading", "dispatching"}]
      /\ conn \in [Client -> {"none", "up", "closed", "down"}]
      /\ cli \in [Client -> {"connecting", "prompt", "sending", "ended"}]
  BY DEF Init
<1>6. \A c \in Client : tries[c] = 0
  BY DEF Init
<1> QED  BY <1>1, <1>2, <1>3, <1>4, <1>5, <1>6 DEF TypeInv, TypeOK

(* Connections that are dropped are down.                                  *)
LEMMA DropType ==
  ASSUME TypeOK, NEW cs, Drop(cs)
  PROVE  conn' \in [Client -> {"none", "up", "closed", "down"}]
BY DEF Drop, TypeOK

(* A reply is made of items.                                               *)
LEMMA RespondType ==
  ASSUME TypeOK, NEW c \in Client, line[c] # NoLine,
         NEW body \in Seq({"text", "END", "BYE"}), Respond(c, body)
  PROVE  /\ answers' \in [Client -> Seq(Seq(Item))]
         /\ replies' \in [Client -> Seq(Item)]
         /\ handler' \in [Client -> {"none", "reading", "dispatching"}]
         /\ line' \in [Client -> Line \cup {NoLine}]
<1> DEFINE n == line[c].of
           ans == Stamped(n, body)
           end == [of |-> n, is |-> "END"]
<1>1. n \in 1..MaxRequests
  BY DEF TypeOK, Line
<1>2. ans \in Seq(Item)
  <2>1. DOMAIN body = 1..Len(body) /\ Len(body) \in Nat
        /\ \A i \in 1..Len(body) : body[i] \in {"text", "END", "BYE"}
    OBVIOUS
  <2>2. \A i \in 1..Len(body) : [of |-> n, is |-> body[i]] \in Item
    BY <1>1, <2>1 DEF Item
  <2> QED  BY <2>1, <2>2 DEF Stamped
<1>3. end \in Item
  BY <1>1 DEF Item
<1> HIDE DEF n, ans, end
<1>4. /\ answers' = [answers EXCEPT ![c] = Append(@, ans)]
      /\ replies' = IF conn[c] = "up"
                    THEN [replies EXCEPT ![c] = @ \o (ans \o <<end>>)] ELSE replies
      /\ handler' = [handler EXCEPT ![c] = "reading"]
      /\ line' = [line EXCEPT ![c] = NoLine]
  BY DEF Respond, Framed, ans, n, end
<1>5. Append(answers[c], ans) \in Seq(Seq(Item))
  BY <1>2 DEF TypeOK
<1>6. ans \o <<end>> \in Seq(Item) /\ replies[c] \o (ans \o <<end>>) \in Seq(Item)
  <2>1. ans \o <<end>> \in Seq(Item)
    BY <1>2, <1>3
  <2> QED  BY <2>1 DEF TypeOK
<1> QED  BY <1>4, <1>5, <1>6 DEF TypeOK

(* Some index of a nonempty set of them is the smallest.                   *)
LEMMA SmallestIndex ==
  ASSUME NEW T \in SUBSET Nat, T # {}
  PROVE  \E n \in T : \A m \in T : n <= m
<1>1. PICK R : R = OpToRel(<, Nat)
  OBVIOUS
<1>2. IsWellFoundedOn(R, Nat)
  BY <1>1, NatLessThanWellFounded
<1>3. PICK n \in T : \A m \in T : <<m, n>> \notin R
  BY <1>2, WFMin
<1>4. \A h, i \in Nat : <<h, i>> \in R <=> h < i
  BY <1>1 DEF OpToRel
<1>5. n \in Nat /\ \A m \in T : m \in Nat /\ ~(m < n)
  BY <1>3, <1>4
<1> QED  BY <1>5

Unmarked(items) == \A i \in 1..Len(items) : ~IsMarker(items[i])

(* What find returns: 0 for none, or the place of a marker that has none   *)
(* before it.                                                              *)
LEMMA FirstMarker ==
  ASSUME NEW items, Len(items) \in Nat
  PROVE  LET end == SelectInSeq(items, IsMarker) IN
         \/ end = 0 /\ Unmarked(items)
         \/ /\ end \in 1..Len(items) /\ IsMarker(items[end])
            /\ \A i \in 1..Len(items) : i < end => ~IsMarker(items[i])
<1> DEFINE I == {i \in 1..Len(items) : IsMarker(items[i])}
<1>1. CASE I = {}
  BY <1>1 DEF SelectInSeq, Unmarked
<1>2. CASE I # {}
  <2>1. \E n \in I : \A m \in I : n <= m
    <3>1. I \in SUBSET Nat
      OBVIOUS
    <3> HIDE DEF I
    <3> QED  BY <1>2, <3>1, SmallestIndex
  <2>2. SelectInSeq(items, IsMarker) = Min(I)
    BY <1>2 DEF SelectInSeq
  <2>3. Min(I) \in I /\ \A m \in I : Min(I) <= m
    <3> HIDE DEF I
    <3> QED  BY <2>1 DEF Min
  <2>4. \A i \in 1..Len(items) : i < Min(I) => ~IsMarker(items[i])
    <3>1. \A m \in I : m \in Nat /\ Min(I) \in Nat
      BY <2>3
    <3> QED  BY <2>3, <3>1
  <2> QED  BY <2>2, <2>3, <2>4
<1> QED  BY <1>1, <1>2

(* Every step keeps the types.                                             *)
LEMMA TypeStep == TypeInv /\ [Next]_vars => TypeInv'
<1> SUFFICES ASSUME TypeInv, [Next]_vars PROVE TypeInv'
  OBVIOUS
<1>0. MaxRetries \in Nat \ {0} /\ MaxRequests \in Nat
  BY RetriesAssumption
<1> USE DEF TypeInv
<1>1. CASE StartServer
  <2>1. running' \in BOOLEAN
    BY <1>1, Zenon DEF StartServer
  <2> QED  BY <1>1, <2>1 DEF StartServer, threads, streams, user, TypeOK
<1>2. ASSUME NEW c \in Client, Accept(c) PROVE TypeInv'
  <2>1. conn' \in [Client -> {"none", "up", "closed", "down"}]
    BY <1>2, DropType DEF Accept, TypeOK
  <2> QED  BY <1>2, <2>1 DEF Accept, streams, user, TypeOK
<1>3. CASE Signal
  <2>1. running' \in BOOLEAN
    BY <1>3, Zenon DEF Signal
  <2>2. conn' \in [Client -> {"none", "up", "closed", "down"}]
    BY <1>3, DropType DEF Signal
  <2> QED  BY <1>3, <2>1, <2>2 DEF Signal, threads, streams, user, TypeOK
<1>4. ProcessEnds /\ UNCHANGED <<running, streams, user, answers>> => TypeInv'
  <2> SUFFICES ASSUME ProcessEnds, UNCHANGED <<running, streams, user, answers>>
               PROVE  TypeInv'
    OBVIOUS
  <2>1. conn' \in [Client -> {"none", "up", "closed", "down"}]
    BY DropType DEF ProcessEnds
  <2> QED  BY <2>1 DEF ProcessEnds, streams, user, TypeOK
<1>5. CASE Exit
  BY <1>4, <1>5 DEF Exit
<1>6. ASSUME NEW c \in Client, HandleRead(c) PROVE TypeInv'
  <2>1. requests[c] \in Seq(Line) /\ requests[c] # <<>>
    BY <1>6 DEF HandleRead, TypeOK
  <2>2. Head(requests[c]) \in Line
    BY <2>1
  <2>3. PICK n \in 1..Len(requests[c]) :
          requests' = [requests EXCEPT ![c] = SubSeq(@, n + 1, Len(@))]
    BY <1>6 DEF HandleRead
  <2>4. SubSeq(requests[c], n + 1, Len(requests[c])) \in Seq(Line)
    BY <2>1, SMT
  <2>5. requests' \in [Client -> Seq(Line)]
    BY <2>3, <2>4 DEF TypeOK
  <2> QED  BY <1>6, <2>2, <2>5 DEF HandleRead, main, user, TypeOK
<1>7. ASSUME NEW c \in Client, HandleEof(c) PROVE TypeInv'
  BY <1>7 DEF HandleEof, main, streams, user, TypeOK
<1>8. ASSUME NEW c \in Client, DispatchCommand(c) PROVE TypeInv'
  <2>1. PICK body \in Body : Respond(c, body)
    BY <1>8 DEF DispatchCommand
  <2>2. body \in Seq({"text", "END", "BYE"})
    <3>1. body \in Seq({"text", "END"})
      BY BodyAssumption
    <3> QED  BY <3>1
  <2>3. line[c] # NoLine
    BY <1>8 DEF DispatchCommand, NoLine
  <2> QED  BY <1>8, <2>1, <2>2, <2>3, RespondType DEF DispatchCommand, main, user, TypeOK
<1>9. ASSUME NEW c \in Client, DispatchQuit(c) PROVE TypeInv'
  <2>1. Respond(c, <<"BYE">>) /\ <<"BYE">> \in Seq({"text", "END", "BYE"})
    BY <1>9 DEF DispatchQuit
  <2>2. line[c] # NoLine
    BY <1>9 DEF DispatchQuit, NoLine
  <2>3. running' \in BOOLEAN
    BY <1>9, Zenon DEF DispatchQuit
  <2> QED  BY <1>9, <2>1, <2>2, <2>3, RespondType DEF DispatchQuit, user, TypeOK
<1>10. ASSUME NEW c \in Client, QuitThrows(c) PROVE TypeInv'
  <2>1. running' \in BOOLEAN
    BY <1>10, Zenon DEF QuitThrows
  <2>2. conn' \in [Client -> {"none", "up", "closed", "down"}]
    BY <1>10, DropType DEF QuitThrows
  <2> QED  BY <1>10, <2>1, <2>2 DEF QuitThrows, streams, user, TypeOK
<1>11. ASSUME NEW c \in Client, DispatchBlank(c) PROVE TypeInv'
  BY <1>4, <1>11 DEF DispatchBlank
<1>12. ASSUME NEW c \in Client, Connect(c) PROVE TypeInv'
  <2>1. tries[c] < MaxRetries /\ tries[c] \in Nat
    BY <1>12 DEF Connect, TypeOK
  <2>2. tries' \in [Client -> 0..MaxRetries]
    <3>1. tries[c] + 1 \in 0..MaxRetries
      BY <1>0, <2>1
    <3>2. tries' = tries \/ tries' = [tries EXCEPT ![c] = @ + 1]
      BY <1>12 DEF Connect
    <3> QED  BY <3>1, <3>2 DEF TypeOK
  <2>3. cli' \in [Client -> {"connecting", "prompt", "sending", "ended"}]
    BY <1>12, ZenonT(40) DEF Connect, TypeOK
  <2>4. conn' \in [Client -> {"none", "up", "closed", "down"}]
    BY <1>12 DEF Connect, TypeOK
  <2>5. \A d \in Client : cli'[d] = "connecting" => tries'[d] < MaxRetries
    BY <1>0, <1>12, <2>1 DEF Connect, TypeOK
  <2>6. backlog' \in SUBSET Client
    BY <1>12 DEF Connect, TypeOK
  <2> QED  BY <1>12, <2>2, <2>3, <2>4, <2>5, <2>6 DEF Connect, threads, streams, TypeOK
<1>13. ASSUME NEW c \in Client, NEW what \in {"command", "quit", "blank"}, Send(c, what)
       PROVE  TypeInv'
  <2>1. sent[c] \in 0..MaxRequests /\ sent[c] < MaxRequests
    BY <1>13 DEF Send, TypeOK
  <2>2. sent' \in [Client -> 0..MaxRequests]
    BY <1>0, <1>13, <2>1 DEF Send, TypeOK
  <2>3. [of |-> sent[c] + 1, is |-> what] \in Line
    BY <1>0, <2>1 DEF Line
  <2>4. requests' \in [Client -> Seq(Line)]
    <3>1. Append(requests[c], [of |-> sent[c] + 1, is |-> what]) \in Seq(Line)
      BY <2>3 DEF TypeOK
    <3> QED  BY <1>13, <3>1 DEF Send, TypeOK
  <2>5. buffer' \in [Client -> Seq(Item)]
    BY <1>13 DEF Send, TypeOK
  <2>6. result' \in [Client -> Seq(Item) \cup {NoResult}]
    BY <1>13 DEF Send, TypeOK
  <2>7. /\ cli' \in [Client -> {"connecting", "prompt", "sending", "ended"}]
        /\ \A d \in Client : cli'[d] = "connecting" => cli[d] = "connecting"
    BY <1>13 DEF Send, TypeOK
  <2> QED  BY <1>13, <2>2, <2>4, <2>5, <2>6, <2>7 DEF Send, main, threads, TypeOK
<1>14. ASSUME NEW c \in Client, ReadReply(c) PROVE TypeInv'
  <2>1. PICK n \in 1..Len(replies[c]) :
          LET got == buffer[c] \o SubSeq(replies[c], 1, n)
              end == SelectInSeq(got, IsMarker)
              res == SubSeq(got, 1, end - 1) IN
          /\ replies' = [replies EXCEPT ![c] = SubSeq(@, n + 1, Len(@))]
          /\ \/ /\ end = 0
                /\ buffer' = [buffer EXCEPT ![c] = got]
                /\ UNCHANGED <<cli, conn, result>>
             \/ /\ end # 0
                /\ buffer' = [buffer EXCEPT ![c] = <<>>]
                /\ result' = [result EXCEPT ![c] = res]
                /\ Back(c, res)
    BY <1>14 DEF ReadReply
  <2> DEFINE got == buffer[c] \o SubSeq(replies[c], 1, n)
             end == SelectInSeq(got, IsMarker)
             res == SubSeq(got, 1, end - 1)
  <2>2. replies[c] \in Seq(Item) /\ buffer[c] \in Seq(Item)
    BY DEF TypeOK
  <2>3. /\ SubSeq(replies[c], n + 1, Len(replies[c])) \in Seq(Item)
        /\ SubSeq(replies[c], 1, n) \in Seq(Item)
    BY <2>2, SMT
  <2>4. got \in Seq(Item)
    BY <2>2, <2>3
  <2>5. end = 0 \/ end \in 1..Len(got)
    <3>1. Len(got) \in Nat
      BY <2>4
    <3> HIDE DEF got
    <3> QED  BY <3>1, FirstMarker
  <2> HIDE DEF got, end
  <2>6. end # 0 => res \in Seq(Item)
    <3>1. Len(got) \in Nat
      BY <2>4
    <3>2. end # 0 => end - 1 \in 0..Len(got)
      BY <2>5, <3>1
    <3> QED  BY <2>4, <3>2, SMT
  <2> HIDE DEF res
  <2>7. /\ replies' = [replies EXCEPT ![c] = SubSeq(@, n + 1, Len(@))]
        /\ \/ /\ end = 0
              /\ buffer' = [buffer EXCEPT ![c] = got]
              /\ UNCHANGED <<cli, conn, result>>
           \/ /\ end # 0
              /\ buffer' = [buffer EXCEPT ![c] = <<>>]
              /\ result' = [result EXCEPT ![c] = res]
              /\ Back(c, res)
    BY <2>1 DEF got, end, res
  <2>8. replies' \in [Client -> Seq(Item)] /\ buffer' \in [Client -> Seq(Item)]
    <3>1. replies' = [replies EXCEPT ![c] = SubSeq(replies[c], n + 1, Len(replies[c]))]
      BY <2>7
    <3>2. \/ buffer' = [buffer EXCEPT ![c] = got]
          \/ buffer' = [buffer EXCEPT ![c] = <<>>]
      BY <2>7
    <3>3. <<>> \in Seq(Item)
      OBVIOUS
    <3>4. replies \in [Client -> Seq(Item)] /\ buffer \in [Client -> Seq(Item)]
      BY DEF TypeInv, TypeOK
    <3>5. replies' \in [Client -> Seq(Item)]
      BY <2>3, <3>1, <3>4
    <3>6. buffer' \in [Client -> Seq(Item)]
      BY <2>4, <3>2, <3>3, <3>4
    <3> QED  BY <3>5, <3>6
  <2>9. result' \in [Client -> Seq(Item) \cup {NoResult}]
    BY <2>6, <2>7 DEF TypeOK
  <2>10. /\ cli' \in [Client -> {"connecting", "prompt", "sending", "ended"}]
         /\ conn' \in [Client -> {"none", "up", "closed", "down"}]
         /\ \A d \in Client : cli'[d] = "connecting" => cli[d] = "connecting"
    BY <2>7, ZenonT(40) DEF Back, TypeOK
  <2> QED  BY <1>14, <2>8, <2>9, <2>10 DEF ReadReply, main, threads, TypeOK
<1>15. ASSUME NEW c \in Client, SendFails(c) PROVE TypeInv'
  <2>1. buffer' \in [Client -> Seq(Item)] /\ replies' \in [Client -> Seq(Item)]
    BY <1>15 DEF SendFails, TypeOK
  <2>2. /\ cli' \in [Client -> {"connecting", "prompt", "sending", "ended"}]
        /\ \A d \in Client : cli'[d] = "connecting" => cli[d] = "connecting"
    BY <1>15 DEF SendFails, TypeOK
  <2> QED  BY <1>15, <2>1, <2>2 DEF SendFails, main, threads, TypeOK
<1>16. ASSUME NEW c \in Client, Interrupt(c) PROVE TypeInv'
  <2>1. buffer' \in [Client -> Seq(Item)] /\ replies' \in [Client -> Seq(Item)]
    BY <1>16 DEF Interrupt, TypeOK
  <2>2. /\ cli' \in [Client -> {"connecting", "prompt", "sending", "ended"}]
        /\ \A d \in Client : cli'[d] = "connecting" => cli[d] = "connecting"
        /\ conn' \in [Client -> {"none", "up", "closed", "down"}]
    BY <1>16 DEF Interrupt, TypeOK
  <2> QED  BY <1>16, <2>1, <2>2 DEF Interrupt, main, threads, TypeOK
<1>17. CASE UNCHANGED vars
  BY <1>17 DEF vars, main, threads, streams, user, TypeOK
<1> QED  BY <1>1, <1>2, <1>3, <1>5, <1>6, <1>7, <1>8, <1>9, <1>10, <1>11, <1>12, <1>13,
            <1>14, <1>15, <1>16, <1>17
         DEF Next, Main, Handle, Dispatch, User, Receive

(* Whatever a reply contains and wherever a stream is cut, the states of   *)
(* the threads, connections and streams keep their types, and a client     *)
(* tries to connect no more than MaxRetries times.                         *)
THEOREM TypeCorrect == Spec => []TypeOK
<1>1. TypeInv => TypeOK
  BY DEF TypeInv
<1> QED  BY <1>1, TypeInit, TypeStep, PTL DEF Spec
-----------------------------------------------------------------------------
(* The thread and the connection of a client: a thread has a line while it *)
(* dispatches, and no client that waits to be accepted or whose connection *)
(* is down has one.                                                        *)
Control(c) ==
  /\ handler[c] = "dispatching" <=> line[c] # NoLine
  /\ c \in backlog => handler[c] = "none"
  /\ conn[c] \in {"none", "down"} => handler[c] = "none" /\ c \notin backlog
  /\ cli[c] = "connecting" => conn[c] = "none"
  /\ cli[c] \in {"prompt", "sending"} => conn[c] \in {"up", "down"}
  /\ cli[c] = "ended" => conn[c] # "up"

(* Every line that has been sent is answered.                              *)
Quiet(c) ==
  requests[c] = <<>> /\ handler[c] # "dispatching" /\ Len(answers[c]) = sent[c]

NoReply(c) == replies[c] = <<>> /\ buffer[c] = <<>>

(* While send() waits, its line is on its way or in the thread, or the     *)
(* answer to it and one marker are on their way back, or the connection is *)
(* gone.                                                                   *)
Asked(c) ==
  /\ conn[c] = "up" /\ NoReply(c) /\ Len(answers[c]) = sent[c] - 1
  /\ \/ /\ Len(requests[c]) = 1 /\ requests[c][1].of = sent[c]
        /\ handler[c] # "dispatching"
     \/ /\ requests[c] = <<>>
        /\ handler[c] = "dispatching" /\ line[c].of = sent[c]

Answered(c) ==
  /\ Quiet(c)
  /\ Unmarked(buffer[c]) /\ Unmarked(answers[c][sent[c]])
  /\ buffer[c] \o replies[c] =
       Append(answers[c][sent[c]], [of |-> sent[c], is |-> "END"])

Lost(c) == conn[c] = "down" /\ NoReply(c)

Conversation(c) ==
  /\ cli[c] # "sending" => NoReply(c)
  /\ cli[c] = "sending" => /\ sent[c] # 0 /\ result[c] = NoResult
                           /\ Asked(c) \/ Answered(c) \/ Lost(c)
  /\ cli[c] = "prompt" /\ conn[c] = "up" => Quiet(c)
  /\ cli[c] = "connecting" => Quiet(c) /\ result[c] = NoResult
  /\ result[c] # NoResult =>
       sent[c] # 0 /\ Quiet(c) /\ result[c] = answers[c][sent[c]]

Sound(c) == Control(c) /\ Conversation(c)

ReplyInv == TypeInv /\ \A c \in Client : Sound(c)

(* What one client goes through is of no concern to another.               *)
LEMMA OtherClient ==
  ASSUME NEW d \in Client, Sound(d),
         handler'[d] = handler[d], line'[d] = line[d], conn'[d] = conn[d],
         requests'[d] = requests[d], replies'[d] = replies[d], cli'[d] = cli[d],
         sent'[d] = sent[d], buffer'[d] = buffer[d], result'[d] = result[d],
         answers'[d] = answers[d], d \in backlog' => d \in backlog
  PROVE  Sound(d)'
<1>1. Quiet(d)' = Quiet(d) /\ NoReply(d)' = NoReply(d)
  BY DEF Quiet, NoReply
<1>2. Asked(d)' = Asked(d) /\ Answered(d)' = Answered(d) /\ Lost(d)' = Lost(d)
  BY <1>1 DEF Asked, Answered, Lost
<1>3. Control(d)'
  BY DEF Sound, Control
<1>4. Conversation(d)'
  BY <1>1, <1>2 DEF Sound, Conversation
<1> QED  BY <1>3, <1>4 DEF Sound

(* A connection that the server drops leaves its client with what has been *)
(* sent.                                                                   *)
LEMMA DroppedClient ==
  ASSUME TypeInv, NEW d \in Client, Sound(d),
         handler'[d] = "none", line'[d] = NoLine, d \notin backlog',
         conn'[d] = IF conn[d] = "up" THEN "down" ELSE conn[d],
         requests'[d] = requests[d], replies'[d] = replies[d], cli'[d] = cli[d],
         sent'[d] = sent[d], buffer'[d] = buffer[d], result'[d] = result[d],
         answers'[d] = answers[d]
  PROVE  Sound(d)'
<1>1. (Quiet(d) => Quiet(d)') /\ NoReply(d)' = NoReply(d)
  BY DEF Quiet, NoReply
<1>2. (Asked(d) => Lost(d)') /\ (Answered(d) => Answered(d)') /\ (Lost(d) => Lost(d)')
  BY <1>1 DEF Asked, Answered, Lost
<1>3. Control(d)'
  BY DEF Sound, Control
<1>4. Conversation(d)'
  BY <1>1, <1>2 DEF Sound, Conversation
<1> QED  BY <1>3, <1>4 DEF Sound

(* It holds before the first connection.                                   *)
LEMMA ReplyInit == Init => ReplyInv
<1> SUFFICES ASSUME Init, NEW c \in Client PROVE Sound(c)
  BY TypeInit DEF ReplyInv
<1> QED  BY DEF Init, Sound, Control, Conversation, Quiet, NoReply
-----------------------------------------------------------------------------
(* The thread takes the one line that has been sent.                       *)
LEMMA HandleReadSound ==
  ASSUME ReplyInv, NEW c \in Client, HandleRead(c)
  PROVE  Sound(c)'
<1>1. /\ handler[c] = "reading" /\ requests[c] # <<>> /\ requests[c] \in Seq(Line)
      /\ handler \in [Client -> {"none", "reading", "dispatching"}]
      /\ line \in [Client -> Line \cup {NoLine}]
      /\ requests \in [Client -> Seq(Line)]
  BY DEF HandleRead, ReplyInv, TypeInv, TypeOK
<1>2. PICK n \in 1..Len(requests[c]) :
        requests' = [requests EXCEPT ![c] = SubSeq(@, n + 1, Len(@))]
  BY DEF HandleRead
<1>3. handler'[c] = "dispatching" /\ line'[c] = Head(requests[c])
  BY <1>1 DEF HandleRead
<1>4. requests'[c] = SubSeq(requests[c], n + 1, Len(requests[c]))
  BY <1>1, <1>2
<1>5. line'[c] # NoLine
  <2>1. Head(requests[c]) \in Line
    BY <1>1
  <2>2. \A l \in Line : l.of # 0
    BY RetriesAssumption DEF Line
  <2> QED  BY <1>3, <2>1, <2>2 DEF NoLine
<1>6. UNCHANGED <<main, conn, replies, user, answers>>
  BY DEF HandleRead
<1>7. Sound(c)
  BY DEF ReplyInv
<1>8. Control(c)'
  BY <1>1, <1>3, <1>5, <1>6, <1>7 DEF Sound, Control, main, user
<1>9. Asked(c) => Asked(c)'
  <2> SUFFICES ASSUME Asked(c) PROVE Asked(c)'
    OBVIOUS
  <2>1. Len(requests[c]) = 1 /\ requests[c][1].of = sent[c]
    BY <1>1 DEF Asked
  <2>2. requests'[c] = <<>>
    BY <1>1, <1>4, <2>1
  <2>3. line'[c].of = sent[c]
    BY <1>1, <1>3, <2>1
  <2> QED  BY <1>3, <1>6, <2>2, <2>3 DEF Asked, NoReply, user
<1>10. ~Quiet(c)
  BY <1>1 DEF Quiet
<1>11. Lost(c) => FALSE
  BY <1>1, <1>7 DEF Lost, Sound, Control
<1>12. Conversation(c)'
  <2>1. cli[c] # "prompt" /\ cli[c] # "connecting"
    BY <1>1, <1>7, <1>10 DEF Sound, Control, Conversation
  <2>2. result[c] = NoResult
    BY <1>7, <1>10 DEF Sound, Conversation
  <2>3. cli[c] = "sending" => Asked(c)
    BY <1>7, <1>10, <1>11 DEF Sound, Conversation, Answered
  <2> QED  BY <1>6, <1>7, <1>9, <2>1, <2>2, <2>3 DEF Sound, Conversation, NoReply, user
<1> QED  BY <1>8, <1>12 DEF Sound

(* The thread answers the line with a reply that has no marker in it.      *)
LEMMA RespondSound ==
  ASSUME ReplyInv, NEW c \in Client, handler[c] = "dispatching",
         NEW body \in Seq({"text", "BYE"}), Respond(c, body),
         conn' = conn, requests' = requests, backlog' = backlog, UNCHANGED user
  PROVE  Sound(c)'
<1> DEFINE n == line[c].of
           ans == Stamped(n, body)
           end == [of |-> n, is |-> "END"]
<1>1. Sound(c) /\ TypeOK
  BY DEF ReplyInv, TypeInv
<1>2. ans \in Seq([of : {n}, is : {"text", "BYE"}]) /\ Unmarked(ans)
  <2>1. DOMAIN body = 1..Len(body) /\ Len(body) \in Nat
        /\ \A i \in 1..Len(body) : body[i] \in {"text", "BYE"}
    OBVIOUS
  <2>2. ans = [i \in 1..Len(body) |-> [of |-> n, is |-> body[i]]]
    BY <2>1 DEF Stamped
  <2>3. ans \in Seq([of : {n}, is : {"text", "BYE"}]) /\ Len(ans) = Len(body)
    BY <2>1, <2>2
  <2>4. \A i \in 1..Len(body) : ~IsMarker(ans[i])
    BY <2>1, <2>2 DEF IsMarker
  <2> QED  BY <2>3, <2>4 DEF Unmarked
<1> HIDE DEF n, ans, end
<1>3. /\ answers' = [answers EXCEPT ![c] = Append(@, ans)]
      /\ replies' = IF conn[c] = "up"
                    THEN [replies EXCEPT ![c] = @ \o (ans \o <<end>>)] ELSE replies
      /\ handler' = [handler EXCEPT ![c] = "reading"]
      /\ line' = [line EXCEPT ![c] = NoLine]
  BY DEF Respond, Framed, ans, n, end
<1>4. /\ handler'[c] = "reading" /\ line'[c] = NoLine
      /\ answers'[c] = Append(answers[c], ans)
      /\ replies'[c] = IF conn[c] = "up" THEN replies[c] \o (ans \o <<end>>) ELSE replies[c]
  BY <1>1, <1>3 DEF TypeOK
<1>5. ~Quiet(c) /\ ~Lost(c)
  BY <1>1 DEF Quiet, Lost, Sound, Control
<1>6. cli[c] # "prompt" /\ cli[c] # "connecting" /\ result[c] = NoResult
  BY <1>1, <1>5 DEF Sound, Control, Conversation
<1>7. Control(c)'
  BY <1>1, <1>4 DEF Sound, Control, user
<1>8. cli[c] = "sending" => Answered(c)'
  <2> SUFFICES ASSUME cli[c] = "sending" PROVE Answered(c)'
    OBVIOUS
  <2>1. Asked(c)
    BY <1>1, <1>5 DEF Sound, Conversation, Answered
  <2>2. /\ conn[c] = "up" /\ replies[c] = <<>> /\ buffer[c] = <<>>
        /\ requests[c] = <<>> /\ n = sent[c] /\ Len(answers[c]) = sent[c] - 1
    BY <2>1 DEF Asked, NoReply, n
  <2>3. answers[c] \in Seq(Seq(Item)) /\ sent[c] \in Nat
    BY <1>1, RetriesAssumption DEF TypeOK
  <2>4. Len(answers'[c]) = sent[c] /\ answers'[c][sent[c]] = ans
    BY <1>4, <2>2, <2>3
  <2>5. replies'[c] = Append(ans, end) /\ buffer[c] \o replies'[c] = Append(ans, end)
    <3>1. \A x \in Seq([of : {n}, is : {"text", "BYE"}]) :
            <<>> \o (<<>> \o (x \o <<end>>)) = Append(x, end)
            /\ <<>> \o (x \o <<end>>) = Append(x, end)
      OBVIOUS
    <3> QED  BY <1>2, <1>4, <2>2, <3>1, Zenon
  <2>6. Unmarked(buffer[c])
    BY <2>2 DEF Unmarked
  <2> QED  BY <1>2, <1>4, <2>2, <2>4, <2>5, <2>6 DEF Answered, Quiet, user, end
<1>9. cli[c] # "sending" => NoReply(c)'
  <2> SUFFICES ASSUME cli[c] # "sending" PROVE NoReply(c)'
    OBVIOUS
  <2>1. conn[c] # "up"
    BY <1>1, <1>6 DEF TypeOK, Sound, Control, Conversation
  <2> QED  BY <1>1, <1>4, <2>1 DEF Sound, Conversation, NoReply, user
<1>10. Conversation(c)'
  BY <1>1, <1>6, <1>8, <1>9 DEF Sound, Conversation, user
<1> QED  BY <1>7, <1>10 DEF Sound

(* One stream after another.                                               *)
LEMMA Joined ==
  ASSUME NEW x \in Seq(Item), NEW y \in Seq(Item)
  PROVE  /\ Len(x) \in Nat /\ Len(y) \in Nat /\ Len(x \o y) = Len(x) + Len(y)
         /\ \A i \in 1..Len(x) : (x \o y)[i] = x[i]
OBVIOUS

(* send() takes the answer from the stream, all of it, up to the marker.   *)
LEMMA ReadReplySound ==
  ASSUME ReplyInv, NEW c \in Client, ReadReply(c)
  PROVE  Sound(c)'
<1>1. Sound(c) /\ TypeOK
  BY DEF ReplyInv, TypeInv
<1>2. PICK n \in 1..Len(replies[c]) :
        LET got == buffer[c] \o SubSeq(replies[c], 1, n)
            end == SelectInSeq(got, IsMarker)
            res == SubSeq(got, 1, end - 1) IN
        /\ replies' = [replies EXCEPT ![c] = SubSeq(@, n + 1, Len(@))]
        /\ \/ /\ end = 0
              /\ buffer' = [buffer EXCEPT ![c] = got]
              /\ UNCHANGED <<cli, conn, result>>
           \/ /\ end # 0
              /\ buffer' = [buffer EXCEPT ![c] = <<>>]
              /\ result' = [result EXCEPT ![c] = res]
              /\ Back(c, res)
  BY DEF ReadReply
<1> DEFINE got == buffer[c] \o SubSeq(replies[c], 1, n)
           rest == SubSeq(replies[c], n + 1, Len(replies[c]))
           end == SelectInSeq(got, IsMarker)
           res == SubSeq(got, 1, end - 1)
           ans == answers[c][sent[c]]
           mark == [of |-> sent[c], is |-> "END"]
<1>3. cli[c] = "sending" /\ UNCHANGED <<main, threads, requests, tries, sent, answers>>
  BY DEF ReadReply
<1>4. /\ sent[c] \in Nat /\ sent[c] # 0 /\ Quiet(c) /\ result[c] = NoResult
      /\ Unmarked(buffer[c]) /\ Unmarked(ans) /\ buffer[c] \o replies[c] = Append(ans, mark)
      /\ ans \in Seq(Item) /\ mark \in Item
  <2>1. replies[c] # <<>>
    BY <1>1 DEF TypeOK
  <2>2. Answered(c) /\ sent[c] # 0 /\ result[c] = NoResult
    BY <1>1, <1>3, <2>1 DEF Sound, Conversation, Asked, Lost, NoReply
  <2>3. sent[c] \in 1..MaxRequests
    BY <1>1, <2>2, RetriesAssumption DEF TypeOK
  <2>4. answers[c] \in Seq(Seq(Item)) /\ Len(answers[c]) = sent[c]
    BY <1>1, <2>2 DEF TypeOK, Answered, Quiet
  <2>5. ans \in Seq(Item) /\ mark \in Item
    BY <2>3, <2>4, RetriesAssumption DEF Item
  <2> QED  BY <2>2, <2>3, <2>5, RetriesAssumption DEF Answered
<1>5. /\ replies[c] \in Seq(Item) /\ buffer[c] \in Seq(Item)
      /\ got \in Seq(Item) /\ rest \in Seq(Item) /\ Len(rest) = Len(replies[c]) - n
      /\ Len(got) = Len(buffer[c]) + n /\ got \o rest = buffer[c] \o replies[c]
  <2>1. replies[c] \in Seq(Item) /\ buffer[c] \in Seq(Item)
    BY <1>1 DEF TypeOK
  <2>2. n \in Int /\ 1 <= n /\ n <= Len(replies[c]) /\ Len(replies[c]) \in Nat
    BY <2>1
  <2>3. /\ SubSeq(replies[c], 1, n) \in Seq(Item) /\ Len(SubSeq(replies[c], 1, n)) = n
        /\ rest \in Seq(Item) /\ Len(rest) = Len(replies[c]) - n
    <3>1. /\ \A i \in 1..n : replies[c][i] \in Item
          /\ \A i \in n + 1..Len(replies[c]) : replies[c][i] \in Item
      BY <2>1, <2>2
    <3>2. SubSeq(replies[c], 1, n) \in Seq(Item) /\ Len(SubSeq(replies[c], 1, n)) = n
      BY <2>2, <3>1, SubSeqProperties
    <3>3. rest \in Seq(Item) /\ Len(rest) = Len(replies[c]) - n
      BY <2>2, <3>1, SubSeqProperties
    <3> QED  BY <3>2, <3>3
  <2>4. SubSeq(replies[c], 1, n) \o rest = replies[c]
    <3>1. SubSeq(replies[c], 1, n) \o rest = SubSeq(replies[c], 1, Len(replies[c]))
      BY <2>1, <2>2, ConcatAdjacentSubSeq
    <3> QED  BY <2>1, <3>1, SubSeqFull
  <2>5. got \in Seq(Item) /\ Len(got) = Len(buffer[c]) + n
    BY <2>1, <2>3, ConcatProperties
  <2>6. got \o rest = buffer[c] \o replies[c]
    <3>1. \A x, y, z \in Seq(Item) : (x \o y) \o z = x \o (y \o z)
      BY ConcatAssociative
    <3>2. (buffer[c] \o SubSeq(replies[c], 1, n)) \o rest
            = buffer[c] \o (SubSeq(replies[c], 1, n) \o rest)
      <4> HIDE DEF rest
      <4> QED  BY <2>1, <2>3, <3>1, Zenon
    <3> QED  BY <2>4, <3>2
  <2> QED  BY <2>1, <2>3, <2>5, <2>6
<1> HIDE DEF got, rest, end, res, ans, mark
<1>6. /\ Len(got) + Len(rest) = Len(ans) + 1
      /\ Len(got) \in Nat /\ Len(rest) \in Nat /\ Len(ans) \in Nat
      /\ \A i \in 1..Len(got) : got[i] = Append(ans, mark)[i]
  <2>1. got \o rest = Append(ans, mark)
    BY <1>4, <1>5
  <2>2. Len(Append(ans, mark)) = Len(ans) + 1
    BY <1>4
  <2>3. /\ Len(got) \in Nat /\ Len(rest) \in Nat /\ Len(ans) \in Nat
        /\ Len(got \o rest) = Len(got) + Len(rest)
        /\ \A i \in 1..Len(got) : (got \o rest)[i] = got[i]
    BY <1>4, <1>5, Joined
  <2> QED  BY <2>1, <2>2, <2>3
<1>7. /\ \A i \in 1..Len(ans) : ~IsMarker(Append(ans, mark)[i])
      /\ Append(ans, mark)[Len(ans) + 1] = mark /\ IsMarker(mark)
  BY <1>4 DEF Unmarked, IsMarker, mark
<1>8. /\ replies' = [replies EXCEPT ![c] = rest]
      /\ \/ /\ end = 0
            /\ buffer' = [buffer EXCEPT ![c] = got]
            /\ UNCHANGED <<cli, conn, result>>
         \/ /\ end # 0
            /\ buffer' = [buffer EXCEPT ![c] = <<>>]
            /\ result' = [result EXCEPT ![c] = res]
            /\ Back(c, res)
  BY <1>2 DEF got, rest, end, res
<1>9. replies'[c] = rest
  BY <1>1, <1>8 DEF TypeOK
<1>10. CASE Len(rest) # 0
  <2>1. Len(got) <= Len(ans)
    BY <1>6, <1>10
  <2>2. Unmarked(got)
    BY <1>6, <1>7, <2>1 DEF Unmarked
  <2>3. end = 0
    <3>1. end = 0 \/ (end \in 1..Len(got) /\ IsMarker(got[end]))
      BY <1>6, FirstMarker DEF end
    <3> QED  BY <2>2, <3>1 DEF Unmarked
  <2>4. buffer'[c] = got /\ UNCHANGED <<cli, conn, result>>
    BY <1>1, <1>8, <2>3 DEF TypeOK
  <2>5. Answered(c)'
    BY <1>3, <1>4, <1>5, <1>9, <2>2, <2>4
       DEF Answered, Quiet, threads, ans, mark
  <2>6. Control(c)'
    BY <1>1, <1>3, <2>4 DEF Sound, Control, main, threads
  <2>7. Conversation(c)'
    BY <1>3, <1>4, <2>4, <2>5 DEF Conversation
  <2> QED  BY <2>6, <2>7 DEF Sound
<1>11. CASE Len(rest) = 0
  <2>1. Len(got) = Len(ans) + 1 /\ rest = <<>>
    <3>1. Len(got) = Len(ans) + 1
      BY <1>6, <1>11
    <3> QED  BY <1>5, <1>11, <3>1, EmptySeq
  <2>2. end = Len(ans) + 1
    <3>1. \/ end = 0 /\ Unmarked(got)
          \/ end \in 1..Len(got) /\ IsMarker(got[end])
      BY <1>6, FirstMarker DEF end
    <3>2. IsMarker(got[Len(ans) + 1]) /\ \A i \in 1..Len(ans) : ~IsMarker(got[i])
      BY <1>6, <1>7, <2>1
    <3>3. ~Unmarked(got)
      BY <1>6, <2>1, <3>2 DEF Unmarked
    <3> QED  BY <1>6, <2>1, <3>1, <3>2, <3>3
  <2>3. res = ans
    <3>1. got = Append(ans, mark)
      <4>1. \A x, z \in Seq(Item) : x \o <<>> = x
        OBVIOUS
      <4> QED  BY <1>4, <1>5, <2>1, <4>1, Zenon
    <3>2. end - 1 = Len(ans)
      BY <1>6, <2>2
    <3>3. \A z \in Seq(Item) : SubSeq(Append(z, mark), 1, Len(z)) = z
      BY <1>4, SMT
    <3> QED  BY <1>4, <3>1, <3>2, <3>3, Zenon DEF res
  <2>4. /\ buffer' = [buffer EXCEPT ![c] = <<>>] /\ result' = [result EXCEPT ![c] = res]
        /\ Back(c, res)
    BY <1>6, <1>8, <2>2
  <2>5. buffer'[c] = <<>> /\ result'[c] = ans
    BY <1>1, <2>3, <2>4 DEF TypeOK
  <2>6. Quiet(c)' /\ NoReply(c)'
    BY <1>3, <1>4, <1>9, <2>1, <2>5 DEF Quiet, NoReply, threads
  <2>7. /\ cli'[c] \in {"prompt", "ended"}
        /\ conn'[c] = IF cli'[c] = "ended" /\ conn[c] = "up" THEN "closed" ELSE conn[c]
    BY <1>1, <2>4 DEF Back, TypeOK
  <2>8. Control(c)'
    BY <1>1, <1>3, <2>7 DEF Sound, Control, main, threads
  <2>9. Conversation(c)'
    BY <1>3, <1>4, <2>5, <2>6, <2>7 DEF Conversation, ans
  <2> QED  BY <2>8, <2>9 DEF Sound
<1> QED  BY <1>10, <1>11
-----------------------------------------------------------------------------
(* Every step keeps it when no body of a reply holds the marker.           *)
LEMMA ReplyStep ==
  ASSUME \A body \in Body : body \in Seq({"text"})
  PROVE  ReplyInv /\ [Next]_vars => ReplyInv'
<1> SUFFICES ASSUME ReplyInv, [Next]_vars PROVE ReplyInv'
  OBVIOUS
<1>a. TypeInv' /\ TypeOK /\ TypeOK'
  BY TypeStep DEF ReplyInv, TypeInv
<1>b. SUFFICES \A d \in Client : Sound(d)'
  BY <1>a DEF ReplyInv
<1>c. \A d \in Client : Sound(d) /\ (handler[d] = "none" => line[d] = NoLine)
  BY DEF ReplyInv, Sound, Control
<1>1. CASE StartServer
  BY <1>1, <1>c, OtherClient DEF StartServer, threads, streams, user
<1>2. ASSUME NEW c \in Client, Accept(c), NEW d \in Client PROVE Sound(d)'
  <2>1. /\ c \in backlog /\ handler' = [handler EXCEPT ![c] = "reading"]
        /\ UNCHANGED <<running, line, streams, user, answers>>
    BY <1>2 DEF Accept
  <2>2. \/ backlog' = backlog \ {c} /\ UNCHANGED conn
        \/ backlog' = {} /\ Drop(backlog \ {c})
    BY <1>2 DEF Accept
  <2>3. CASE d = c
    <3>1. conn'[c] = conn[c] /\ c \notin backlog'
      BY <2>2 DEF Drop
    <3>2. handler[c] = "none" /\ handler'[c] = "reading" /\ line[c] = NoLine
          /\ conn[c] \notin {"none", "down"}
      BY <1>a, <1>c, <2>1 DEF Sound, Control, TypeOK
    <3>3. Control(c)'
      BY <1>c, <2>1, <3>1, <3>2 DEF Sound, Control, user
    <3>4. Quiet(c)' = Quiet(c) /\ NoReply(c)' = NoReply(c)
      BY <2>1, <3>2 DEF Quiet, NoReply, streams, user
    <3>5. Asked(c)' = Asked(c) /\ Answered(c)' = Answered(c) /\ Lost(c)' = Lost(c)
      BY <2>1, <3>1, <3>2, <3>4 DEF Asked, Answered, Lost, streams, user
    <3>6. Conversation(c)'
      BY <1>c, <2>1, <3>1, <3>4, <3>5 DEF Sound, Conversation, user
    <3> QED  BY <2>3, <3>3, <3>6 DEF Sound
  <2>4. CASE d # c /\ d \in backlog /\ backlog' = {} /\ Drop(backlog \ {c})
    <3>1. handler[d] = "none" /\ line[d] = NoLine
      BY <1>c, <2>4 DEF Sound, Control
    <3>2. /\ handler'[d] = "none" /\ line'[d] = NoLine /\ d \notin backlog'
          /\ conn'[d] = IF conn[d] = "up" THEN "down" ELSE conn[d]
      BY <1>a, <2>1, <2>4, <3>1 DEF Drop, TypeOK
    <3> QED  BY <1>c, <2>1, <3>2, DroppedClient DEF ReplyInv, streams, user
  <2>5. CASE d # c /\ ((backlog' = backlog \ {c} /\ UNCHANGED conn) \/ d \notin backlog)
    <3>1. conn'[d] = conn[d] /\ (d \in backlog' => d \in backlog)
      BY <2>2, <2>5 DEF Drop
    <3>2. handler'[d] = handler[d]
      BY <1>a, <2>1, <2>5 DEF TypeOK
    <3> QED  BY <1>c, <2>1, <3>1, <3>2, OtherClient DEF streams, user
  <2> QED  BY <2>2, <2>3, <2>4, <2>5
<1>3. ASSUME Signal, NEW d \in Client PROVE Sound(d)'
  <2>1. /\ backlog' = {} /\ Drop(backlog) /\ UNCHANGED <<threads, streams, user, answers>>
    BY <1>3 DEF Signal
  <2>2. CASE d \in backlog
    <3>1. handler[d] = "none" /\ line[d] = NoLine
      BY <1>c, <2>2 DEF Sound, Control
    <3>2. conn'[d] = IF conn[d] = "up" THEN "down" ELSE conn[d]
      BY <2>1, <2>2 DEF Drop
    <3> QED  BY <1>c, <2>1, <3>1, <3>2, DroppedClient DEF ReplyInv, threads, streams, user
  <2>3. CASE d \notin backlog
    <3>1. conn'[d] = conn[d]
      BY <2>1, <2>3 DEF Drop
    <3> QED  BY <1>c, <2>1, <3>1, OtherClient DEF threads, streams, user
  <2> QED  BY <2>2, <2>3
<1>4. ASSUME ProcessEnds, UNCHANGED <<running, streams, user, answers>>, NEW d \in Client
      PROVE  Sound(d)'
  <2>1. /\ handler'[d] = "none" /\ line'[d] = NoLine /\ d \notin backlog'
        /\ conn'[d] = IF conn[d] = "up" THEN "down" ELSE conn[d]
    BY <1>4 DEF ProcessEnds, Drop
  <2> QED  BY <1>4, <1>c, <2>1, DroppedClient DEF ReplyInv, streams, user
<1>5. CASE Exit
  BY <1>4, <1>5 DEF Exit
<1>6. ASSUME NEW c \in Client, HandleRead(c), NEW d \in Client PROVE Sound(d)'
  <2>1. CASE d # c
    <3>1. PICK n \in 1..Len(requests[c]) :
            requests' = [requests EXCEPT ![c] = SubSeq(@, n + 1, Len(@))]
      BY <1>6 DEF HandleRead
    <3>2. requests'[d] = requests[d] /\ handler'[d] = handler[d] /\ line'[d] = line[d]
      BY <1>6, <1>a, <2>1, <3>1 DEF HandleRead, TypeOK
    <3> QED  BY <1>6, <1>c, <3>2, OtherClient DEF HandleRead, main, user
  <2> QED  BY <1>6, <2>1, HandleReadSound
<1>7. ASSUME NEW c \in Client, HandleEof(c), NEW d \in Client PROVE Sound(d)'
  <2>1. CASE d # c
    <3>1. handler'[d] = handler[d]
      BY <1>7, <1>a, <2>1 DEF HandleEof, TypeOK
    <3> QED  BY <1>7, <1>c, <3>1, OtherClient DEF HandleEof, main, streams, user
  <2>2. CASE d = c
    <3>1. /\ handler[c] = "reading" /\ handler'[c] = "none" /\ conn[c] = "closed"
          /\ UNCHANGED <<main, line, conn, streams, user, answers>>
      BY <1>7, <1>a DEF HandleEof, TypeOK
    <3>2. Control(c)'
      BY <1>c, <3>1 DEF Sound, Control, main, user
    <3>3. Quiet(c)' = Quiet(c) /\ NoReply(c)' = NoReply(c)
      BY <3>1 DEF Quiet, NoReply, streams, user
    <3>4. Answered(c)' = Answered(c) /\ ~Asked(c) /\ ~Lost(c)
      BY <3>1, <3>3 DEF Asked, Answered, Lost, streams, user
    <3>5. Conversation(c)'
      BY <1>c, <3>1, <3>3, <3>4 DEF Sound, Conversation, user
    <3> QED  BY <2>2, <3>2, <3>5 DEF Sound
  <2> QED  BY <2>1, <2>2
<1>8. ASSUME NEW c \in Client, NEW body \in Seq({"text", "BYE"}), Respond(c, body),
             handler[c] = "dispatching", UNCHANGED <<backlog, conn, requests, user>>,
             NEW d \in Client
      PROVE  Sound(d)'
  <2>1. CASE d # c
    <3>1. /\ handler'[d] = handler[d] /\ line'[d] = line[d]
          /\ replies'[d] = replies[d] /\ answers'[d] = answers[d]
      BY <1>8, <1>a, <2>1 DEF Respond, TypeOK
    <3> QED  BY <1>8, <1>c, <3>1, OtherClient DEF user
  <2> QED  BY <1>8, <2>1, RespondSound
<1>9. ASSUME NEW c \in Client, DispatchCommand(c), NEW d \in Client PROVE Sound(d)'
  <2>1. PICK body \in Body : Respond(c, body)
    BY <1>9 DEF DispatchCommand
  <2>2. body \in Seq({"text", "BYE"})
    <3>1. body \in Seq({"text"})
      OBVIOUS
    <3> QED  BY <3>1
  <2> QED  BY <1>8, <1>9, <2>1, <2>2 DEF DispatchCommand, main
<1>10. ASSUME NEW c \in Client, DispatchQuit(c), NEW d \in Client PROVE Sound(d)'
  <2>1. <<"BYE">> \in Seq({"text", "BYE"})
    OBVIOUS
  <2> QED  BY <1>8, <1>10, <2>1 DEF DispatchQuit
<1>11. ASSUME NEW c \in Client, QuitThrows(c), NEW d \in Client PROVE Sound(d)'
  <2>1. /\ handler[c] = "dispatching" /\ handler' = [handler EXCEPT ![c] = "none"]
        /\ line' = [line EXCEPT ![c] = NoLine] /\ Drop({c})
        /\ UNCHANGED <<server, backlog, streams, user, answers>>
    BY <1>11 DEF QuitThrows
  <2>2. CASE d # c
    <3>1. handler'[d] = handler[d] /\ line'[d] = line[d] /\ conn'[d] = conn[d]
      BY <1>a, <2>1, <2>2 DEF Drop, TypeOK
    <3> QED  BY <1>c, <2>1, <3>1, OtherClient DEF streams, user
  <2>3. CASE d = c
    <3>1. c \notin backlog'
      BY <1>c, <2>1 DEF Sound, Control
    <3>2. /\ handler'[c] = "none" /\ line'[c] = NoLine
          /\ conn'[c] = IF conn[c] = "up" THEN "down" ELSE conn[c]
      BY <1>a, <2>1 DEF Drop, TypeOK
    <3> QED  BY <1>c, <2>1, <2>3, <3>1, <3>2, DroppedClient DEF ReplyInv, streams, user
  <2> QED  BY <2>2, <2>3
<1>12. ASSUME NEW c \in Client, DispatchBlank(c) PROVE \A d \in Client : Sound(d)'
  BY <1>4, <1>12 DEF DispatchBlank
<1>13. ASSUME NEW c \in Client, Connect(c), NEW d \in Client PROVE Sound(d)'
  <2>1. CASE d # c
    <3>1. conn'[d] = conn[d] /\ cli'[d] = cli[d] /\ (d \in backlog' => d \in backlog)
      BY <1>13, <1>a, <2>1, SMTT(30) DEF Connect, TypeOK
    <3> QED  BY <1>13, <1>c, <3>1, OtherClient DEF Connect, threads, streams
  <2>2. CASE d = c
    <3>1. /\ cli[c] = "connecting"
          /\ UNCHANGED <<threads, streams, sent, buffer, result, answers>>
          /\ \/ cli'[c] = "prompt" /\ conn'[c] = "up"
             \/ /\ cli'[c] \in {"connecting", "ended"} /\ conn'[c] = conn[c]
                /\ backlog' = backlog
      BY <1>13, <1>a, SMTT(30) DEF Connect, TypeOK
    <3>2. /\ conn[c] = "none" /\ handler[c] = "none" /\ c \notin backlog
          /\ Quiet(c) /\ NoReply(c) /\ result[c] = NoResult
      BY <1>c, <3>1 DEF Sound, Control, Conversation
    <3>3. Control(c)'
      BY <1>c, <3>1, <3>2 DEF Sound, Control, threads
    <3>4. Quiet(c)' /\ NoReply(c)'
      BY <3>1, <3>2 DEF Quiet, NoReply, threads, streams
    <3>5. Conversation(c)'
      BY <3>1, <3>2, <3>4 DEF Conversation
    <3> QED  BY <2>2, <3>3, <3>5 DEF Sound
  <2> QED  BY <2>1, <2>2
<1>14. ASSUME NEW c \in Client, NEW what, Send(c, what), NEW d \in Client PROVE Sound(d)'
  <2>1. CASE d # c
    <3>1. /\ cli'[d] = cli[d] /\ sent'[d] = sent[d] /\ buffer'[d] = buffer[d]
          /\ result'[d] = result[d] /\ requests'[d] = requests[d]
      BY <1>14, <1>a, <2>1 DEF Send, TypeOK
    <3> QED  BY <1>14, <1>c, <3>1, OtherClient DEF Send, main, threads
  <2>2. CASE d = c
    <3>1. /\ cli[c] = "prompt" /\ cli'[c] = "sending" /\ sent'[c] = sent[c] + 1
          /\ buffer'[c] = <<>> /\ result'[c] = NoResult
          /\ UNCHANGED <<main, threads, conn, replies, tries, answers>>
          /\ requests'[c] = IF conn[c] = "up"
                            THEN Append(requests[c], [of |-> sent[c] + 1, is |-> what])
                            ELSE requests[c]
          /\ sent[c] \in Nat
      BY <1>14, <1>a, RetriesAssumption DEF Send, TypeOK
    <3>2. Control(c)'
      BY <1>c, <3>1 DEF Sound, Control, main, threads
    <3>3. NoReply(c)'
      BY <1>c, <3>1 DEF Sound, Conversation, NoReply
    <3>4. conn[c] = "up" => Asked(c)'
      <4> SUFFICES ASSUME conn[c] = "up" PROVE Asked(c)'
        OBVIOUS
      <4>1. Quiet(c)
        BY <1>c, <3>1 DEF Sound, Conversation
      <4> DEFINE l == [of |-> sent[c] + 1, is |-> what]
      <4>2. requests'[c] = Append(<<>>, l) /\ l.of = sent'[c]
        BY <3>1, <4>1 DEF Quiet
      <4> HIDE DEF l
      <4>3. Len(Append(<<>>, l)) = 1 /\ Append(<<>>, l)[1] = l
        OBVIOUS
      <4> QED  BY <3>1, <3>3, <4>1, <4>2, <4>3 DEF Asked, Quiet, threads
    <3>5. conn[c] # "up" => Lost(c)'
      BY <1>c, <3>1, <3>3 DEF Sound, Control, Lost
    <3>6. Conversation(c)'
      <4>1. sent'[c] # 0
        BY <3>1
      <4>2. Asked(c)' \/ Lost(c)'
        BY <3>4, <3>5
      <4> QED  BY <3>1, <4>1, <4>2 DEF Conversation
    <3> QED  BY <2>2, <3>2, <3>6 DEF Sound
  <2> QED  BY <2>1, <2>2
<1>15. ASSUME NEW c \in Client, ReadReply(c), NEW d \in Client PROVE Sound(d)'
  <2>1. CASE d # c
    <3>1. PICK n \in 1..Len(replies[c]) :
            LET got == buffer[c] \o SubSeq(replies[c], 1, n)
                end == SelectInSeq(got, IsMarker)
                res == SubSeq(got, 1, end - 1) IN
            /\ replies' = [replies EXCEPT ![c] = SubSeq(@, n + 1, Len(@))]
            /\ \/ /\ end = 0
                  /\ buffer' = [buffer EXCEPT ![c] = got]
                  /\ UNCHANGED <<cli, conn, result>>
               \/ /\ end # 0
                  /\ buffer' = [buffer EXCEPT ![c] = <<>>]
                  /\ result' = [result EXCEPT ![c] = res]
                  /\ Back(c, res)
      BY <1>15 DEF ReadReply
    <3>2. /\ replies'[d] = replies[d] /\ buffer'[d] = buffer[d] /\ cli'[d] = cli[d]
          /\ conn'[d] = conn[d] /\ result'[d] = result[d]
      <4>1. replies'[d] = replies[d]
        BY <1>a, <2>1, <3>1 DEF TypeOK
      <4>2. buffer'[d] = buffer[d] /\ result'[d] = result[d]
        BY <1>a, <2>1, <3>1, ZenonT(40) DEF TypeOK
      <4>3. \A res : Back(c, res) => cli'[d] = cli[d] /\ conn'[d] = conn[d]
        BY <1>a, <2>1 DEF Back, TypeOK
      <4> QED  BY <3>1, <4>1, <4>2, <4>3, Zenon
    <3> QED  BY <1>15, <1>c, <3>2, OtherClient DEF ReadReply, main, threads
  <2> QED  BY <1>15, <2>1, ReadReplySound
<1>16. ASSUME NEW c \in Client, SendFails(c), NEW d \in Client PROVE Sound(d)'
  <2>1. CASE d # c
    <3>1. replies'[d] = replies[d] /\ buffer'[d] = buffer[d] /\ cli'[d] = cli[d]
      BY <1>16, <1>a, <2>1 DEF SendFails, TypeOK
    <3> QED  BY <1>16, <1>c, <3>1, OtherClient DEF SendFails, main, threads
  <2>2. CASE d = c
    <3>1. /\ cli[c] = "sending" /\ conn[c] = "down" /\ cli'[c] = "prompt"
          /\ buffer'[c] = <<>> /\ replies'[c] = <<>>
          /\ UNCHANGED <<main, threads, conn, requests, tries, sent, result, answers>>
      BY <1>16, <1>a DEF SendFails, TypeOK
    <3>2. Control(c)'
      BY <1>c, <3>1 DEF Sound, Control, main, threads
    <3>3. Conversation(c)'
      BY <1>c, <3>1 DEF Sound, Conversation, NoReply
    <3> QED  BY <2>2, <3>2, <3>3 DEF Sound
  <2> QED  BY <2>1, <2>2
<1>17. ASSUME NEW c \in Client, Interrupt(c), NEW d \in Client PROVE Sound(d)'
  <2>1. CASE d # c
    <3>1. /\ replies'[d] = replies[d] /\ buffer'[d] = buffer[d] /\ cli'[d] = cli[d]
          /\ conn'[d] = conn[d]
      BY <1>17, <1>a, <2>1 DEF Interrupt, TypeOK
    <3> QED  BY <1>17, <1>c, <3>1, OtherClient DEF Interrupt, main, threads
  <2>2. CASE d = c
    <3>1. /\ cli'[c] = "ended" /\ conn'[c] = IF conn[c] = "up" THEN "closed" ELSE conn[c]
          /\ buffer'[c] = <<>> /\ replies'[c] = <<>>
          /\ UNCHANGED <<main, threads, requests, tries, sent, result, answers>>
      BY <1>17, <1>a DEF Interrupt, TypeOK
    <3>2. Control(c)'
      BY <1>c, <3>1 DEF Sound, Control, main, threads
    <3>3. Quiet(c)' = Quiet(c) /\ NoReply(c)'
      BY <3>1 DEF Quiet, NoReply, threads
    <3>4. Conversation(c)'
      BY <1>c, <3>1, <3>3 DEF Sound, Conversation
    <3> QED  BY <2>2, <3>2, <3>4 DEF Sound
  <2> QED  BY <2>1, <2>2
<1>18. CASE UNCHANGED vars
  BY <1>18, <1>c, OtherClient DEF vars, main, threads, streams, user
<1> QED  BY <1>1, <1>2, <1>3, <1>5, <1>6, <1>7, <1>9, <1>10, <1>11, <1>12, <1>13,
            <1>14, <1>15, <1>16, <1>17, <1>18
         DEF Next, Main, Handle, Dispatch, User, Receive

(* What send() returns is the dispatcher's answer to the line it sent, all *)
(* of it and nothing else, and every line before was dispatched once: for  *)
(* any number of clients, wherever the streams are cut, whoever ends the   *)
(* server or breaks a connection, if no response holds the marker itself.  *)
THEOREM RepliesAnswer ==
  ASSUME \A body \in Body : body \in Seq({"text"})
  PROVE  Spec => []ReplyAnswersRequest
<1>1. ReplyInv => ReplyAnswersRequest
  BY DEF ReplyInv, Sound, Conversation, Quiet, ReplyAnswersRequest
<1> QED  BY <1>1, ReplyInit, ReplyStep, PTL DEF Spec
=============================================================================
