------------------------------ MODULE Session -------------------------------
(***************************************************************************)
(* The server's main thread and its client threads (src/server.cpp), the   *)
(* TCP connections, and clients that run the command-line loop             *)
(* (src/client.cpp, src/cli.cpp): connecting with retries, requests and    *)
(* replies on byte streams, quit, signals and the end of the process.      *)
(*                                                                         *)
(* A stream is a sequence of items, and a read may return any number of    *)
(* those that have arrived.  A request is one item, its line.  A reply is  *)
(* items of text and the four bytes "END\n" as one item, for read_until    *)
(* and find see them as a whole wherever the stream is cut.                *)
(***************************************************************************)
EXTENDS Integers, Sequences, SequencesExt

CONSTANTS Client,       \* the processes that run the command-line loop
          Body,         \* what commands return: sequences of "text", "END"
          MaxRetries,   \* connection attempts (5 in the code)
          MaxRequests   \* bound: lines that one user enters

ASSUME BodyAssumption == Body \subseteq Seq({"text", "END"})
ASSUME RetriesAssumption == MaxRetries \in Nat \ {0} /\ MaxRequests \in Nat

VARIABLES
  server,    \* main thread: "starting", "accepting", "leaving" or "exited"
  running,
  backlog,   \* clients that are connected and not accepted yet
  handler,   \* the client's thread: "none", "reading" or "dispatching"
  line,      \* the request that the thread is working on
  conn,      \* "none", "up", "closed" by the client or "down"
  requests,  \* the stream to the server
  replies,   \* the stream to the client
  cli,       \* "connecting", "prompt", "sending" or "ended"
  tries,     \* failed connection attempts
  sent,      \* number of lines entered
  buffer,    \* what send() has read of the reply
  result,    \* history: what send() returned last, if it did not fail
  answers    \* history: what the dispatcher returned, request by request

main     == <<server, running, backlog>>
threads  == <<handler, line>>
streams  == <<requests, replies>>
user     == <<cli, tries, sent, buffer, result>>
vars     == <<main, threads, conn, streams, user, answers>>

Line     == [of : 1..MaxRequests, is : {"command", "quit", "blank"}]
NoLine   == [of |-> 0, is |-> "none"]
Item     == [of : 1..MaxRequests, is : {"text", "END", "BYE"}]
NoResult == <<[of |-> 0, is |-> "none"]>>

Init ==
  /\ server = "starting"
  /\ running = FALSE
  /\ backlog = {}
  /\ handler = [c \in Client |-> "none"]
  /\ line = [c \in Client |-> NoLine]
  /\ conn = [c \in Client |-> "none"]
  /\ requests = [c \in Client |-> <<>>]
  /\ replies = [c \in Client |-> <<>>]
  /\ cli = [c \in Client |-> "connecting"]
  /\ tries = [c \in Client |-> 0]
  /\ sent = [c \in Client |-> 0]
  /\ buffer = [c \in Client |-> <<>>]
  /\ result = [c \in Client |-> NoResult]
  /\ answers = [c \in Client |-> <<>>]
-----------------------------------------------------------------------------
(* The server's main thread.                                               *)
Drop(cs) ==
  conn' = [c \in Client |-> IF c \in cs /\ conn[c] = "up" THEN "down" ELSE conn[c]]

StartServer ==
  /\ server = "starting"
  /\ server' = "accepting"
  /\ running' = TRUE
  /\ UNCHANGED <<backlog, threads, conn, streams, user, answers>>

Accept_IgnoresRunning(c) ==   \* mutant: the loop only asks for the acceptor
  /\ server = "accepting"
  /\ c \in backlog
  /\ handler' = [handler EXCEPT ![c] = "reading"]
  /\ backlog' = backlog \ {c}
  /\ UNCHANGED <<server, running, conn, line, streams, user, answers>>

(* run(): accept blocks whatever running says, so that the loop ends with  *)
(* the first client that is accepted after running became false.  Closing  *)
(* the acceptor resets the connections that wait for it.                   *)
Accept(c) ==
  /\ server = "accepting"
  /\ c \in backlog
  /\ handler' = [handler EXCEPT ![c] = "reading"]
  /\ \/ /\ running
        /\ backlog' = backlog \ {c}
        /\ UNCHANGED <<server, conn>>
     \/ /\ ~running
        /\ backlog' = {}
        /\ server' = "leaving"
        /\ Drop(backlog \ {c})
  /\ UNCHANGED <<running, line, streams, user, answers>>

(* SIGINT or SIGTERM: stop() closes the acceptor and accept fails.         *)
Signal ==
  /\ server = "accepting"
  /\ server' = "leaving"
  /\ running' = FALSE
  /\ backlog' = {}
  /\ Drop(backlog)
  /\ UNCHANGED <<threads, streams, user, answers>>

(* The process ends, and with it the detached client threads.              *)
ProcessEnds ==
  /\ server' = "exited"
  /\ backlog' = {}
  /\ handler' = [c \in Client |-> "none"]
  /\ line' = [c \in Client |-> NoLine]
  /\ Drop(Client)

(* ~Server, and the return from main.                                      *)
Exit ==
  /\ server = "leaving"
  /\ ProcessEnds
  /\ UNCHANGED <<running, streams, user, answers>>
-----------------------------------------------------------------------------
(* A client thread of the server.  Each turn has a new streambuf, and what *)
(* has been read behind the first line goes with it.                       *)
HandleRead(c) ==
  /\ handler[c] = "reading"
  /\ requests[c] # <<>>
  /\ \E n \in 1..Len(requests[c]) :
       requests' = [requests EXCEPT ![c] = SubSeq(@, n + 1, Len(@))]
  /\ line' = [line EXCEPT ![c] = Head(requests[c])]
  /\ handler' = [handler EXCEPT ![c] = "dispatching"]
  /\ UNCHANGED <<main, conn, replies, user, answers>>

HandleEof(c) ==
  /\ handler[c] = "reading"
  /\ requests[c] = <<>>
  /\ conn[c] = "closed"
  /\ handler' = [handler EXCEPT ![c] = "none"]
  /\ UNCHANGED <<main, line, conn, streams, user, answers>>

Stamped(n, body) == [i \in DOMAIN body |-> [of |-> n, is |-> body[i]]]

Framed_NotWhenEmpty(n, body) ==   \* mutant: an empty response sends nothing
  IF body = <<>> THEN <<>> ELSE Stamped(n, body) \o <<[of |-> n, is |-> "END"]>>

Framed(n, body) == Stamped(n, body) \o <<[of |-> n, is |-> "END"]>>

Respond(c, body) ==
  LET n == line[c].of IN
  /\ answers' = [answers EXCEPT ![c] = Append(@, Stamped(n, body))]
  /\ replies' = IF conn[c] = "up"
                THEN [replies EXCEPT ![c] = @ \o Framed(n, body)] ELSE replies
  /\ handler' = [handler EXCEPT ![c] = "reading"]
  /\ line' = [line EXCEPT ![c] = NoLine]

DispatchCommand(c) ==
  /\ handler[c] = "dispatching"
  /\ line[c].is = "command"
  /\ \E body \in Body : Respond(c, body)
  /\ UNCHANGED <<main, conn, requests, user>>

DispatchQuit(c) ==
  /\ handler[c] = "dispatching"
  /\ line[c].is = "quit"
  /\ running' = FALSE
  /\ Respond(c, <<"BYE">>)
  /\ UNCHANGED <<server, backlog, conn, requests, user>>

(* shutdown() throws: the thread ends and its socket is closed.            *)
QuitThrows(c) ==
  /\ handler[c] = "dispatching"
  /\ line[c].is = "quit"
  /\ running' = FALSE
  /\ handler' = [handler EXCEPT ![c] = "none"]
  /\ line' = [line EXCEPT ![c] = NoLine]
  /\ Drop({c})
  /\ UNCHANGED <<server, backlog, streams, user, answers>>

(* The dispatcher looks at the first token of a line that has none.  The   *)
(* vector is empty and its storage null: the process dies.                 *)
DispatchBlank(c) ==
  /\ handler[c] = "dispatching"
  /\ line[c].is = "blank"
  /\ ProcessEnds
  /\ UNCHANGED <<running, streams, user, answers>>
-----------------------------------------------------------------------------
(* A client.                                                               *)
Connect_OneTooMany(c) ==   \* mutant: i <= maxRetries
  /\ cli[c] = "connecting"
  /\ \/ /\ server = "accepting"
        /\ conn' = [conn EXCEPT ![c] = "up"]
        /\ backlog' = backlog \cup {c}
        /\ cli' = [cli EXCEPT ![c] = "prompt"]
        /\ UNCHANGED tries
     \/ /\ server # "accepting"
        /\ tries' = [tries EXCEPT ![c] = @ + 1]
        /\ cli' = [cli EXCEPT ![c] = IF tries[c] + 1 <= MaxRetries THEN @ ELSE "ended"]
        /\ UNCHANGED <<conn, backlog>>
  /\ UNCHANGED <<server, running, threads, streams, sent, buffer, result, answers>>

(* The constructor; when the last attempt has failed it throws.            *)
Connect(c) ==
  /\ cli[c] = "connecting"
  /\ \/ /\ server = "accepting"
        /\ conn' = [conn EXCEPT ![c] = "up"]
        /\ backlog' = backlog \cup {c}
        /\ cli' = [cli EXCEPT ![c] = "prompt"]
        /\ UNCHANGED tries
     \/ /\ server # "accepting"
        /\ tries' = [tries EXCEPT ![c] = @ + 1]
        /\ cli' = [cli EXCEPT ![c] = IF tries[c] + 1 < MaxRetries THEN @ ELSE "ended"]
        /\ UNCHANGED <<conn, backlog>>
  /\ UNCHANGED <<server, running, threads, streams, sent, buffer, result, answers>>

Send(c, what) ==
  /\ cli[c] = "prompt"
  /\ sent[c] < MaxRequests
  /\ cli' = [cli EXCEPT ![c] = "sending"]
  /\ sent' = [sent EXCEPT ![c] = @ + 1]
  /\ buffer' = [buffer EXCEPT ![c] = <<>>]
  /\ result' = [result EXCEPT ![c] = NoResult]
  /\ requests' = IF conn[c] = "up"
                 THEN [requests EXCEPT ![c] =
                         Append(@, [of |-> sent[c] + 1, is |-> what])]
                 ELSE requests
  /\ UNCHANGED <<main, threads, conn, replies, tries, answers>>

(* The loop of cli(): a response of BYE ends it, and the client with it.   *)
Back(c, response) ==
  LET bye == Len(response) = 1 /\ response[1].is = "BYE" IN
  /\ cli' = [cli EXCEPT ![c] = IF bye THEN "ended" ELSE "prompt"]
  /\ conn' = IF bye /\ conn[c] = "up" THEN [conn EXCEPT ![c] = "closed"] ELSE conn

IsMarker(item) == item.is = "END"

ReadReply_FirstChunk(c) ==   \* mutant: read_some in the place of read_until
  /\ cli[c] = "sending"
  /\ \E n \in 1..Len(replies[c]) :
       LET got == SubSeq(replies[c], 1, n)
           res == SelectSeq(got, LAMBDA item : ~IsMarker(item)) IN
       /\ replies' = [replies EXCEPT ![c] = SubSeq(@, n + 1, Len(@))]
       /\ result' = [result EXCEPT ![c] = res]
       /\ Back(c, res)
  /\ UNCHANGED <<main, threads, requests, tries, sent, buffer, answers>>

(* send() reads until it has seen a marker, returns what lies before the   *)
(* first one, and drops what it has read behind it.                        *)
ReadReply(c) ==
  /\ cli[c] = "sending"
  /\ \E n \in 1..Len(replies[c]) :
       LET got == buffer[c] \o SubSeq(replies[c], 1, n)
           end == SelectInSeq(got, IsMarker)
           res == SubSeq(got, 1, end - 1) IN
       /\ replies' = [replies EXCEPT ![c] = SubSeq(@, n + 1, Len(@))]
       /\ \/ /\ end = 0
             /\ buffer' = [buffer EXCEPT ![c] = got]
             /\ UNCHANGED <<cli, conn, result>>
          \/ /\ end # 0
             /\ buffer' = [buffer EXCEPT ![c] = <<>>]
             /\ result' = [result EXCEPT ![c] = res]
             /\ Back(c, res)
  /\ UNCHANGED <<main, threads, requests, tries, sent, answers>>

(* A connection that is down fails the write or the read: send() returns   *)
(* the empty string and the loop goes on.                                  *)
SendFails(c) ==
  /\ cli[c] = "sending"
  /\ conn[c] = "down"
  /\ cli' = [cli EXCEPT ![c] = "prompt"]
  /\ buffer' = [buffer EXCEPT ![c] = <<>>]
  /\ replies' = [replies EXCEPT ![c] = <<>>]
  /\ UNCHANGED <<main, threads, conn, requests, tries, sent, result, answers>>

(* The user interrupts the client.                                         *)
Interrupt(c) ==
  /\ cli[c] \in {"prompt", "sending"}
  /\ cli' = [cli EXCEPT ![c] = "ended"]
  /\ conn' = [conn EXCEPT ![c] = IF @ = "up" THEN "closed" ELSE @]
  /\ buffer' = [buffer EXCEPT ![c] = <<>>]
  /\ replies' = [replies EXCEPT ![c] = <<>>]
  /\ UNCHANGED <<main, threads, requests, tries, sent, result, answers>>
-----------------------------------------------------------------------------
Main == StartServer \/ (\E c \in Client : Accept(c)) \/ Signal \/ Exit

Dispatch(c) ==
  DispatchCommand(c) \/ DispatchQuit(c) \/ QuitThrows(c) \/ DispatchBlank(c)

Handle(c) == HandleRead(c) \/ HandleEof(c) \/ Dispatch(c)

Receive(c) == ReadReply(c) \/ SendFails(c)

User(c) ==
  \/ Connect(c)
  \/ \E what \in {"command", "quit", "blank"} : Send(c, what)
  \/ Receive(c)
  \/ Interrupt(c)

Next == Main \/ (\E c \in Client : Handle(c) \/ User(c))

Spec == Init /\ [][Next]_vars

(* The operating system runs threads that are not blocked and delivers     *)
(* what was sent; nobody has to start a server, send a line or a signal.   *)
Fairness ==
  /\ WF_vars(Exit)
  /\ \A c \in Client : /\ WF_vars(Accept(c))
                       /\ WF_vars(Handle(c))
                       /\ WF_vars(Receive(c))

FairSpec == Spec /\ Fairness
-----------------------------------------------------------------------------
TypeOK ==
  /\ server \in {"starting", "accepting", "leaving", "exited"}
  /\ running \in BOOLEAN
  /\ backlog \in SUBSET Client
  /\ handler \in [Client -> {"none", "reading", "dispatching"}]
  /\ line \in [Client -> Line \cup {NoLine}]
  /\ conn \in [Client -> {"none", "up", "closed", "down"}]
  /\ requests \in [Client -> Seq(Line)]
  /\ replies \in [Client -> Seq(Item)]
  /\ cli \in [Client -> {"connecting", "prompt", "sending", "ended"}]
  /\ tries \in [Client -> 0..MaxRetries]
  /\ sent \in [Client -> 0..MaxRequests]
  /\ buffer \in [Client -> Seq(Item)]
  /\ result \in [Client -> Seq(Item) \cup {NoResult}]
  /\ answers \in [Client -> Seq(Seq(Item))]

(* What send() returns is the dispatcher's response to the line it sent,   *)
(* whole, and every line sent before has been dispatched once ("Send input *)
(* data to server for dispatching ... Return a map response", client.cpp). *)
ReplyAnswersRequest ==
  \A c \in Client :
    result[c] # NoResult =>
      /\ Len(answers[c]) = sent[c]
      /\ result[c] = answers[c][sent[c]]

(* A call of send() returns: with a reply, or with an error when the       *)
(* server has left, crashed or closed the connection.                      *)
SendReturns ==
  \A c \in Client : cli[c] = "sending" ~> cli[c] # "sending"

(* After quit the server still takes one connection, and then it ends,     *)
(* whatever its clients do.                                                *)
QuitThenConnectEnds ==
  ~running /\ server = "accepting" /\ backlog # {} ~> server = "exited"

(* A line without tokens is refused with a message ("Empty command.",      *)
(* db.cpp, parseCommand): no line that a client sends ends the server.     *)
OnlyToldToEnd == server = "exited" => ~running
=============================================================================
