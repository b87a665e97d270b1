--------------------------- MODULE NetworkServer ---------------------------
(***************************************************************************)
(* The server of filesys/network_server.cpp and main.cpp: a socket that    *)
(* accepts connections, and a thread for each connection that receives one *)
(* request, has the file system serve it, answers and closes.  The file    *)
(* system is the abstract FileServer, which FileSystem implements.         *)
(*                                                                         *)
(* A client sends its request, and for a write a block of data, in pieces, *)
(* and may go away at any moment; nothing bounds the time it takes.  Each  *)
(* connection has its own byte streams, which keep their order.  The bytes *)
(* of a request, and of its echo in the answer, count as MessageParts      *)
(* parts, those of a block as FS_BLOCKSIZE.                                *)
(***************************************************************************)
EXTENDS RequestParser

CONSTANTS
    Connections,   \* connections, each made by a client of its own
    Messages,      \* the requests clients send, as sequences of words
    Data,          \* contents of a block
    Trees,         \* the file trees the server may be started on
    Limits,        \* numbers of connections the process may have descriptors for
    MessageParts,  \* pieces in which a request may arrive, or an echo be sent
    FS_BLOCKSIZE,  \* pieces in which a block may be transferred
    NoUser,        \* owner of the root directory
    NoData         \* what a request other than a read returns

ASSUME ServerAssumption ==
    /\ MessageParts \in Nat \ {0} /\ FS_BLOCKSIZE \in Nat \ {0} /\ Limits \subseteq Nat
    /\ NoData \notin Data

VARIABLES
    tree,    \* the files and directories, see FileServer
    status,  \* what the file system made of the request of each connection
    server,  \* "starting", "listening" or "down"
    limit,   \* connections for which the process has file descriptors
    conn     \* the connections, see NoConnection

fsVars == <<tree, status>>
vars == <<fsVars, server, limit, conn>>

Commands == UNION {parse_message(m) : m \in Messages}
FS == INSTANCE FileServer WITH Requests <- Connections

(* The client's request and block, how much of them it has sent, and       *)
(* whether it is still there; where the server's thread is, how much it    *)
(* has received of the request and the block, and sent of the answer.      *)
NoConnection == [pc |-> "none", message |-> <<>>, data |-> NoData, sent |-> 0,
                 gone |-> FALSE, got |-> 0, answered |-> 0]

Init ==
    /\ tree \in Trees
    /\ status = [k \in Connections |-> FS!Was("new", NoData)]
    /\ server = "starting"
    /\ limit \in Limits
    /\ conn = [k \in Connections |-> NoConnection]

-----------------------------------------------------------------------------
(* Sizes.                                                                  *)

CommandLengths == [FS_READBLOCK |-> 12, FS_WRITEBLOCK |-> 13, FS_CREATE |-> 9, FS_DELETE |-> 9]
WordLength(w) == IF Len(w) = 1 /\ w[1] \in DOMAIN CommandLengths
                 THEN CommandLengths[w[1]] ELSE Len(w)
MessageSize(m) == FoldLeft(LAMBDA n, w : n + WordLength(w), Len(m) - 1, m)

MAX_MESSAGE_SIZE == FS_MAXUSERNAME + FS_MAXPATHNAME + 20
TooLong(m) == MessageSize(m) > MAX_MESSAGE_SIZE

Op(k) == parse_command(conn[k].message)

(* A client sends a block after a request that begins like a write. *)
ToSend(k) == MessageParts + (IF Op(k) = "write" THEN FS_BLOCKSIZE ELSE 0)

(* Mutant: the block counts as received one piece early. *)
BlockShortMutant(k) == MessageParts + (IF Op(k) = "write" THEN FS_BLOCKSIZE - 1 ELSE 0)

ToReceive(k) == ToSend(k)

ToAnswer(k) == MessageParts + (IF Op(k) = "read" THEN FS_BLOCKSIZE ELSE 0)

-----------------------------------------------------------------------------
(* Clients.                                                                *)

BlocksWith(m) == IF parse_command(m) = "write" THEN Data ELSE {NoData}

Connect(k, m, d) ==
    /\ server = "listening" /\ conn[k].pc = "none"
    /\ conn' = [conn EXCEPT ![k].pc = "backlog", ![k].message = m, ![k].data = d]
    /\ UNCHANGED <<fsVars, server>>

Connected(k) == conn[k].pc \notin {"none", "closed"}

ClientSends(k) ==
    /\ Connected(k) /\ ~conn[k].gone /\ conn[k].sent < ToSend(k)
    /\ conn' = [conn EXCEPT ![k].sent = @ + 1]
    /\ UNCHANGED <<fsVars, server>>

ClientGoes(k) ==
    /\ Connected(k) /\ ~conn[k].gone
    /\ conn' = [conn EXCEPT ![k].gone = TRUE]
    /\ UNCHANGED <<fsVars, server>>

-----------------------------------------------------------------------------
(* The main thread.                                                        *)

(* The process ends, and with it all connections; what the file system was *)
(* doing for them is cut off.                                              *)
Down ==
    /\ server' = "down"
    /\ conn' = [k \in Connections |-> IF Connected(k) THEN [conn[k] EXCEPT !.pc = "closed"]
                                      ELSE conn[k]]

(* The constructor: socket, setsockopt, bind, listen and getsockname       *)
(* succeed, or one of them fails and main returns -1.                      *)
StartUp ==
    /\ server = "starting"
    /\ \/ server' = "listening" /\ UNCHANGED conn
       \/ Down
    /\ UNCHANGED fsVars

(* The connections that were accepted and not closed. *)
Open == {k \in Connections : Connected(k) /\ conn[k].pc # "backlog"}
SocketLeft == Cardinality(Open) < limit

(* run: accept a connection and start a thread for it.  As long as no      *)
(* descriptor is left accept returns -1 and run tries again: nothing       *)
(* changes, and the connection stays in the backlog.                       *)
Accept(k) ==
    /\ server = "listening" /\ conn[k].pc = "backlog" /\ SocketLeft
    /\ conn' = [conn EXCEPT ![k].pc = "receiving"]
    /\ UNCHANGED <<fsVars, server>>

(* accept returns -1 for a connection whose client went away, and the      *)
(* connection is lost: go on.                                              *)
AcceptFails(k) ==
    /\ server = "listening" /\ conn[k].pc = "backlog" /\ conn[k].gone
    /\ conn' = [conn EXCEPT ![k].pc = "closed"]
    /\ UNCHANGED <<fsVars, server>>

(* No thread can be started: boost::thread throws, run does not catch it   *)
(* and main returns -1.                                                    *)
ThreadFails(k) ==
    /\ server = "listening" /\ conn[k].pc = "backlog" /\ SocketLeft
    /\ Down
    /\ LET R == {r \in Connections : status[r].st = "pending"}
       IN  IF R = {} THEN UNCHANGED fsVars ELSE FS!Lose(R)

-----------------------------------------------------------------------------
(* The thread of a connection.                                             *)

(* ~SocketRAII, on every way out of handle_request *)
Closes(k) == conn' = [conn EXCEPT ![k].pc = "closed"]

(* Mutant: a thread does not react to the end of its client. *)
NeverFailsMutant(k) == FALSE

(* recv returned 0 or -1: the client has closed or reset the connection,   *)
(* maybe before everything it sent was received.                           *)
RecvFails(k) ==
    /\ conn[k].pc \in {"receiving", "block"} /\ conn[k].gone
    /\ Closes(k)
    /\ UNCHANGED <<fsVars, server>>

(* receive_message: one part of the request, up to the null character. *)
ReceiveMessage(k) ==
    /\ conn[k].pc = "receiving" /\ conn[k].got < conn[k].sent
    /\ \/ TooLong(conn[k].message) /\ Closes(k)
       \/ /\ conn[k].got + 1 < MessageParts
          /\ conn' = [conn EXCEPT ![k].got = @ + 1]
       \/ /\ conn[k].got + 1 = MessageParts /\ ~TooLong(conn[k].message)
          /\ conn' = [conn EXCEPT ![k].got = @ + 1, ![k].pc = "parse"]
    /\ UNCHANGED <<fsVars, server>>

(* handle_request and the beginning of a handler: an unknown command, or   *)
(* one that parse_message throws for, is not answered.  A write goes on    *)
(* with the block.                                                         *)
Dispatch(k) ==
    /\ conn[k].pc = "parse"
    /\ \/ MayThrow(conn[k].message) /\ Closes(k) /\ UNCHANGED fsVars
       \/ \E c \in parse_message(conn[k].message) :
            \/ /\ c.op = "write"
               /\ conn' = [conn EXCEPT ![k].pc = "block"]
               /\ UNCHANGED fsVars
            \/ /\ c.op # "write"
               /\ FS!Ask(k, c)
               /\ conn' = [conn EXCEPT ![k].pc = "serving"]
    /\ UNCHANGED server

WithData(c, d) == [op |-> c.op, username |-> c.username, pathname |-> c.pathname,
                   block |-> c.block, data |-> d]

(* handle_write: recv may return any part of what is there. *)
ReceiveBlock(k) ==
    /\ conn[k].pc = "block" /\ conn[k].got < ToReceive(k)
    /\ \E n \in 1 .. ToReceive(k) - conn[k].got :
         /\ conn[k].got + n <= conn[k].sent
         /\ conn' = [conn EXCEPT ![k].got = @ + n]
    /\ UNCHANGED <<fsVars, server>>

CallWrite(k) ==
    /\ conn[k].pc = "block" /\ conn[k].got = ToReceive(k)
    /\ \E c \in parse_message(conn[k].message) : FS!Ask(k, WithData(c, conn[k].data))
    /\ conn' = [conn EXCEPT ![k].pc = "serving"]
    /\ UNCHANGED server

(* Mutant: the echo is sent although the file system has thrown. *)
AnswerAnywayMutant(k) == conn' = [conn EXCEPT ![k].pc = "answering"]

(* The catch of a handler: -1, and no answer. *)
Catches(k) == Closes(k)

(* The file system serves the request, or throws.  It may also take        *)
(* forever: handle_create and handle_delete wait for locks.                *)
Serve(k) ==
    /\ conn[k].pc = "serving"
    /\ \/ FS!Do(k) /\ conn' = [conn EXCEPT ![k].pc = "answering"]
       \/ FS!Refuse(k) /\ Catches(k)
    /\ UNCHANGED server

(* Mutant: the answer ends with the first part of the block that was sent. *)
AnswerCutMutant(k) == conn[k].answered >= MessageParts

Answered(k) == conn[k].answered = ToAnswer(k)

(* Mutant: one byte too many is sent. *)
PieceTooLongMutant(k) == ToAnswer(k) + 1

PieceEnd(k) == IF conn[k].answered < MessageParts THEN MessageParts ELSE ToAnswer(k)

(* send_message, then the block of a read: send may take any part of what  *)
(* is left of the piece it is given, or fail if the client went away.      *)
Answer(k) ==
    /\ conn[k].pc = "answering"
    /\ \/ conn[k].gone /\ Closes(k)
       \/ \E n \in 1 .. PieceEnd(k) - conn[k].answered :
            conn' = [conn EXCEPT ![k].answered = @ + n]
       \/ Answered(k) /\ Closes(k)
    /\ UNCHANGED <<fsVars, server>>

(* handle_request but for what the file system does. *)
Handle(k) ==
    \/ RecvFails(k) \/ ReceiveMessage(k) \/ Dispatch(k) \/ ReceiveBlock(k)
    \/ CallWrite(k) \/ Answer(k)

Next ==
    /\ \/ StartUp
       \/ \E k \in Connections :
            \/ \E m \in Messages : \E d \in BlocksWith(m) : Connect(k, m, d)
            \/ ClientSends(k) \/ ClientGoes(k)
            \/ Accept(k) \/ AcceptFails(k) \/ ThreadFails(k)
            \/ Handle(k) \/ Serve(k)
    /\ UNCHANGED limit

Spec == Init /\ [][Next]_vars

(* Threads run, and accept takes a connection from the backlog if it can.  *)
(* Clients need not do anything, and the file system need not answer.      *)
FairSpec ==
    /\ Spec
    /\ \A k \in Connections : /\ WF_conn(Handle(k))
                              /\ WF_conn(Accept(k) \/ AcceptFails(k))

-----------------------------------------------------------------------------
(* Properties.                                                             *)

(* Type invariant of the server: sizes are within the requests and blocks, *)
(* and nobody is connected before the server listens.                      *)
TypeOK ==
    /\ server \in {"starting", "listening", "down"}
    /\ \A k \in Connections :
         /\ conn[k].pc \in {"none", "backlog", "receiving", "parse", "block", "serving",
                           "answering", "closed"}
         /\ conn[k].gone \in BOOLEAN
         /\ Connected(k) => conn[k].message \in Messages /\ server = "listening"
         /\ 0 <= conn[k].got /\ conn[k].got <= conn[k].sent /\ conn[k].sent <= ToSend(k)
         /\ conn[k].answered \in 0 .. ToAnswer(k)
         /\ status[k].st \in {"new", "pending", "done", "failed", "lost"}

(* A write reaches the file system only when the client has sent the whole *)
(* block, and the block that is written is the client's: a client that     *)
(* goes away in the middle changes nothing (handle_write).                 *)
WholeBlockWritten ==
    \A k \in Connections :
        Op(k) = "write" /\ status[k].st # "new" =>
            /\ conn[k].sent = ToSend(k)
            /\ status[k].st = "pending" => status[k].command.data = conn[k].data

(* The echo of a request tells its client that the request took effect: a  *)
(* client never gets a byte of an answer to a request that was refused.    *)
AnswerMeansDone ==
    \A k \in Connections : conn[k].answered > 0 => status[k].st = "done"

(* As long as the server is up, it hangs up on a client that is still      *)
(* there for three reasons only: the request is not a legal one, the file  *)
(* system refused it, or the client has the whole answer.                  *)
HangsUpForAReason ==
    \A k \in Connections :
        conn[k].pc = "closed" /\ ~conn[k].gone /\ server = "listening" =>
            \/ TooLong(conn[k].message) \/ MayThrow(conn[k].message)
            \/ status[k].st = "failed"
            \/ status[k].st = "done" /\ conn[k].answered = ToAnswer(k)

(* The server has done what it can for a connection: its thread is in the  *)
(* file system, or the others hold all descriptors.                        *)
HeldUp(k) == conn[k].pc = "serving" \/ (conn[k].pc = "backlog" /\ ~SocketLeft)

(* Every connection whose client has sent what it has to send, or is gone, *)
(* is closed in the end, whatever the clients of other connections do and  *)
(* whatever happens to their requests, unless the file system never        *)
(* answers this one, or it is never accepted because other connections     *)
(* hold all descriptors for good: one that sends half a request, or waits  *)
(* for a lock nobody gives back, holds up a thread of its own only.        *)
ConnectionEnds ==
    \A k \in Connections :
        \/ (Connected(k) /\ (conn[k].gone \/ conn[k].sent = ToSend(k))) ~> ~Connected(k)
        \/ <>[]HeldUp(k)
=============================================================================
