------------------------ MODULE NetworkServerProofs ------------------------
(***************************************************************************)
(* The safety properties of NetworkServer, proved for any number of        *)
(* connections, any requests, any sizes and any file trees.                *)
(*                                                                         *)
(* What a request says matters in one place only: a command that           *)
(* parse_message returns is the one that parse_command announced, so a     *)
(* thread waits for a block exactly if the client sends one (CommandOf).   *)
(*                                                                         *)
(* The properties relate what the client did, where the thread is, and     *)
(* what the file system made of the request.  Each is inductive only       *)
(* together with what the place of the thread says of the other two:       *)
(* ConnInv says it of one connection.                                      *)
(***************************************************************************)
EXTENDS NetworkServer, TLAPS

-----------------------------------------------------------------------------
(* The state of one connection.                                            *)

Places == {"none", "backlog", "receiving", "parse", "block", "serving", "answering", "closed"}
NotAsked == {"none", "backlog", "receiving", "parse", "block"}
Outcomes == {"new", "pending", "done", "failed", "lost"}

ConnRecord == [pc : Places, message : Messages \cup {<<>>}, data : Data \cup {NoData},
               sent : Nat, gone : BOOLEAN, got : Nat, answered : Nat]

(* Functions and records, with no more than the steps need of them. *)
ShapeInv ==
    /\ server \in {"starting", "listening", "down"}
    /\ conn \in [Connections -> ConnRecord]
    /\ status = [k \in Connections |-> status[k]]

(* A connection that was not made is as it was, and none is made before    *)
(* the server listens; one that is open has a request.                     *)
OpenInv(k) ==
    /\ server = "starting" => conn[k].pc = "none"
    /\ conn[k].pc = "none" => conn[k].sent = 0 /\ conn[k].got = 0 /\ conn[k].answered = 0
    /\ Connected(k) => conn[k].message \in Messages /\ server = "listening"

(* The server has no more than the client sent, and the client sends no    *)
(* more than the request and its block.                                    *)
SizeInv(k) ==
    /\ conn[k].got <= conn[k].sent /\ conn[k].sent <= ToSend(k)
    /\ conn[k].answered <= ToAnswer(k)
    /\ conn[k].pc = "block" => Op(k) = "write"

(* The place of the thread and what the file system knows of the request. *)
StatusInv(k) ==
    /\ status[k].st \in Outcomes
    /\ conn[k].pc \in NotAsked => status[k].st = "new"
    /\ conn[k].pc = "serving" <=> status[k].st = "pending"
    /\ conn[k].pc = "answering" => status[k].st = "done"
    /\ conn[k].answered > 0 => status[k].st = "done"

(* WholeBlockWritten, of one connection *)
BlockInv(k) ==
    Op(k) = "write" /\ status[k].st # "new" =>
        /\ conn[k].sent = ToSend(k)
        /\ status[k].st = "pending" => status[k].command.data = conn[k].data

(* HangsUpForAReason, of one connection *)
ReasonInv(k) ==
    conn[k].pc = "closed" /\ ~conn[k].gone /\ server = "listening" =>
        \/ TooLong(conn[k].message) \/ MayThrow(conn[k].message)
        \/ status[k].st = "failed"
        \/ status[k].st = "done" /\ conn[k].answered = ToAnswer(k)

ConnInv(k) == OpenInv(k) /\ SizeInv(k) /\ StatusInv(k) /\ BlockInv(k) /\ ReasonInv(k)

(* The inductive invariant *)
ServerInv == ShapeInv /\ \A k \in Connections : ConnInv(k)

(* What ConnInv speaks of did not change for any connection but k. *)
OnlyOf(k) ==
    /\ server' = server
    /\ \A j \in Connections \ {k} : conn'[j] = conn[j] /\ status'[j] = status[j]

(* The thread of a connection may have moved; nothing else changed for it. *)
Kept(k) ==
    /\ conn'[k].message = conn[k].message /\ conn'[k].data = conn[k].data
    /\ conn'[k].gone = conn[k].gone /\ conn'[k].sent = conn[k].sent
    /\ conn'[k].got = conn[k].got /\ conn'[k].answered = conn[k].answered
    /\ Op(k)' = Op(k) /\ ToSend(k)' = ToSend(k) /\ ToAnswer(k)' = ToAnswer(k)

-----------------------------------------------------------------------------
(* Requests.                                                               *)

(* parse_command knows four commands. *)
LEMMA CommandKinds ==
    ASSUME NEW m
    PROVE  parse_command(m) \in {"read", "write", "create", "delete", "invalid"}
BY DEF parse_command, CommandTypes

(* A command that parse_message returns is the one the first word says. *)
LEMMA CommandOf ==
    ASSUME NEW m, NEW c \in parse_message(m)
    PROVE  c.op = parse_command(m)
<1> DEFINE op == parse_command(m)
<1>1. op \in {"read", "write", "create", "delete", "invalid"}  BY CommandKinds
<1>2. op # "invalid"  BY DEF parse_message
<1> HIDE DEF op
<1>3. CASE op \in {"read", "write"}
  <2>1. PICK b \in BlockNumbers(Word(m, 4)) :
          c = [op |-> op, username |-> Word(m, 2), pathname |-> Components(Word(m, 3)), block |-> b]
    BY <1>3 DEF parse_message, op
  <2>2. QED  BY <2>1 DEF op
<1>4. CASE op = "create"
  <2>1. PICK t \in Types(Word(m, 4)) :
          c = [op |-> op, username |-> Word(m, 2), pathname |-> Components(Word(m, 3)), type |-> t]
    BY <1>4 DEF parse_message, op
  <2>2. QED  BY <2>1 DEF op
<1>5. CASE op = "delete"
  BY <1>5 DEF parse_message, op
<1>6. QED  BY <1>1, <1>2, <1>3, <1>4, <1>5

-----------------------------------------------------------------------------
(* The invariant holds at first.                                           *)

LEMMA ServerInit == Init => ServerInv
<1> SUFFICES ASSUME Init PROVE ServerInv  OBVIOUS
<1> USE ServerAssumption
<1>1. ShapeInv  BY DEF Init, ShapeInv, NoConnection, ConnRecord, Places
<1>2. ASSUME NEW k \in Connections PROVE ConnInv(k)
  <2>1. conn[k] = NoConnection /\ status[k].st = "new" /\ server = "starting"
    BY DEF Init, FS!Was
  <2>2. OpenInv(k) /\ StatusInv(k) /\ BlockInv(k) /\ ReasonInv(k)
    BY <2>1 DEF NoConnection, OpenInv, StatusInv, BlockInv, ReasonInv, Connected, NotAsked, Outcomes
  <2>3. SizeInv(k)
    BY <2>1 DEF NoConnection, SizeInv, ToSend, ToAnswer
  <2>4. QED  BY <2>2, <2>3 DEF ConnInv
<1>3. QED  BY <1>1, <1>2 DEF ServerInv

-----------------------------------------------------------------------------
(* The invariant is kept.                                                  *)

(* A step of one connection keeps what is said of the others. *)
LEMMA OthersKept ==
    ASSUME ServerInv, NEW k \in Connections, OnlyOf(k), NEW j \in Connections, j # k
    PROVE  ConnInv(j)'
<1>1. conn'[j] = conn[j] /\ status'[j] = status[j] /\ server' = server  BY DEF OnlyOf
<1>2. ConnInv(j)  BY DEF ServerInv
<1>3. OpenInv(j)' /\ SizeInv(j)'
  BY <1>1, <1>2 DEF ConnInv, OpenInv, SizeInv, Connected, ToSend, ToAnswer, Op
<1>4. StatusInv(j)' /\ BlockInv(j)' /\ ReasonInv(j)'
  BY <1>1, <1>2 DEF ConnInv, StatusInv, BlockInv, ReasonInv, ToSend, ToAnswer, Op
<1>5. QED  BY <1>3, <1>4 DEF ConnInv

(* So such a step has to be looked at for its own connection only. *)
LEMMA OneKept ==
    ASSUME ServerInv, NEW k \in Connections, OnlyOf(k), ShapeInv', ConnInv(k)'
    PROVE  ServerInv'
<1>1. ASSUME NEW j \in Connections PROVE ConnInv(j)'
  BY OthersKept
<1>2. QED  BY <1>1 DEF ServerInv

(* A record of a connection, field by field *)
LEMMA ConnShape ==
    ASSUME ShapeInv, NEW k \in Connections
    PROVE  /\ conn[k].pc \in Places /\ conn[k].message \in Messages \cup {<<>>}
           /\ conn[k].data \in Data \cup {NoData}
           /\ conn[k].sent \in Nat /\ conn[k].got \in Nat /\ conn[k].answered \in Nat
           /\ conn[k].gone \in BOOLEAN
BY DEF ShapeInv, ConnRecord

(* The sizes are numbers. *)
LEMMA SizesAreNumbers ==
    ASSUME NEW k
    PROVE  /\ MessageParts \in Nat \ {0} /\ FS_BLOCKSIZE \in Nat \ {0}
           /\ ToSend(k) \in Nat /\ MessageParts <= ToSend(k)
           /\ ToAnswer(k) \in Nat /\ MessageParts <= ToAnswer(k)
           /\ Op(k) # "write" => ToSend(k) = MessageParts
BY ServerAssumption DEF ToSend, ToAnswer

(* A step writes the record of one connection, and maybe its request. *)
LEMMA ConnUpdate ==
    ASSUME ShapeInv, NEW k \in Connections, NEW r \in ConnRecord, NEW s,
           conn' = [conn EXCEPT ![k] = r], server' = server,
           status' = [status EXCEPT ![k] = s]
    PROVE  ShapeInv' /\ OnlyOf(k) /\ conn'[k] = r /\ status'[k] = s
<1>1. conn' \in [Connections -> ConnRecord] /\ conn'[k] = r
  BY DEF ShapeInv
<1>2. \A j \in Connections \ {k} : conn'[j] = conn[j]
  BY DEF ShapeInv
<1>3. status' = [j \in Connections |-> status'[j]] /\ status'[k] = s
  BY DEF ShapeInv
<1>4. \A j \in Connections \ {k} : status'[j] = status[j]
  BY DEF ShapeInv
<1>5. QED  BY <1>1, <1>2, <1>3, <1>4 DEF ShapeInv, OnlyOf

LEMMA StatusSame ==
    ASSUME ShapeInv, NEW k \in Connections, UNCHANGED fsVars
    PROVE  status' = [status EXCEPT ![k] = status[k]]
BY DEF ShapeInv, fsVars

(* A step moves the thread of a connection to another place. *)
LEMMA PcMoves ==
    ASSUME ShapeInv, NEW k \in Connections, NEW p \in Places, NEW s,
           conn' = [conn EXCEPT ![k].pc = p], server' = server,
           status' = [status EXCEPT ![k] = s]
    PROVE  ShapeInv' /\ OnlyOf(k) /\ conn'[k].pc = p /\ Kept(k) /\ status'[k] = s
<1> DEFINE r == [conn[k] EXCEPT !.pc = p]
<1>1. conn[k] \in ConnRecord  BY DEF ShapeInv
<1>2. r \in ConnRecord  BY <1>1 DEF ConnRecord
<1>3. conn' = [conn EXCEPT ![k] = r]  OBVIOUS
<1>4. /\ r.pc = p /\ r.message = conn[k].message /\ r.data = conn[k].data
      /\ r.gone = conn[k].gone /\ r.sent = conn[k].sent /\ r.got = conn[k].got
      /\ r.answered = conn[k].answered
  BY <1>1 DEF ConnRecord
<1> HIDE DEF r
<1>5. ShapeInv' /\ OnlyOf(k) /\ conn'[k] = r /\ status'[k] = s
  BY <1>2, <1>3, ConnUpdate
<1>6. QED  BY <1>4, <1>5 DEF Kept, Op, ToSend, ToAnswer

(* Steps of a client. *)
LEMMA ClientStep ==
    ASSUME ServerInv, NEW k \in Connections,
           \/ \E m \in Messages : \E d \in BlocksWith(m) : Connect(k, m, d)
           \/ ClientSends(k) \/ ClientGoes(k)
    PROVE  ServerInv'
<1>0. ShapeInv /\ ConnInv(k) /\ conn[k] \in ConnRecord  BY DEF ServerInv, ShapeInv
<1> USE ConnShape, SizesAreNumbers
<1>1. CASE \E m \in Messages : \E d \in BlocksWith(m) : Connect(k, m, d)
  <2>0. PICK m \in Messages : \E d \in BlocksWith(m) : Connect(k, m, d)  BY <1>1
  <2>1. PICK d \in BlocksWith(m) : Connect(k, m, d)  BY <2>0
  <2>2. d \in Data \cup {NoData}  BY DEF BlocksWith
  <2> DEFINE r == [conn[k] EXCEPT !.pc = "backlog", !.message = m, !.data = d]
  <2>3. r \in ConnRecord  BY <1>0, <2>2 DEF ConnRecord, Places
  <2>4. /\ r.pc = "backlog" /\ r.message = m /\ r.data = d
        /\ r.sent = 0 /\ r.got = 0 /\ r.answered = 0
    BY <1>0, <2>1 DEF ConnRecord, Connect, ConnInv, OpenInv
  <2>5. conn' = [conn EXCEPT ![k] = r]  BY <2>1 DEF Connect
  <2> HIDE DEF r
  <2>6. ShapeInv' /\ OnlyOf(k) /\ conn'[k] = r /\ status'[k] = status[k]
    BY <1>0, <2>1, <2>3, <2>5, ConnUpdate, StatusSame, ZenonT(40) DEF Connect
  <2>7. server' = "listening" /\ status[k].st = "new"
    BY <1>0, <2>1 DEF Connect, ConnInv, StatusInv, NotAsked
  <2>8. OpenInv(k)' /\ StatusInv(k)' /\ BlockInv(k)' /\ ReasonInv(k)'
    BY <2>4, <2>6, <2>7 DEF OpenInv, StatusInv, BlockInv, ReasonInv, Connected, NotAsked, Outcomes
  <2>9. SizeInv(k)'
    BY <2>4, <2>6, ServerAssumption DEF SizeInv, ToSend, ToAnswer
  <2>10. QED  BY <2>6, <2>8, <2>9, OneKept DEF ConnInv
<1>2. CASE ClientSends(k)
  <2> DEFINE n == conn[k].sent + 1
             r == [conn[k] EXCEPT !.sent = n]
  <2>1. n \in Nat  BY <1>0
  <2>2. conn' = [conn EXCEPT ![k] = r]  BY <1>2 DEF ClientSends
  <2> HIDE DEF n
  <2>3. r \in ConnRecord  BY <1>0, <2>1 DEF ConnRecord
  <2>4. /\ r.pc = conn[k].pc /\ r.message = conn[k].message /\ r.data = conn[k].data
        /\ r.gone = conn[k].gone /\ r.sent = n /\ r.got = conn[k].got
        /\ r.answered = conn[k].answered
    BY <1>0 DEF ConnRecord
  <2> HIDE DEF r
  <2>5. ShapeInv' /\ OnlyOf(k) /\ conn'[k] = r /\ status'[k] = status[k]
    BY <1>0, <1>2, <2>2, <2>3, ConnUpdate, StatusSame DEF ClientSends
  <2>6. Connected(k) /\ conn[k].sent < ToSend(k) /\ server' = server  BY <1>2 DEF ClientSends
  <2>7. OpenInv(k)' /\ StatusInv(k)' /\ ReasonInv(k)'
    BY <1>0, <2>4, <2>5, <2>6 DEF ConnInv, OpenInv, StatusInv, ReasonInv, Connected, ToAnswer, Op
  <2>8. ToSend(k)' = ToSend(k) /\ ToAnswer(k)' = ToAnswer(k) /\ Op(k)' = Op(k)
    BY <2>4, <2>5 DEF ToSend, ToAnswer, Op
  <2>9. SizeInv(k)' /\ BlockInv(k)'
    BY <1>0, <2>4, <2>5, <2>6, <2>8 DEF ConnInv, SizeInv, BlockInv, n
  <2>10. QED  BY <2>5, <2>7, <2>9, OneKept DEF ConnInv
<1>3. CASE ClientGoes(k)
  <2> DEFINE r == [conn[k] EXCEPT !.gone = TRUE]
  <2>1. conn' = [conn EXCEPT ![k] = r]  BY <1>3 DEF ClientGoes
  <2>2. r \in ConnRecord  BY <1>0 DEF ConnRecord
  <2>3. /\ r.pc = conn[k].pc /\ r.message = conn[k].message /\ r.data = conn[k].data
        /\ r.gone /\ r.sent = conn[k].sent /\ r.got = conn[k].got
        /\ r.answered = conn[k].answered
    BY <1>0 DEF ConnRecord
  <2> HIDE DEF r
  <2>4. ShapeInv' /\ OnlyOf(k) /\ conn'[k] = r /\ status'[k] = status[k]
    BY <1>0, <1>3, <2>1, <2>2, ConnUpdate, StatusSame DEF ClientGoes
  <2>5. Connected(k) /\ server' = server  BY <1>3 DEF ClientGoes
  <2>6. OpenInv(k)' /\ StatusInv(k)' /\ ReasonInv(k)'
    BY <1>0, <2>3, <2>4, <2>5 DEF ConnInv, OpenInv, StatusInv, ReasonInv, Connected
  <2>7. SizeInv(k)' /\ BlockInv(k)'
    BY <1>0, <2>3, <2>4 DEF ConnInv, SizeInv, BlockInv, ToSend, ToAnswer, Op
  <2>8. QED  BY <2>4, <2>6, <2>7, OneKept DEF ConnInv
<1>4. QED  BY <1>1, <1>2, <1>3

(* The threads, up to the request to the file system. *)
LEMMA ReceiveStep ==
    ASSUME ServerInv, NEW k \in Connections,
           \/ Accept(k) \/ AcceptFails(k) \/ RecvFails(k)
           \/ ReceiveMessage(k) \/ ReceiveBlock(k)
    PROVE  ServerInv'
<1>0. ShapeInv /\ ConnInv(k) /\ conn[k] \in ConnRecord  BY DEF ServerInv, ShapeInv
<1>1. UNCHANGED <<fsVars, server>> /\ Connected(k)
  BY DEF Accept, AcceptFails, RecvFails, ReceiveMessage, ReceiveBlock, Connected
<1>2. status' = [status EXCEPT ![k] = status[k]]  BY <1>0, <1>1, StatusSame
<1> USE ConnShape, SizesAreNumbers
<1>3. ASSUME NEW p \in {"receiving", "closed"}, conn' = [conn EXCEPT ![k].pc = p],
             p = "receiving" => conn[k].pc = "backlog",
             p = "closed" => /\ conn[k].pc \in {"backlog", "receiving", "block"}
                             /\ conn[k].gone \/ TooLong(conn[k].message)
      PROVE  ServerInv'
  <2>1. ShapeInv' /\ OnlyOf(k) /\ conn'[k].pc = p /\ Kept(k) /\ status'[k] = status[k]
    BY <1>0, <1>1, <1>2, <1>3, PcMoves DEF Places
  <2>2. OpenInv(k)' /\ StatusInv(k)' /\ ReasonInv(k)' /\ BlockInv(k)'
    BY <1>0, <1>1, <1>3, <2>1
    DEF ConnInv, OpenInv, StatusInv, ReasonInv, BlockInv, Connected, Kept, NotAsked
  <2>3. SizeInv(k)'
    BY <1>0, <1>3, <2>1 DEF ConnInv, SizeInv, Kept
  <2>4. QED  BY <2>1, <2>2, <2>3, OneKept DEF ConnInv
<1>4. ASSUME NEW n \in Nat, NEW p \in {conn[k].pc, "parse"}, n <= conn[k].sent,
             conn' = [conn EXCEPT ![k].got = n, ![k].pc = p],
             p = "parse" => conn[k].pc = "receiving"
      PROVE  ServerInv'
  <2> DEFINE r == [conn[k] EXCEPT !.got = n, !.pc = p]
  <2>1. conn' = [conn EXCEPT ![k] = r]  BY <1>4
  <2>2. r \in ConnRecord  BY <1>0, <1>4 DEF ConnRecord, Places
  <2>3. /\ r.pc = p /\ r.message = conn[k].message /\ r.data = conn[k].data
        /\ r.gone = conn[k].gone /\ r.sent = conn[k].sent /\ r.got = n
        /\ r.answered = conn[k].answered
    BY <1>0 DEF ConnRecord
  <2> HIDE DEF r
  <2>4. ShapeInv' /\ OnlyOf(k) /\ conn'[k] = r /\ status'[k] = status[k]
    BY <1>0, <1>1, <1>2, <2>1, <2>2, ConnUpdate
  <2>5. OpenInv(k)' /\ StatusInv(k)' /\ ReasonInv(k)'
    BY <1>0, <1>1, <1>4, <2>3, <2>4
    DEF ConnInv, OpenInv, StatusInv, ReasonInv, Connected, NotAsked
  <2>6. SizeInv(k)' /\ BlockInv(k)'
    BY <1>0, <1>4, <2>3, <2>4 DEF ConnInv, SizeInv, BlockInv, ToSend, ToAnswer, Op
  <2>7. QED  BY <2>4, <2>5, <2>6, OneKept DEF ConnInv
<1>5. CASE Accept(k)
  BY <1>5, <1>3 DEF Accept
<1>6. CASE AcceptFails(k) \/ RecvFails(k)
  BY <1>6, <1>3 DEF AcceptFails, RecvFails, Closes
<1>7. CASE ReceiveMessage(k)
  <2>1. conn[k].got + 1 \in Nat /\ conn[k].got + 1 <= conn[k].sent /\ conn[k].pc = "receiving"
    BY <1>0, <1>7 DEF ReceiveMessage
  <2>2. CASE TooLong(conn[k].message) /\ Closes(k)
    BY <1>3, <2>1, <2>2 DEF Closes
  <2>3. CASE conn' = [conn EXCEPT ![k].got = @ + 1]
    <3>1. conn' = [conn EXCEPT ![k].got = conn[k].got + 1, ![k].pc = conn[k].pc]
      BY <1>0, <2>3 DEF ShapeInv, ConnRecord
    <3>2. QED  BY <1>4, <2>1, <3>1
  <2>4. CASE conn' = [conn EXCEPT ![k].got = @ + 1, ![k].pc = "parse"]
    BY <1>4, <2>1, <2>4
  <2>5. QED  BY <1>7, <2>2, <2>3, <2>4 DEF ReceiveMessage
<1>8. CASE ReceiveBlock(k)
  <2>1. PICK n \in 1 .. ToReceive(k) - conn[k].got :
          /\ conn[k].got + n <= conn[k].sent
          /\ conn' = [conn EXCEPT ![k].got = @ + n]
    BY <1>8 DEF ReceiveBlock
  <2>2. conn[k].got + n \in Nat  BY <1>0 DEF ToReceive
  <2>3. conn' = [conn EXCEPT ![k].got = conn[k].got + n, ![k].pc = conn[k].pc]
    BY <1>0, <2>1 DEF ShapeInv, ConnRecord
  <2>4. conn[k].pc = "block"  BY <1>8 DEF ReceiveBlock
  <2>5. QED  BY <1>4, <2>1, <2>2, <2>3, <2>4
<1>9. QED  BY <1>5, <1>6, <1>7, <1>8

(* The request is not a command, or goes to the file system. *)
LEMMA AskStep ==
    ASSUME ServerInv, NEW k \in Connections, Dispatch(k) \/ CallWrite(k)
    PROVE  ServerInv'
<1>0. ShapeInv /\ ConnInv(k)  BY DEF ServerInv
<1>1. /\ server' = server /\ Connected(k) /\ conn[k].pc \in {"parse", "block"}
      /\ status[k].st = "new" /\ conn[k].answered = 0
  BY <1>0, ConnShape DEF Dispatch, CallWrite, Connected, ConnInv, StatusInv, NotAsked
<1> USE ConnShape, SizesAreNumbers
<1>2. ASSUME NEW p \in {"closed", "block"}, conn' = [conn EXCEPT ![k].pc = p], UNCHANGED fsVars,
             p = "closed" => MayThrow(conn[k].message), p = "block" => Op(k) = "write"
      PROVE  ServerInv'
  <2>1. status' = [status EXCEPT ![k] = status[k]]  BY <1>0, <1>2, StatusSame
  <2>2. ShapeInv' /\ OnlyOf(k) /\ conn'[k].pc = p /\ Kept(k) /\ status'[k] = status[k]
    BY <1>0, <1>1, <1>2, <2>1, PcMoves DEF Places
  <2>3. OpenInv(k)' /\ StatusInv(k)' /\ ReasonInv(k)' /\ BlockInv(k)'
    BY <1>0, <1>1, <1>2, <2>2
    DEF ConnInv, OpenInv, StatusInv, ReasonInv, BlockInv, Connected, Kept, NotAsked
  <2>4. SizeInv(k)'
    BY <1>0, <1>2, <2>2 DEF ConnInv, SizeInv, Kept
  <2>5. QED  BY <2>2, <2>3, <2>4, OneKept DEF ConnInv
<1>3. ASSUME NEW c, conn' = [conn EXCEPT ![k].pc = "serving"], FS!Ask(k, c),
             Op(k) = "write" => conn[k].sent = ToSend(k) /\ c.data = conn[k].data
      PROVE  ServerInv'
  <2> DEFINE s == [st |-> "pending", command |-> c]
  <2>1. status' = [status EXCEPT ![k] = s]  BY <1>3 DEF FS!Ask, FS!Asked
  <2>2. s.st = "pending" /\ s.command = c  OBVIOUS
  <2> HIDE DEF s
  <2>3. ShapeInv' /\ OnlyOf(k) /\ conn'[k].pc = "serving" /\ Kept(k) /\ status'[k] = s
    BY <1>0, <1>1, <1>3, <2>1, PcMoves DEF Places
  <2>4. OpenInv(k)' /\ ReasonInv(k)'
    BY <1>0, <1>1, <2>2, <2>3 DEF ConnInv, OpenInv, ReasonInv, Connected, Kept
  <2>5. StatusInv(k)'
    BY <1>1, <2>2, <2>3 DEF StatusInv, Kept, NotAsked, Outcomes
  <2>6. BlockInv(k)'
    BY <1>3, <2>2, <2>3 DEF BlockInv, Kept
  <2>7. SizeInv(k)'
    BY <1>0, <2>3 DEF ConnInv, SizeInv, Kept
  <2>8. QED  BY <2>3, <2>4, <2>5, <2>6, <2>7, OneKept DEF ConnInv
<1>4. CASE Dispatch(k)
  <2>1. CASE MayThrow(conn[k].message) /\ Closes(k) /\ UNCHANGED fsVars
    BY <1>2, <2>1 DEF Closes
  <2>2. ASSUME NEW c \in parse_message(conn[k].message), c.op = "write",
               conn' = [conn EXCEPT ![k].pc = "block"], UNCHANGED fsVars
        PROVE  ServerInv'
    <3>1. Op(k) = "write"  BY <2>2, CommandOf DEF Op
    <3>2. QED  BY <1>2, <2>2, <3>1
  <2>3. ASSUME NEW c \in parse_message(conn[k].message), c.op # "write", FS!Ask(k, c),
               conn' = [conn EXCEPT ![k].pc = "serving"]
        PROVE  ServerInv'
    <3>1. Op(k) # "write"  BY <2>3, CommandOf DEF Op
    <3>2. QED  BY <1>3, <2>3, <3>1
  <2>4. QED  BY <1>4, <2>1, <2>2, <2>3 DEF Dispatch
<1>5. CASE CallWrite(k)
  <2>1. PICK c \in parse_message(conn[k].message) : FS!Ask(k, WithData(c, conn[k].data))
    BY <1>5 DEF CallWrite
  <2>2. WithData(c, conn[k].data).data = conn[k].data  BY DEF WithData
  <2>3. conn[k].sent = ToSend(k)
    BY <1>0, <1>5 DEF CallWrite, ToReceive, ConnInv, SizeInv
  <2>4. conn' = [conn EXCEPT ![k].pc = "serving"]  BY <1>5 DEF CallWrite
  <2>5. QED  BY <1>3, <2>1, <2>2, <2>3, <2>4
<1>6. QED  BY <1>4, <1>5

(* The file system serves the request, and the answer goes out. *)
LEMMA AnswerStep ==
    ASSUME ServerInv, NEW k \in Connections, Serve(k) \/ Answer(k)
    PROVE  ServerInv'
<1>0. ShapeInv /\ ConnInv(k) /\ conn[k] \in ConnRecord  BY DEF ServerInv, ShapeInv
<1>1. server' = server /\ Connected(k)  BY DEF Serve, Answer, Connected
<1> USE ConnShape, SizesAreNumbers
<1> DEFINE Moves(p, s) == /\ conn' = [conn EXCEPT ![k].pc = p]
                          /\ status' = [status EXCEPT ![k] = s]
<1>2. ASSUME NEW p \in {"answering", "closed"}, NEW s, Moves(p, s), s.st \in {"done", "failed"},
             conn[k].answered > 0 => s.st = "done", status[k].st # "new",
             p = "answering" => s.st = "done",
             p = "closed" => \/ s.st = "failed" \/ conn[k].gone
                             \/ s.st = "done" /\ conn[k].answered = ToAnswer(k)
      PROVE  ServerInv'
  <2>1. ShapeInv' /\ OnlyOf(k) /\ conn'[k].pc = p /\ Kept(k) /\ status'[k] = s
    BY <1>0, <1>1, <1>2, PcMoves DEF Places
  <2>2. OpenInv(k)' /\ ReasonInv(k)'
    BY <1>0, <1>1, <1>2, <2>1 DEF ConnInv, OpenInv, ReasonInv, Connected, Kept
  <2>3. StatusInv(k)'
    BY <1>0, <1>2, <2>1 DEF StatusInv, Kept, NotAsked, Outcomes
  <2>4. SizeInv(k)' /\ BlockInv(k)'
    BY <1>0, <1>2, <2>1 DEF ConnInv, SizeInv, BlockInv, Kept
  <2>5. QED  BY <2>1, <2>2, <2>3, <2>4, OneKept DEF ConnInv
<1> HIDE DEF Moves
<1>3. CASE Serve(k)
  <2>1. status[k].st = "pending" /\ conn[k].answered = 0
    BY <1>0, <1>3 DEF Serve, ConnInv, StatusInv
  <2>2. ASSUME FS!Do(k), conn' = [conn EXCEPT ![k].pc = "answering"]  PROVE ServerInv'
    <3> DEFINE s == FS!Was("done", FS!Result(tree, status[k].command))
    <3>1. Moves("answering", s)  BY <2>2 DEF FS!Do, Moves
    <3>2. s.st = "done"  BY DEF FS!Was
    <3> HIDE DEF s
    <3>3. QED  BY <1>2, <2>1, <3>1, <3>2
  <2>3. ASSUME FS!Refuse(k), Catches(k)  PROVE ServerInv'
    <3> DEFINE s == FS!Was("failed", NoData)
    <3>1. Moves("closed", s)  BY <2>3 DEF FS!Refuse, Moves, Catches, Closes
    <3>2. s.st = "failed"  BY DEF FS!Was
    <3> HIDE DEF s
    <3>3. QED  BY <1>2, <2>1, <3>1, <3>2
  <2>4. QED  BY <1>3, <2>2, <2>3 DEF Serve
<1>4. CASE Answer(k)
  <2>1. conn[k].pc = "answering" /\ status[k].st = "done" /\ UNCHANGED fsVars
    BY <1>0, <1>4 DEF Answer, ConnInv, StatusInv
  <2>2. status' = [status EXCEPT ![k] = status[k]]  BY <1>0, <2>1, StatusSame
  <2>3. CASE (conn[k].gone \/ Answered(k)) /\ Closes(k)
    <3>1. Moves("closed", status[k])  BY <2>2, <2>3 DEF Closes, Moves
    <3>2. conn[k].gone \/ conn[k].answered = ToAnswer(k)  BY <2>3 DEF Answered
    <3>3. QED  BY <1>2, <2>1, <3>1, <3>2
  <2>4. CASE \E n \in 1 .. PieceEnd(k) - conn[k].answered :
                conn' = [conn EXCEPT ![k].answered = @ + n]
    <3>1. PICK n \in 1 .. PieceEnd(k) - conn[k].answered :
                conn' = [conn EXCEPT ![k].answered = @ + n]
      BY <2>4
    <3> DEFINE a == conn[k].answered + n
               r == [conn[k] EXCEPT !.answered = a]
    <3>2. a \in Nat /\ a > 0 /\ a <= ToAnswer(k)  BY <1>0 DEF PieceEnd
    <3>3. conn' = [conn EXCEPT ![k] = r]  BY <3>1
    <3> HIDE DEF a
    <3>4. r \in ConnRecord  BY <1>0, <3>2 DEF ConnRecord
    <3>5. /\ r.pc = conn[k].pc /\ r.message = conn[k].message /\ r.data = conn[k].data
          /\ r.gone = conn[k].gone /\ r.sent = conn[k].sent /\ r.got = conn[k].got
          /\ r.answered = a
      BY <1>0 DEF ConnRecord
    <3> HIDE DEF r
    <3>6. ShapeInv' /\ OnlyOf(k) /\ conn'[k] = r /\ status'[k] = status[k]
      BY <1>0, <1>1, <2>2, <3>3, <3>4, ConnUpdate
    <3>7. OpenInv(k)' /\ StatusInv(k)' /\ ReasonInv(k)'
      BY <1>0, <1>1, <2>1, <3>5, <3>6 DEF ConnInv, OpenInv, StatusInv, ReasonInv, Connected
    <3>8. ToSend(k)' = ToSend(k) /\ ToAnswer(k)' = ToAnswer(k) /\ Op(k)' = Op(k)
      BY <3>5, <3>6 DEF ToSend, ToAnswer, Op
    <3>9. SizeInv(k)' /\ BlockInv(k)'
      BY <1>0, <3>2, <3>5, <3>6, <3>8 DEF ConnInv, SizeInv, BlockInv
    <3>10. QED  BY <3>6, <3>7, <3>9, OneKept DEF ConnInv
  <2>5. QED  BY <1>4, <2>3, <2>4 DEF Answer
<1>5. QED  BY <1>3, <1>4

(* The main thread: it starts to listen, or the process ends. *)
LEMMA MainStep ==
    ASSUME ServerInv, StartUp \/ \E k \in Connections : ThreadFails(k)
    PROVE  ServerInv'
<1>0. ShapeInv /\ \A j \in Connections : ConnInv(j)  BY DEF ServerInv
<1>1. CASE StartUp /\ UNCHANGED conn
  <2>1. /\ server = "starting" /\ UNCHANGED <<conn, status>>
        /\ server' \in {"listening", "down"}
    BY <1>1 DEF StartUp, Down, fsVars
  <2>2. ShapeInv'  BY <1>0, <2>1 DEF ShapeInv
  <2>3. ASSUME NEW j \in Connections PROVE ConnInv(j)'
    <3>1. ConnInv(j) /\ conn[j].pc = "none"  BY <1>0, <2>1 DEF ConnInv, OpenInv
    <3>2. OpenInv(j)' /\ StatusInv(j)' /\ ReasonInv(j)'
      BY <3>1, <2>1 DEF ConnInv, OpenInv, StatusInv, ReasonInv, Connected
    <3>3. SizeInv(j)' /\ BlockInv(j)'
      BY <3>1, <2>1 DEF ConnInv, SizeInv, BlockInv, ToSend, ToAnswer, Op
    <3>4. QED  BY <3>2, <3>3 DEF ConnInv
  <2>4. QED  BY <2>2, <2>3 DEF ServerInv
<1>2. CASE Down /\ \/ UNCHANGED fsVars /\ \A j \in Connections : status[j].st # "pending"
                   \/ FS!Lose({r \in Connections : status[r].st = "pending"})
  <2> DEFINE lost == [st |-> "lost", data |-> NoData]
  <2>1. /\ server' = "down"
        /\ conn' = [j \in Connections |-> IF Connected(j) THEN [conn[j] EXCEPT !.pc = "closed"]
                                          ELSE conn[j]]
    BY <1>2 DEF Down
  <2>2. /\ status' = [j \in Connections |-> status'[j]]
        /\ \A j \in Connections :
             status'[j] = IF status[j].st = "pending" THEN lost ELSE status[j]
    BY <1>0, <1>2 DEF FS!Lose, FS!Was, fsVars, ShapeInv
  <2>3. ASSUME NEW j \in Connections
        PROVE  /\ conn'[j] \in ConnRecord /\ Kept(j)
               /\ conn'[j].pc = IF Connected(j) THEN "closed" ELSE conn[j].pc
    <3>1. conn[j] \in ConnRecord  BY <1>0 DEF ShapeInv
    <3>2. CASE Connected(j)
      <4>1. conn'[j] = [conn[j] EXCEPT !.pc = "closed"]  BY <2>1, <3>2
      <4>2. QED  BY <3>1, <3>2, <4>1 DEF ConnRecord, Places, Kept, Op, ToSend, ToAnswer
    <3>3. CASE ~Connected(j)
      <4>1. conn'[j] = conn[j]  BY <2>1, <3>3
      <4>2. QED  BY <3>1, <3>3, <4>1 DEF Kept, Op, ToSend, ToAnswer
    <3>4. QED  BY <3>2, <3>3
  <2>4. ShapeInv'  BY <2>1, <2>2, <2>3 DEF ShapeInv
  <2>5. ASSUME NEW j \in Connections PROVE ConnInv(j)'
    <3>1. ConnInv(j)  BY <1>0
    <3>2. lost.st = "lost"  OBVIOUS
    <3> HIDE DEF lost
    <3>3. OpenInv(j)' /\ ReasonInv(j)'
      BY <3>1, <2>1, <2>3 DEF ConnInv, OpenInv, ReasonInv, Connected, Kept
    <3>4. StatusInv(j)'
      BY <3>1, <3>2, <2>2, <2>3, <1>0, ConnShape
      DEF ConnInv, StatusInv, Connected, Kept, NotAsked, Outcomes, Places
    <3>5. SizeInv(j)' /\ BlockInv(j)'
      BY <3>1, <3>2, <2>2, <2>3 DEF ConnInv, SizeInv, BlockInv, Kept, Connected
    <3>6. QED  BY <3>3, <3>4, <3>5 DEF ConnInv
  <2>6. QED  BY <2>4, <2>5 DEF ServerInv
<1>3. CASE StartUp
  <2>1. CASE UNCHANGED conn  BY <1>1, <1>3, <2>1
  <2>2. CASE Down
    <3>1. \A j \in Connections : status[j].st # "pending"
      BY <1>0, <1>3 DEF StartUp, ConnInv, OpenInv, StatusInv
    <3>2. QED  BY <1>2, <1>3, <2>2, <3>1 DEF StartUp
  <2>3. QED  BY <1>3, <2>1, <2>2 DEF StartUp
<1>4. CASE \E k \in Connections : ThreadFails(k)
  BY <1>2, <1>4 DEF ThreadFails
<1>5. QED  BY <1>3, <1>4

LEMMA ServerStep == ServerInv /\ [Next]_vars => ServerInv'
<1> SUFFICES ASSUME ServerInv, [Next]_vars PROVE ServerInv'  OBVIOUS
<1>1. CASE UNCHANGED vars
  <2>1. UNCHANGED <<status, server, conn>>  BY <1>1 DEF vars, fsVars
  <2>2. ShapeInv'  BY <2>1 DEF ServerInv, ShapeInv
  <2>3. ASSUME NEW k \in Connections PROVE ConnInv(k)'
    BY <2>1 DEF ServerInv, ConnInv, OpenInv, SizeInv, StatusInv, BlockInv, ReasonInv,
                Connected, ToSend, ToAnswer, Op
  <2>4. QED  BY <2>2, <2>3 DEF ServerInv
<1>2. CASE StartUp \/ \E k \in Connections : ThreadFails(k)
  BY <1>2, MainStep
<1>3. ASSUME NEW k \in Connections,
             \/ \E m \in Messages : \E d \in BlocksWith(m) : Connect(k, m, d)
             \/ ClientSends(k) \/ ClientGoes(k)
      PROVE  ServerInv'
  BY <1>3, ClientStep
<1>4. ASSUME NEW k \in Connections, Accept(k) \/ AcceptFails(k) \/ Handle(k) \/ Serve(k)
      PROVE  ServerInv'
  BY <1>4, ReceiveStep, AskStep, AnswerStep DEF Handle
<1>5. QED  BY <1>1, <1>2, <1>3, <1>4 DEF Next

(* In every reachable state the invariant holds. *)
LEMMA ServerInvariant == Spec => []ServerInv
BY ServerInit, ServerStep, PTL DEF Spec

-----------------------------------------------------------------------------
(* Theorems.                                                               *)

(* The server's threads never receive more than the client sent, and never *)
(* send more than the answer; every thread that works for a client has a   *)
(* request, and works while the server listens.                            *)
THEOREM ServerTypeCorrect == Spec => []TypeOK
<1>1. ServerInv => TypeOK
  <2> SUFFICES ASSUME ServerInv PROVE TypeOK  OBVIOUS
  <2>1. ASSUME NEW k \in Connections
        PROVE  /\ conn[k].pc \in Places /\ conn[k].gone \in BOOLEAN
               /\ Connected(k) => conn[k].message \in Messages /\ server = "listening"
               /\ 0 <= conn[k].got /\ conn[k].got <= conn[k].sent /\ conn[k].sent <= ToSend(k)
               /\ conn[k].answered \in 0 .. ToAnswer(k)
               /\ status[k].st \in Outcomes
    BY ConnShape, SizesAreNumbers DEF ServerInv, ConnInv, OpenInv, SizeInv, StatusInv
  <2>2. QED  BY <2>1 DEF TypeOK, ServerInv, ShapeInv, Places, Outcomes
<1>2. QED  BY <1>1, ServerInvariant, PTL

(* The file system is asked to write only when the client has sent its     *)
(* whole block, and with that block: handle_write counts what recv         *)
(* returned, whatever its pieces, and a client that goes away in the       *)
(* middle changes nothing.                                                 *)
THEOREM WritesWhole == Spec => []WholeBlockWritten
<1>1. ServerInv => WholeBlockWritten
  BY DEF ServerInv, ConnInv, BlockInv, WholeBlockWritten
<1>2. QED  BY <1>1, ServerInvariant, PTL

(* No client gets a byte of an answer before its request took effect, or   *)
(* if it was refused or lost: the handlers send after the file system      *)
(* returned, and not at all if it threw.                                   *)
THEOREM AnswersTrue == Spec => []AnswerMeansDone
<1>1. ServerInv => AnswerMeansDone
  BY DEF ServerInv, ConnInv, StatusInv, AnswerMeansDone
<1>2. QED  BY <1>1, ServerInvariant, PTL

(* A server that is up closes the connection of a client that is still     *)
(* there only if the request is not legal, the file system refused it, or  *)
(* the whole answer is sent: ~SocketRAII closes on every way out of        *)
(* handle_request, and there is no other way out.                          *)
THEOREM HangsUpRightly == Spec => []HangsUpForAReason
<1>1. ServerInv => HangsUpForAReason
  BY DEF ServerInv, ConnInv, ReasonInv, HangsUpForAReason
<1>2. QED  BY <1>1, ServerInvariant, PTL
=============================================================================
