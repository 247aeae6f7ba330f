------------------------------ MODULE Sockets ------------------------------
(***************************************************************************)
(* The transport of a stechec2 match: src/lib/net and the two messengers   *)
(* of src/lib/rules.  The server binds a PUB and a REP socket, a client    *)
(* connects a SUB and a REQ socket.                                        *)
(*                                                                         *)
(*   - PUB/SUB: what the server pushes is read by every client, in order,  *)
(*     each at its own pace.  The stream is an append-only sequence and a  *)
(*     client keeps the number of messages it has pulled.  (That a client  *)
(*     may miss the head of the stream before its subscription reaches the *)
(*     publisher is the business of the handshake, not of this module.)    *)
(*   - REQ/REP: a client sends one request and waits for its reply before  *)
(*     it may send again; the server receives requests from any client, in *)
(*     the order it finds them, and answers the one it has just received.  *)
(*     Requests of different clients are not ordered: a set.               *)
(***************************************************************************)
EXTENDS Integers, Sequences

CONSTANT Client          \* the processes with a SUB and a REQ socket

VARIABLES
    requests,   \* requests sent and not yet received by the server
    replies,    \* clients whose acknowledgement is on its way
    published,  \* everything the server pushed, in order
    cursor      \* cursor[c]: how many published messages c has pulled

socketVars == <<requests, replies, published, cursor>>

(***************************************************************************)
(* Message bodies.  A MSG_RULES message carries no tag that would tell a   *)
(* player id from a list of actions: the receiver decodes by position.     *)
(* The field "type" is what the sender meant.                              *)
(***************************************************************************)
IdMessage(id) == [type |-> "id", id |-> id]
ActionsMessage(actions) == [type |-> "actions", actions |-> actions]

SocketsInit ==
    /\ requests = {}
    /\ replies = {}
    /\ published = <<>>
    /\ cursor = [c \in Client |-> 0]

(* The server side. *)
Push(message) == published' = Append(published, message)

Poll == requests # {}

\* Mutant: the server receives and forgets to answer.
RecvWithoutAck(request) ==
    /\ request \in requests
    /\ requests' = requests \ {request}
    /\ UNCHANGED replies

\* Receive any pending request and acknowledge its sender.
RecvAndAck(request) ==
    /\ request \in requests
    /\ requests' = requests \ {request}
    /\ replies' = replies \union {request.from}

(* The client side. *)
CanPull(c) == cursor[c] < Len(published)

NextMessage(c) == published[cursor[c] + 1]

Pull(c) ==
    /\ CanPull(c)
    /\ cursor' = [cursor EXCEPT ![c] = @ + 1]

SendActions(c, actions) ==
    requests' = requests \union {[from |-> c, actions |-> actions]}

\* Mutant: a client goes on without its acknowledgement.
SkipAck(c) == UNCHANGED replies

WaitForAck(c) ==
    /\ c \in replies
    /\ replies' = replies \ {c}
=============================================================================
