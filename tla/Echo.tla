-------------------------------- MODULE Echo --------------------------------
(***************************************************************************)
(* The echo servers and clients of 1sem/lab7, over UDP and over TCP.       *)
(*                                                                         *)
(* A client sends a message and waits for an answer before it sends the    *)
(* next one.  A message is Parts pieces: a datagram arrives whole or not   *)
(* at all, while TCP may hand over a stream piece by piece and no message  *)
(* ends are kept.  A piece is <<c, n>>, the n-th that client c sends.  All *)
(* the UDP server's work is done by one thread; the TCP server has one     *)
(* thread for each connection.                                             *)
(***************************************************************************)
EXTENDS Integers, Sequences, SequencesExt

CONSTANTS
    Clients,
    Parts,        \* pieces of a message
    MaxMessages   \* bound: messages a client sends

ASSUME EchoAssumption == Parts \in Nat \ {0} /\ MaxMessages \in Nat

VARIABLES
    transport,  \* which pair of programs runs: "udp" or "tcp"
    server,     \* "up"; "finishing" once isFinished is 1; "down"
    conn,       \* the thread that serves a client: "none" yet, "open", "closed"
    pc,         \* what each client does
    toServer,   \* what is on its way from each client, ...
    held,       \* ... in the buffer of the thread that echoes it, ...
    toClient,   \* ... and on its way back
    sent,       \* the number of messages each client has sent
    got         \* what each client has received

channels == <<toServer, held, toClient>>
vars == <<transport, server, conn, pc, channels, sent, got>>

Init ==
    /\ transport \in {"udp", "tcp"}
    /\ server = "up"
    /\ conn = [c \in Clients |-> IF transport = "udp" THEN "open" ELSE "none"]
    /\ pc = [c \in Clients |-> "start"]
    /\ toServer = [c \in Clients |-> <<>>]
    /\ held = [c \in Clients |-> <<>>]
    /\ toClient = [c \in Clients |-> <<>>]
    /\ sent = [c \in Clients |-> 0]
    /\ got = [c \in Clients |-> <<>>]

Goto(c, label) == pc' = [pc EXCEPT ![c] = label]
Put(chan, c, s) == [chan EXCEPT ![c] = @ \o s]
Pieces(c, n) == [k \in 1..n |-> <<c, k>>]

(* Fault of Message: the terminating zero is sent as well. *)
Message_terminated(c) ==
    SubSeq(Pieces(c, (sent[c] + 1) * Parts + 1), sent[c] * Parts + 1, (sent[c] + 1) * Parts + 1)

(* strlen(message) bytes of what has been typed. *)
Message(c) ==
    SubSeq(Pieces(c, (sent[c] + 1) * Parts), sent[c] * Parts + 1, (sent[c] + 1) * Parts)

(* How many pieces one receiving call may return. *)
Amounts(s) == IF transport = "udp" THEN {Len(s)} \ {0} ELSE 1..Len(s)

-----------------------------------------------------------------------------
(* The clients.                                                            *)

(* connect() succeeds as soon as the server listens; UDP has no such call. *)
start(c) ==
    /\ pc[c] = "start"
    /\ Goto(c, IF transport = "tcp" /\ server = "down" THEN "ended" ELSE "prompt")
    /\ UNCHANGED <<transport, server, conn, channels, sent, got>>

(* The server's end of a connection is gone. *)
HungUp(c) == transport = "tcp" /\ (server = "down" \/ conn[c] = "closed")

(* sendto() or send().  A datagram may be lost, and is when nobody listens; *)
(* what is sent to a closed connection is dropped, or SIGPIPE ends the     *)
(* client.                                                                 *)
send(c) ==
    /\ pc[c] = "prompt"
    /\ sent[c] < MaxMessages
    /\ sent' = [sent EXCEPT ![c] = @ + 1]
    /\ \/ /\ server # "down" /\ ~HungUp(c)
          /\ toServer' = Put(toServer, c, Message(c))
          /\ Goto(c, "receive")
       \/ /\ transport = "udp" \/ HungUp(c)
          /\ Goto(c, "receive")
          /\ UNCHANGED toServer
       \/ /\ HungUp(c)
          /\ Goto(c, "ended")
          /\ UNCHANGED toServer
    /\ UNCHANGED <<transport, server, conn, held, toClient, got>>

(* recvfrom() or recv(), without a timeout. *)
receive(c) ==
    /\ pc[c] = "receive"
    /\ \E n \in Amounts(toClient[c]) :
        /\ got' = Put(got, c, SubSeq(toClient[c], 1, n))
        /\ toClient' = [toClient EXCEPT ![c] = SubSeq(@, n + 1, Len(@))]
    /\ Goto(c, "prompt")
    /\ UNCHANGED <<transport, server, conn, toServer, held, sent>>

(* At the end of the stream recv() returns 0, which the client takes for   *)
(* an empty answer, or -1, which ends it.                                  *)
end_of_stream(c) ==
    /\ pc[c] = "receive"
    /\ HungUp(c)
    /\ toClient[c] = <<>>
    /\ Goto(c, "prompt") \/ Goto(c, "ended")
    /\ UNCHANGED <<transport, server, conn, channels, sent, got>>

(* "exit999": the client closes its socket and ends. *)
leave(c) ==
    /\ pc[c] = "prompt"
    /\ Goto(c, "ended")
    /\ UNCHANGED <<transport, server, conn, channels, sent, got>>

client(c) == start(c) \/ send(c) \/ receive(c) \/ end_of_stream(c) \/ leave(c)

-----------------------------------------------------------------------------
(* The servers.                                                            *)

(* The end of the process. *)
Down ==
    /\ server' = "down"
    /\ toServer' = [c \in Clients |-> <<>>]
    /\ held' = [c \in Clients |-> <<>>]

(* accept() and a thread for the connection, or exit(1) without one. *)
accept(c) ==
    /\ conn[c] = "none"
    /\ pc[c] # "start"
    /\ \/ conn' = [conn EXCEPT ![c] = "open"] /\ UNCHANGED <<server, toServer, held>>
       \/ Down /\ UNCHANGED conn
    /\ UNCHANGED <<transport, pc, toClient, sent, got>>

(* messageHandler() waits in recvfrom() with its buffer empty;             *)
(* connectionHandler() has a buffer for each connection.                   *)
Idle(c) ==
    /\ conn[c] = "open"
    /\ \A d \in Clients : transport = "udp" \/ d = c => held[d] = <<>>

(* Fault of server_receive: the buffer is shared by all clients and        *)
(* messageHandler() does not wait until it has been sent.                  *)
server_receive_shared(c) ==
    /\ \E n \in Amounts(toServer[c]) :
        /\ held' = [d \in Clients |-> SubSeq(toServer[c], 1, n)]
        /\ toServer' = [toServer EXCEPT ![c] = SubSeq(@, n + 1, Len(@))]
    /\ UNCHANGED <<transport, server, conn, pc, toClient, sent, got>>

(* Fault of server_receive: what comes after the first message is dropped. *)
server_receive_once(c) ==
    /\ Idle(c)
    /\ \E n \in Amounts(toServer[c]) :
        /\ held' = [held EXCEPT ![c] = IF got[c] = <<>> THEN SubSeq(toServer[c], 1, n) ELSE <<>>]
        /\ toServer' = [toServer EXCEPT ![c] = SubSeq(@, n + 1, Len(@))]
    /\ UNCHANGED <<transport, server, conn, pc, toClient, sent, got>>

(* recvfrom() or recv(). *)
server_receive(c) ==
    /\ Idle(c)
    /\ \E n \in Amounts(toServer[c]) :
        /\ held' = [held EXCEPT ![c] = SubSeq(toServer[c], 1, n)]
        /\ toServer' = [toServer EXCEPT ![c] = SubSeq(@, n + 1, Len(@))]
    /\ UNCHANGED <<transport, server, conn, pc, toClient, sent, got>>

(* sendto() sends the datagram back to where it came from; the answer may  *)
(* be lost.  The thread for all clients ends once isFinished is set.       *)
echo_udp(c) ==
    /\ transport = "udp"
    /\ held[c] # <<>>
    /\ \/ toClient' = Put(toClient, c, held[c])
       \/ UNCHANGED toClient
    /\ held' = [held EXCEPT ![c] = <<>>]
    /\ conn' = [d \in Clients |-> IF server = "finishing" THEN "closed" ELSE conn[d]]
    /\ UNCHANGED <<transport, server, pc, toServer, sent, got>>

(* write() to the connection, unless isFinished is set by now: then the    *)
(* thread closes it instead.                                               *)
echo_tcp(c) ==
    /\ transport = "tcp"
    /\ held[c] # <<>>
    /\ pc[c] # "ended"
    /\ held' = [held EXCEPT ![c] = <<>>]
    /\ \/ toClient' = Put(toClient, c, held[c]) /\ UNCHANGED conn
       \/ /\ server = "finishing"
          /\ conn' = [conn EXCEPT ![c] = "closed"]
          /\ UNCHANGED toClient
    /\ UNCHANGED <<transport, server, pc, toServer, sent, got>>

(* The client has gone.  Its connection is closed when recv() returns 0 or *)
(* write() fails.  If the client has left pieces unread, or some are still *)
(* to be echoed to it, the connection is reset, and a write() after that   *)
(* raises SIGPIPE, which ends the whole server.                            *)
disconnect(c) ==
    /\ transport = "tcp"
    /\ conn[c] = "open"
    /\ pc[c] = "ended"
    /\ \/ /\ conn' = [conn EXCEPT ![c] = "closed"]
          /\ toServer' = [toServer EXCEPT ![c] = <<>>]
          /\ held' = [held EXCEPT ![c] = <<>>]
          /\ UNCHANGED server
       \/ /\ toServer[c] \o held[c] \o toClient[c] # <<>>
          /\ Down
          /\ UNCHANGED conn
    /\ UNCHANGED <<transport, pc, toClient, sent, got>>

handler(c) ==
    /\ server # "down"
    /\ accept(c) \/ server_receive(c) \/ echo_udp(c) \/ echo_tcp(c) \/ disconnect(c)

(* 'q' on the server's terminal. *)
input_q ==
    /\ server = "up"
    /\ server' = "finishing"
    /\ UNCHANGED <<transport, conn, pc, channels, sent, got>>

server_exit ==
    /\ server = "finishing"
    /\ Down
    /\ UNCHANGED <<transport, conn, pc, toClient, sent, got>>

Next == (\E c \in Clients : client(c) \/ handler(c)) \/ input_q \/ server_exit

Spec == Init /\ [][Next]_vars

(* The threads of the server and a client's receiving call run when they   *)
(* can.  What is typed at a terminal is up to its user.                    *)
FairSpec ==
    /\ Spec
    /\ \A c \in Clients : WF_vars(handler(c)) /\ WF_vars(receive(c) \/ end_of_stream(c))
    /\ WF_vars(server_exit)

-----------------------------------------------------------------------------
(* Properties *)

TypeOK ==
    /\ transport \in {"udp", "tcp"}
    /\ server \in {"up", "finishing", "down"}
    /\ conn \in [Clients -> {"none", "open", "closed"}]
    /\ pc \in [Clients -> {"start", "prompt", "receive", "ended"}]
    /\ sent \in [Clients -> 0..MaxMessages]
    /\ \A chan \in {toServer, held, toClient, got} :
        \A c \in Clients : chan[c] \in Seq(Clients \X (1..(MaxMessages * Parts)))

(* With several clients served at once, a client gets what it has sent     *)
(* itself, in that order; with datagrams each answer is the whole of the   *)
(* message just sent, although nothing in it says which one it answers.    *)
OwnEcho ==
    \A c \in Clients :
        /\ IsPrefix(got[c], Pieces(c, sent[c] * Parts))
        /\ transport = "udp" /\ pc[c] = "prompt" => got[c] = Pieces(c, sent[c] * Parts)

(* A client that waits gets an answer or notices that the server is gone.  *)
(* Only with datagrams it may wait for ever: the message, or its echo, is  *)
(* nowhere any more.                                                       *)
AnsweredUnlessLost ==
    \A c \in Clients :
        pc[c] = "receive" ~>
            \/ pc[c] # "receive"
            \/ transport = "udp" /\ toServer[c] \o held[c] \o toClient[c] = <<>>
=============================================================================
