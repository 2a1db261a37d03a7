---------------------------- MODULE EchoService ----------------------------
(***************************************************************************)
(* The echo server (server.c) and the clients that talk to it (client.c).  *)
(*                                                                         *)
(* The server accepts a connection, reads one message, writes one answer   *)
(* and accepts the next connection; it closes none.  A client writes and   *)
(* reads in turn on its one connection.  The answer is the whole buffer of *)
(* the server, one byte more than a client reads at a time.                *)
(***************************************************************************)
EXTENDS Naturals, Sequences, FiniteSets

CONSTANTS
  Clients,
  Nobody,
  Backlog,         \* connections that wait to be accepted
  MaxConnections,  \* connections the server has descriptors for
  BufferSize       \* bytes a client reads at a time

ASSUME EchoAssumption ==
  /\ Nobody \notin Clients
  /\ Backlog \in Nat \ {0}
  /\ MaxConnections \in Nat
  /\ BufferSize \in Nat \ {0}

VARIABLES
  server,     \* where the server is
  newSockFd,  \* the client at the other end of newSockFd
  taken,      \* the clients whose connections were accepted
  waiting,    \* the connections to be accepted
  client,     \* client[c]: where the client is
  unread,     \* the clients with a message the server has not read
  toClient,   \* toClient[c]: bytes of the answer c has not read
  reads       \* history: reads[c]: reads of c that returned bytes

serverVars == <<server, newSockFd, taken, waiting>>
clientVars == <<client, unread, toClient, reads>>
echoVars == <<serverVars, clientVars>>

EchoTypeOK ==
  /\ server \in {"accept", "read", "write", "exited"}
  /\ newSockFd \in taken \cup {Nobody}
  /\ taken \subseteq Clients
  /\ waiting \in Seq(Clients \ taken)
  /\ client \in [Clients -> {"connect", "type", "read", "ended"}]
  /\ unread \subseteq Clients
  /\ toClient \in [Clients -> Nat]
  /\ reads \in [Clients -> Nat]

EchoInit ==
  /\ server = "accept"
  /\ newSockFd = Nobody
  /\ taken = {}
  /\ waiting = <<>>
  /\ client = [c \in Clients |-> "connect"]
  /\ unread = {}
  /\ toClient = [c \in Clients |-> 0]
  /\ reads = [c \in Clients |-> 0]

-----------------------------------------------------------------------------
(* The server.                                                             *)

Left == client[newSockFd] = "ended"

Accept ==
  /\ server = "accept"
  /\ Cardinality(taken) < MaxConnections
  /\ waiting # <<>>
  /\ server' = "read"
  /\ newSockFd' = Head(waiting)
  /\ taken' = taken \cup {Head(waiting)}
  /\ waiting' = Tail(waiting)
  /\ UNCHANGED clientVars

(* newSockFd is overwritten and never closed, so descriptors run out.      *)
AcceptFails ==
  /\ server = "accept"
  /\ Cardinality(taken) = MaxConnections
  /\ server' = "exited"
  /\ UNCHANGED <<newSockFd, taken, waiting, clientVars>>

(* The end of the connection counts as a message.                          *)
ReadMessage ==
  /\ server = "read"
  /\ newSockFd \in unread \/ Left
  /\ server' = "write"
  /\ unread' = unread \ {newSockFd}
  /\ UNCHANGED <<newSockFd, taken, waiting, client, toClient, reads>>

(* Variant: the server goes on with the connection it has answered.        *)
WriteAndReadOn ==
  /\ server = "write"
  /\ server' = "read"
  /\ toClient' = [toClient EXCEPT ![newSockFd] = @ + BufferSize + 1]
  /\ UNCHANGED <<newSockFd, taken, waiting, client, unread, reads>>

(* Variant: the answer is forgotten.                                       *)
WriteNothing ==
  /\ server = "write"
  /\ server' = "accept"
  /\ UNCHANGED <<newSockFd, taken, waiting, clientVars>>

WriteAnswer ==
  /\ server = "write"
  /\ server' = "accept"
  /\ toClient' = [toClient EXCEPT ![newSockFd] = @ + BufferSize + 1]
  /\ UNCHANGED <<newSockFd, taken, waiting, client, unread, reads>>

(* A client that left may reset the connection: the server ends, by its    *)
(* own exit(1) or by the signal of a write to a broken connection.         *)
ConnectionReset ==
  /\ server \in {"read", "write"}
  /\ Left
  /\ server' = "exited"
  /\ UNCHANGED <<newSockFd, taken, waiting, clientVars>>

ServerStep ==
  Accept \/ AcceptFails \/ ReadMessage \/ WriteAnswer \/ ConnectionReset

-----------------------------------------------------------------------------
(* A client.                                                               *)

Connect(c) ==
  /\ client[c] = "connect"
  /\ server # "exited"
  /\ Len(waiting) < Backlog
  /\ client' = [client EXCEPT ![c] = "type"]
  /\ waiting' = Append(waiting, c)
  /\ UNCHANGED <<server, newSockFd, taken, unread, toClient, reads>>

(* Without a server the client cannot connect, and it ends when it writes. *)
Fails(c) ==
  /\ client[c] \in {"connect", "type"}
  /\ server = "exited"
  /\ client' = [client EXCEPT ![c] = "ended"]
  /\ UNCHANGED <<serverVars, unread, toClient, reads>>

(* The user types a line.  The first write to a server that has ended may  *)
(* still succeed.                                                          *)
SendMessage(c) ==
  /\ client[c] = "type"
  /\ client' = [client EXCEPT ![c] = "read"]
  /\ unread' = unread \cup {c}
  /\ UNCHANGED <<serverVars, toClient, reads>>

ReadAnswer(c) ==
  /\ client[c] = "read"
  /\ client' = [client EXCEPT ![c] = "type"]
  /\ \E n \in 1..BufferSize :
       /\ n <= toClient[c]
       /\ toClient' = [toClient EXCEPT ![c] = @ - n]
  /\ reads' = [reads EXCEPT ![c] = @ + 1]
  /\ UNCHANGED <<serverVars, unread>>

(* A read that fails is reported, and the loop goes on.                    *)
ReadNothing(c) ==
  /\ client[c] = "read"
  /\ server = "exited"
  /\ client' = [client EXCEPT ![c] = "type"]
  /\ UNCHANGED <<serverVars, unread, toClient, reads>>

(* The user ends the client.                                               *)
Quit(c) ==
  /\ client[c] \in {"type", "read"}
  /\ client' = [client EXCEPT ![c] = "ended"]
  /\ UNCHANGED <<serverVars, unread, toClient, reads>>

ClientReads(c) == ReadAnswer(c) \/ ReadNothing(c)

EchoNext ==
  \/ ServerStep
  \/ \E c \in Clients :
       Connect(c) \/ Fails(c) \/ SendMessage(c) \/ ClientReads(c) \/ Quit(c)

EchoSpec == EchoInit /\ [][EchoNext]_echoVars

(* Both programs run.  Nothing makes a user connect, type or quit.         *)
EchoFairness ==
  /\ WF_echoVars(ServerStep)
  /\ \A c \in Clients : WF_echoVars(ClientReads(c))

-----------------------------------------------------------------------------
(* A connection is answered once.  The client, which loops "for continuous *)
(* connection" (client.c:65), gets the rest of that answer for its later   *)
(* messages and then nothing, as often as it writes.                       *)
OneAnswerPerConnection ==
  \A c \in Clients :
    /\ reads[c] + toClient[c] <= BufferSize + 1
    /\ reads[c] > 0 => c \in taken /\ ~ (server = "read" /\ newSockFd = c)

(* A client waits for ever for its first answer only while the server      *)
(* waits for ever for another client that is connected and does not write. *)
HeldUpOnlyBySilence ==
  \A c \in Clients :
    <>[](client[c] = "read" /\ reads[c] = 0) =>
      <>[](server = "read" /\ newSockFd # c /\ client[newSockFd] = "type")
=============================================================================
