---------------------------- MODULE SlaveDaemon ----------------------------
(***************************************************************************)
(* The slave daemon: main of slave/slave_main.cpp with the connections of  *)
(* slave/echo_responce.cpp and the descriptors of its process.             *)
(*                                                                         *)
(* In each round the daemon listens on PORT, accepts one connection of the *)
(* master, answers one request, and then connects back to the master to    *)
(* send the results, whatever the request was.  One value of pc stands for *)
(* each place where the process waits for the network or where a result of *)
(* a call decides what comes next.  The master is the environment: it may  *)
(* connect, stay silent, send any request or reset the connection.         *)
(***************************************************************************)
EXTENDS SlaveCommand, FiniteSets

CONSTANTS
  Fds,   \* the descriptors the process can hold besides 0, 1 and 2
  NoFd   \* a descriptor variable that holds no open descriptor

ASSUME FdAssumption == IsFiniteSet(Fds) /\ NoFd \notin Fds

VARIABLES
  pc,               \* where the daemon is
  open,             \* the descriptors open in the process
  original_socket,  \* the listening socket of the round
  socket_fd,        \* the connection of the master in the round
  result_socket,    \* the socket the results go out on
  bound,            \* the descriptor that holds PORT
  lingering,        \* PORT is held by a connection that is already closed
  command,          \* the request read in the round
  response,         \* the response to it
  store,            \* new_job and the files of the slave
  right_port,       \* the result port in use is the port of the master
  rounds,           \* history: sockets created for results in this life
  announced         \* history: the files named by FILE requests

sockets == <<open, original_socket, socket_fd, result_socket, bound, lingering>>
request == <<command, response>>
history == <<rounds, announced>>
vars == <<pc, sockets, request, store, right_port, history>>

Serving == {"accept", "read", "process", "write"}
Reporting == {"result", "resolve", "connect", "send"}

NoCommand == [header |-> "unknown", complete |-> FALSE, args |-> <<>>]

TypeOK ==
  /\ pc \in {"down", "listen"} \cup Serving \cup Reporting
  /\ open \in SUBSET Fds
  /\ {original_socket, socket_fd, result_socket, bound} \subseteq Fds \cup {NoFd}
  /\ lingering \in BOOLEAN
  /\ command \in Commands \cup {NoCommand}
  /\ response \in Responses
  /\ store \in Store
  /\ right_port \in BOOLEAN
  /\ rounds \in Nat
  /\ announced \in SUBSET FileNames

Init ==
  /\ pc = "down"
  /\ open = {}
  /\ original_socket = NoFd
  /\ socket_fd = NoFd
  /\ result_socket = NoFd
  /\ bound = NoFd
  /\ lingering = FALSE
  /\ command = NoCommand
  /\ response = NoResponse
  /\ store = [file_name |-> NoName,
              disk      |-> [f \in FileNames |-> Absent],
              result    |-> Absent]
  /\ right_port = FALSE
  /\ rounds = 0
  /\ announced = {}

-----------------------------------------------------------------------------
(* Life and death of the process.                                          *)

(* The forked child closes what it inherited.  The globals are fresh; the  *)
(* files of an earlier life are still there.                               *)
Start ==
  /\ pc = "down"
  /\ pc' = "listen"
  /\ store' = [store EXCEPT !.file_name = NoName]
  /\ rounds' = 0
  /\ UNCHANGED <<sockets, request, right_port, announced>>

(* The kernel closes every descriptor of a process that ends; PORT may     *)
(* stay with a connection that has not been shut down on both sides.       *)
Die ==
  /\ pc' = "down"
  /\ open' = {}
  /\ original_socket' = NoFd
  /\ socket_fd' = NoFd
  /\ result_socket' = NoFd
  /\ bound' = NoFd
  /\ lingering' \in BOOLEAN
  /\ command' = NoCommand
  /\ response' = NoResponse
  /\ right_port' = FALSE
  /\ rounds' = 0

(* A signal, SIGPIPE of a write to a reset connection included.            *)
Crash ==
  /\ pc # "down"
  /\ Die
  /\ UNCHANGED <<store, announced>>

LingerExpires ==
  /\ lingering
  /\ lingering' = FALSE
  /\ UNCHANGED <<pc, open, original_socket, socket_fd, result_socket, bound,
                 request, store, right_port, history>>

-----------------------------------------------------------------------------
(* createConnectionWithMaster                                              *)

PortFree == bound = NoFd /\ ~ lingering

SocketFails ==
  /\ pc = "listen"
  /\ Fds \subseteq open
  /\ original_socket' = NoFd
  /\ socket_fd' = NoFd
  /\ pc' = "result"
  /\ UNCHANGED <<open, result_socket, bound, lingering, request, store,
                 right_port, history>>

(* The socket that could not be bound is left open.                        *)
BindFails ==
  /\ pc = "listen"
  /\ ~ PortFree
  /\ \E fd \in Fds \ open :
       /\ open' = open \cup {fd}
       /\ original_socket' = fd
  /\ socket_fd' = NoFd
  /\ pc' = "result"
  /\ UNCHANGED <<result_socket, bound, lingering, request, store, right_port,
                 history>>

(* Variant: PORT is bound although another descriptor holds it.            *)
ListenReusingPort ==
  /\ pc = "listen"
  /\ \E fd \in Fds \ open :
       /\ open' = open \cup {fd}
       /\ original_socket' = fd
       /\ bound' = fd
  /\ pc' = "accept"
  /\ UNCHANGED <<socket_fd, result_socket, lingering, request, store,
                 right_port, history>>

Listen ==
  /\ pc = "listen"
  /\ PortFree
  /\ \E fd \in Fds \ open :
       /\ open' = open \cup {fd}
       /\ original_socket' = fd
       /\ bound' = fd
  /\ pc' = "accept"
  /\ UNCHANGED <<socket_fd, result_socket, lingering, request, store,
                 right_port, history>>

(* The listening socket is left open, bound and listening.                 *)
AcceptFails ==
  /\ pc = "accept"
  /\ socket_fd' = NoFd
  /\ pc' = "result"
  /\ UNCHANGED <<open, original_socket, result_socket, bound, lingering,
                 request, store, right_port, history>>

(* Variant: the listening socket is returned for the connection.           *)
AcceptListener ==
  /\ pc = "accept"
  /\ socket_fd' = original_socket
  /\ pc' = "read"
  /\ UNCHANGED <<open, original_socket, result_socket, bound, lingering,
                 request, store, right_port, history>>

Accept ==
  /\ pc = "accept"
  /\ \E fd \in Fds \ open :
       /\ open' = open \cup {fd}
       /\ socket_fd' = fd
  /\ pc' = "read"
  /\ UNCHANGED <<original_socket, result_socket, bound, lingering, request,
                 store, right_port, history>>

-----------------------------------------------------------------------------
(* One request of the master.                                              *)

Read ==
  /\ pc = "read"
  /\ command' \in Commands
  /\ pc' = "process"
  /\ UNCHANGED <<sockets, response, store, right_port, history>>

(* Variant: the round is given up without a result connection.             *)
ReadFailsAndListens ==
  /\ pc = "read"
  /\ command' = NoCommand
  /\ pc' = "listen"
  /\ UNCHANGED <<sockets, response, store, right_port, history>>

(* The write is skipped, and both sockets stay open.                       *)
ReadFails ==
  /\ pc = "read"
  /\ command' = NoCommand
  /\ pc' = "result"
  /\ UNCHANGED <<sockets, response, store, right_port, history>>

(* processRequestFromMaster; an exception of vector::at ends the process.  *)
Process ==
  /\ pc = "process"
  /\ \E o \in Outcomes(command, store) :
       /\ store' = o.store
       /\ announced' = announced \cup ({o.store.file_name} \ {NoName})
       /\ \/ /\ o.throws
             /\ Die
          \/ /\ ~ o.throws
             /\ response' = o.response
             /\ pc' = "write"
             /\ UNCHANGED <<sockets, command, right_port, rounds>>

(* The status is -1: the write failed, or it succeeded and writeToMaster,  *)
(* which then falls off its end, happened to leave -1 behind.  Logged as    *)
(* "write failed. so quitting.", and the daemon goes on.                    *)
WriteFails ==
  /\ pc = "write"
  /\ pc' = "result"
  /\ UNCHANGED <<sockets, request, store, right_port, history>>

(* The slave closes first, so PORT lingers unless the master has closed.   *)
WriteAndClose ==
  /\ pc = "write"
  /\ open' = open \ {socket_fd, original_socket}
  /\ bound' = IF bound \in open' THEN bound ELSE NoFd
  /\ lingering' \in BOOLEAN
  /\ pc' = "result"
  /\ UNCHANGED <<original_socket, socket_fd, result_socket, request, store,
                 right_port, history>>

-----------------------------------------------------------------------------
(* The result connection of a round, after a request of any kind and after *)
(* a connection that failed.                                               *)

ResultSocket ==
  /\ pc = "result"
  /\ \E fd \in Fds \ open :
       /\ open' = open \cup {fd}
       /\ result_socket' = fd
  /\ rounds' = rounds + 1
  /\ pc' = "resolve"
  /\ UNCHANGED <<original_socket, socket_fd, bound, lingering, request, store,
                 right_port, announced>>

(* Variant: the daemon goes on when it has no socket for its results.      *)
NoResultSocketGoesOn ==
  /\ pc = "result"
  /\ Fds \subseteq open
  /\ pc' = "listen"
  /\ UNCHANGED <<sockets, request, store, right_port, history>>

NoResultSocket ==
  /\ pc = "result"
  /\ Fds \subseteq open
  /\ Die
  /\ UNCHANGED <<store, announced>>

(* The port is read from standard input, which is /dev/null: the variable  *)
(* keeps what the stack held.                                              *)
Resolve ==
  /\ pc = "resolve"
  /\ right_port' \in BOOLEAN
  /\ pc' = "connect"
  /\ UNCHANGED <<sockets, request, store, history>>

(* No such host, or nobody listens there: "will try again".                *)
ConnectFails ==
  /\ pc = "connect"
  /\ pc' = "resolve"
  /\ UNCHANGED <<sockets, request, store, right_port, history>>

Connect ==
  /\ pc = "connect"
  /\ pc' = "send"
  /\ UNCHANGED <<sockets, request, store, right_port, history>>

(* Variant: the result socket is given back.                               *)
SendResultAndClose ==
  /\ pc = "send"
  /\ open' = open \ {result_socket}
  /\ pc' = "listen"
  /\ UNCHANGED <<original_socket, socket_fd, result_socket, bound, lingering,
                 request, store, right_port, history>>

(* getResultFromFile and writeToMaster: what is sent is store.result, the  *)
(* status of the write only decides what is logged, and result_socket is   *)
(* left open.                                                              *)
SendResult ==
  /\ pc = "send"
  /\ pc' = "listen"
  /\ UNCHANGED <<sockets, request, store, right_port, history>>

-----------------------------------------------------------------------------
Daemon ==
  \/ SocketFails \/ BindFails \/ Listen
  \/ Process
  \/ WriteFails \/ WriteAndClose
  \/ ResultSocket \/ NoResultSocket
  \/ Resolve \/ ConnectFails \/ Connect \/ SendResult

Network ==
  \/ Accept \/ AcceptFails
  \/ Read \/ ReadFails
  \/ LingerExpires

Next == Start \/ Crash \/ Daemon \/ Network

Spec == Init /\ [][Next]_vars

(* The process runs, and a lingering connection is dropped in time.  What  *)
(* the master does is not fair: it may never connect.                      *)
FairSpec == Spec /\ WF_vars(Daemon) /\ WF_vars(LingerExpires)

(* The most favourable master: it always comes to listen on its port while *)
(* the slave tries to reach it.                                            *)
HelpfulSpec == FairSpec /\ SF_vars(right_port /\ Connect)

-----------------------------------------------------------------------------
(* The round closes what it opened: while a request is served, the two     *)
(* variables main closes hold the listening socket, which owns PORT, and   *)
(* another open descriptor, and outside a round neither is closed.         *)
RoundSockets ==
  /\ bound # NoFd => bound \in open
  /\ pc \in Serving => original_socket # NoFd /\ bound = original_socket
  /\ pc \in Serving \ {"accept"} =>
       /\ socket_fd \in open
       /\ socket_fd # original_socket

(* No round gives its result socket back: every round of a life holds a    *)
(* descriptor until the process ends, so the number of rounds is bounded   *)
(* by the descriptors (result_socket of slave_main.cpp is never closed).   *)
ServiceBound == rounds <= Cardinality(open)

(* The descriptors a round in progress will close.                         *)
Transient ==
  CASE pc = "accept"                     -> 1
    [] pc \in {"read", "process", "write"} -> 2
    [] OTHER                             -> 0

(* Every round of this life holds a descriptor, on top of the ones the     *)
(* round in progress will close.                                           *)
Ledger == rounds + Transient <= Cardinality(open)

(* A dead process holds nothing.                                           *)
AtRest == pc = "down" => open = {} /\ bound = NoFd /\ rounds = 0

(* The inductive invariant behind RoundSockets, ServiceBound and the       *)
(* contract.                                                               *)
IInv == TypeOK /\ RoundSockets /\ Ledger /\ AtRest

(* A listener was left behind by a round that failed.                      *)
Abandoned == bound # NoFd /\ pc \notin Serving

(* A round that failed after its listener was bound is the last one of its *)
(* process that served anybody: PORT stays taken by the process itself, so *)
(* every later bind fails and no connection is ever accepted again.        *)
AbandonedForGood == [][Abandoned /\ pc' # "down" => Abandoned']_vars

(* The text of a job reaches only files that a FILE request has named, and *)
(* never the <module>.py file created for the job.                         *)
TextOnlyInAnnouncedFile ==
  \A f \in FileNames \ announced : store.disk[f] \in {Absent, Empty}

(* A daemon whose listener is abandoned does not linger on: it runs out of *)
(* descriptors and exits, or stays for ever trying to reach the master.    *)
AbandonedEnds ==
  []<>(~ Abandoned) \/ <>[](pc \in {"resolve", "connect"})

(* The phases and the budget of the contract a slave keeps.                *)
Phase ==
  CASE pc = "down"                          -> "down"
    [] pc \in {"listen", "accept"}          -> "idle"
    [] pc \in {"read", "process", "write"}  -> "serving"
    [] pc = "result"                        -> "owing"
    [] OTHER                                -> "reporting"

Contract == INSTANCE SlaveContract WITH
  Budget <- Cardinality(Fds),
  phase  <- Phase,
  budget <- Cardinality(Fds) - rounds,
  lost   <- Abandoned

(* The daemon keeps the contract of a slave (SlaveContract).               *)
KeepsContract == Contract!Spec

-----------------------------------------------------------------------------
(* What comments of the code say of the daemon, and the daemon does not do. *)

(* parse_command.cpp:327, "we execute the job here by placing the job      *)
(* string in the file": a job that is carried out leaves its own output,   *)
(* unless the shell could not run it.                                      *)
JobRunsItsOwnCode ==
  [][ (pc = "process" /\ command.header = "JOB" /\ pc' = "write")
        => store'.result \in {store.result, command.args[1][2]} ]_vars

(* slave_main.cpp:139, "send the results back to the master": a round that *)
(* served a request reaches the master with its results, or the daemon     *)
(* dies.                                                                   *)
ResultsReachMaster ==
  (pc = "write") ~> (pc = "down" \/ (pc = "send" /\ right_port))
=============================================================================
