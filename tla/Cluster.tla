------------------------------ MODULE Cluster ------------------------------
(***************************************************************************)
(* One master and one real slave, with every socket between them; the      *)
(* other hosts are the environment that they are in Master.                *)
(*                                                                         *)
(* A step is a step of the master, of the slave, or of both when one of    *)
(* them waits for the other: no part does here what its own specification  *)
(* does not allow, but now it depends on the other part whether a          *)
(* connection, a request or an answer arrives.  The master never has more  *)
(* than one live connection to the slave, which link stands for.           *)
(***************************************************************************)
EXTENDS Master, FiniteSets

CONSTANTS
  SlaveHost,  \* the host of the slave
  JobString,  \* JobString[m]: the words of the program of module m
  Fds, NoFd, Words, FileNames, PyFile, Commands, NoName, Absent, Empty

VARIABLES
  s_pc, s_open, s_original_socket, s_socket_fd, s_result_socket, s_bound,
  s_lingering, s_command, s_response, s_store, s_right_port, s_rounds,
  s_announced,
  link    \* the connection of the master to the slave

slave == <<s_pc, s_open, s_original_socket, s_socket_fd, s_result_socket, s_bound,
           s_lingering, s_command, s_response, s_store, s_right_port, s_rounds,
           s_announced>>

allVars == <<vars, slave, link>>

S == INSTANCE SlaveDaemon WITH
  pc <- s_pc, open <- s_open, original_socket <- s_original_socket,
  socket_fd <- s_socket_fd, result_socket <- s_result_socket, bound <- s_bound,
  lingering <- s_lingering, command <- s_command, response <- s_response,
  store <- s_store, right_port <- s_right_port, rounds <- s_rounds,
  announced <- s_announced

ASSUME ClusterAssumption ==
  /\ SlaveHost \in HostSet
  /\ JobString \in [Modules -> Seq(Words)]
  /\ IsFiniteSet(Fds) /\ NoFd \notin Fds

(* The host that owes the master an answer is the slave's.                 *)
AwaitsSlave == pc = "await" /\ Peer = SlaveHost

ClusterInit == Init /\ S!Init /\ link = "none"

-----------------------------------------------------------------------------
(* The texts.                                                              *)

Req(header, lines) == [header |-> header, complete |-> TRUE, args |-> lines]

(* What each caller of requestSlave sends; the slave takes the first line  *)
(* of a job request.                                                       *)
RequestOf ==
  CASE caller = "discover" -> Req("REQ", << <<"getstaticparams">> >>)
    [] caller = "measure"  -> Req("REQ", << <<"getutilizations">> >>)
    [] OTHER -> Req("JOB", [k \in DOMAIN command |-> <<command[k]>> \o JobString[command[k]]])

(* Variant: a slave puts a tab between its two utilisations.               *)
TabbedAnswers == Answers

(* The results of a slave are one line in which nothing is a tab.          *)
SlaveAnswers == { a \in Answers : a.fields < 2 }

-----------------------------------------------------------------------------
(* The master alone, and with another host.                                *)

ProgramStep == Program /\ UNCHANGED <<slave, link>>

MasterAlone ==
  /\ UserTypes \/ StatementRefused \/ PollListens \/ PollAcceptFails
  /\ UNCHANGED <<slave, link>>

OtherHost ==
  /\ \/ Connects /\ Peer # SlaveHost
     \/ Answered /\ Peer # SlaveHost
     \/ NotAnswered /\ Peer # SlaveHost
     \/ PollAccepts
  /\ UNCHANGED <<slave, link>>

-----------------------------------------------------------------------------
(* A request to the slave.                                                 *)

(* The kernel of the slave takes a connection whenever a socket listens,   *)
(* also one that nobody will ever accept on.                               *)
ConnectsToSlave ==
  /\ Connects
  /\ Peer = SlaveHost
  /\ s_bound # NoFd
  /\ link' = "queued"
  /\ UNCHANGED slave

SlaveAccepts ==
  /\ S!Accept
  /\ link = "queued"
  /\ link' = "accepted"
  /\ UNCHANGED vars

SlaveAcceptFails ==
  /\ S!AcceptFails
  /\ UNCHANGED <<vars, link>>

SlaveReads ==
  /\ S!Read
  /\ link = "accepted"
  /\ s_command' = RequestOf
  /\ UNCHANGED <<vars, link>>

SlaveReadFails ==
  /\ S!ReadFails
  /\ UNCHANGED <<vars, link>>

(* Variant: the connection outlives the slave.                             *)
StaysOpen == link

(* The process ends, and with it every connection it had or would have had. *)
Reset == IF link \in {"queued", "accepted"} THEN "reset" ELSE link

SlaveProcesses ==
  /\ S!Process
  /\ link' = IF s_pc' = "down" THEN Reset ELSE link
  /\ UNCHANGED vars

(* Variant: the response is written to the listening socket.               *)
SlaveRepliesToListener ==
  /\ S!WriteAndClose
  /\ UNCHANGED <<vars, link>>

SlaveReplies ==
  /\ S!WriteAndClose
  /\ link' = "answered"
  /\ UNCHANGED vars

(* The write failed, or it did not and was taken to have failed.           *)
SlaveWriteFails ==
  /\ S!WriteFails
  /\ link' \in {link, "answered"}
  /\ UNCHANGED vars

SlaveEnds ==
  /\ S!Crash \/ S!NoResultSocket
  /\ link' = Reset
  /\ UNCHANGED vars

TakesAnswer ==
  /\ Answered
  /\ Peer = SlaveHost
  /\ link = "answered"
  /\ response' \in SlaveAnswers
  /\ link' = "none"
  /\ UNCHANGED slave

LosesAnswer ==
  /\ NotAnswered
  /\ Peer = SlaveHost
  /\ link = "reset"
  /\ link' = "none"
  /\ UNCHANGED slave

-----------------------------------------------------------------------------
(* The slave alone, and its reports.                                       *)

SlaveStep ==
  /\ \/ S!SocketFails \/ S!BindFails \/ S!Listen
     \/ S!ResultSocket \/ S!Resolve \/ S!ConnectFails \/ S!SendResult
  /\ UNCHANGED <<vars, link>>

SlaveEnvironment ==
  /\ S!Start \/ S!LingerExpires
  /\ UNCHANGED <<vars, link>>

(* Somebody else listens on the port the slave happens to try.             *)
ReportsToStranger ==
  /\ S!Connect
  /\ ~ s_right_port
  /\ UNCHANGED <<vars, link>>

Reports ==
  /\ S!Connect
  /\ s_right_port
  /\ PollAccepts
  /\ UNCHANGED link

(* The listener of a poll that is over still takes connections.            *)
ReportsToNobody ==
  /\ S!Connect
  /\ s_right_port
  /\ bound
  /\ pc \notin {"accept"} \cup Final
  /\ UNCHANGED <<vars, link>>

-----------------------------------------------------------------------------
(* An accept without a descriptor to spare fails at once.                  *)
AcceptReturns == SlaveAccepts \/ (SlaveAcceptFails /\ Fds \subseteq s_open)

SlaveDaemonSteps ==
  \/ SlaveStep \/ SlaveProcesses \/ SlaveReplies \/ SlaveWriteFails
  \/ (S!NoResultSocket /\ SlaveEnds)
  \/ ReportsToStranger \/ Reports \/ ReportsToNobody

ClusterNext ==
  \/ ProgramStep \/ MasterAlone \/ OtherHost
  \/ ConnectsToSlave \/ TakesAnswer \/ LosesAnswer
  \/ SlaveAccepts \/ SlaveAcceptFails \/ SlaveReads \/ SlaveReadFails
  \/ SlaveProcesses \/ SlaveReplies \/ SlaveWriteFails \/ SlaveEnds
  \/ SlaveStep \/ SlaveEnvironment
  \/ ReportsToStranger \/ Reports \/ ReportsToNobody

ClusterSpec == ClusterInit /\ [][ClusterNext]_allVars

(* Both processes run, and what is on its way arrives.  Nothing makes      *)
(* another host answer, a poll succeed, a slave start or the user type.    *)
ClusterFairSpec ==
  /\ ClusterSpec
  /\ WF_allVars(ProgramStep)
  /\ WF_allVars(SlaveDaemonSteps)
  /\ WF_allVars(AcceptReturns)
  /\ WF_allVars(SlaveReads)
  /\ WF_allVars(TakesAnswer \/ LosesAnswer)

-----------------------------------------------------------------------------
(* What is on its way fits where the two processes are: the slave reads    *)
(* and answers the request the master waits with, and a connection that    *)
(* the slave has not accepted waits at a listener.                         *)
ClusterTypeOK ==
  /\ link \in {"none", "queued", "accepted", "answered", "reset"}
  /\ link = "none" <=> ~ AwaitsSlave
  /\ link = "queued" => s_bound # NoFd
  /\ s_pc \in {"read", "process", "write"} => link = "accepted"
  /\ s_pc \in {"process", "write"} => s_command = RequestOf

(* The text of a job is copied to, and run from, the file that a FILE       *)
(* request has named, and the master sends no FILE request: whatever jobs  *)
(* it places on the slave, over all lives of the slave, none is carried    *)
(* out.  No file of the slave ever holds a text, and what a run leaves is  *)
(* an empty output (slave_selection.cpp:94 against parse_command.cpp:214). *)
NoJobIsCarriedOut ==
  /\ \A f \in FileNames : s_store.disk[f] \in {Absent, Empty}
  /\ s_store.result \in {Absent, Empty}

(* A real slave separates its utilisations by a space and the master cuts  *)
(* at tabs, so a slave that answers a measurement ends the run of the      *)
(* master: a host is chosen, and a job placed, only while no slave has     *)
(* answered (execute_function.cpp:64 against slave_selection.cpp:199).     *)
OnlySilentSlaves ==
  pc \in {"select", "send", "sent"} \/ Waiting("send")
    => \A k \in DOMAIN Hosts : Hosts[k] = SlaveHost => reported[k] = Zeroed

(* Where a measurement or what follows from it goes on.                    *)
Placing == Measuring \/ pc \in {"select", "send", "sent"} \/ Waiting("send")

(* An answer of the slave goes no further than parseResponse.              *)
SilentInv ==
  Placing =>
    \A k \in DOMAIN Hosts :
      Hosts[k] = SlaveHost =>
        reported[k] = Zeroed \/ (pc = "parse" /\ h = k /\ response.fields < 2)

(* If the master hangs on the slave, each waits for the other: the slave   *)
(* has abandoned the listener at which the request waits, and tries for    *)
(* ever to bring its results to the master.                                *)
HangsOnlyInDeadlock ==
  <>[]AwaitsSlave => <>[](S!Abandoned /\ s_pc \in {"resolve", "connect"})
=============================================================================
