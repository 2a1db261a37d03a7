--------------------------- MODULE Cluster_proofs ---------------------------
(***************************************************************************)
(* Proofs about a master and a slave together, for every list of hosts,    *)
(* every application and every number of descriptors on both sides: no job *)
(* is placed once a slave has answered, none is carried out, and a slave   *)
(* that serves holds the request the master waits with.                    *)
(***************************************************************************)
EXTENDS Cluster, Master_proofs

-----------------------------------------------------------------------------
(* Every step is one of the master's, or leaves it alone.                  *)
LEMMA MasterKeeps == [ClusterNext]_allVars => [Next]_vars
<1> SUFFICES ASSUME [ClusterNext]_allVars
             PROVE  [Next]_vars
  OBVIOUS
<1>1. CASE ProgramStep \/ MasterAlone \/ OtherHost
  BY <1>1 DEF ProgramStep, MasterAlone, OtherHost, Next, Environment
<1>2. CASE ConnectsToSlave \/ TakesAnswer \/ LosesAnswer \/ Reports
  BY <1>2 DEF ConnectsToSlave, TakesAnswer, LosesAnswer, Reports, Next, Environment
<1>3. CASE \/ SlaveAccepts \/ SlaveAcceptFails \/ SlaveReads \/ SlaveReadFails
           \/ SlaveProcesses \/ SlaveReplies \/ SlaveWriteFails \/ SlaveEnds
  BY <1>3 DEF SlaveAccepts, SlaveAcceptFails, SlaveReads, SlaveReadFails,
              SlaveProcesses, SlaveReplies, SlaveWriteFails, SlaveEnds
<1>4. CASE \/ SlaveStep \/ SlaveEnvironment \/ ReportsToStranger \/ ReportsToNobody
           \/ UNCHANGED allVars
  BY <1>4 DEF SlaveStep, SlaveEnvironment, ReportsToStranger, ReportsToNobody, allVars
<1> QED
  BY <1>1, <1>2, <1>3, <1>4 DEF ClusterNext

(* What holds of every run of the master holds of it in the cluster.       *)
LEMMA MasterInCluster == ClusterSpec => Spec
<1>1. ClusterInit => Init
  BY DEF ClusterInit
<1> QED
  BY <1>1, MasterKeeps, PTL DEF ClusterSpec, Spec

-----------------------------------------------------------------------------
(* The measurement of a silent slave.                                      *)

LEMMA SilentInit == ClusterInit => SilentInv
  BY DEF ClusterInit, Init, SilentInv, Placing, Measuring, Waiting, Connecting

(* The steps of the master that do not take an answer.                     *)
LEMMA SilentOther ==
  ASSUME TypeOK, SilentInv,
         \/ Program \/ UserTypes \/ Connects \/ NotAnswered
         \/ StatementRefused \/ PollListens \/ PollAcceptFails \/ PollAccepts
  PROVE  SilentInv'
<1> USE DEF SilentInv, Placing, Measuring, Waiting, Connecting, TypeOK
<1>1. CASE NoSocket \/ OpenSocket
  BY <1>1 DEF NoSocket, OpenSocket, Requesting, history
<1>9. CASE UserTypes \/ ReadsNothing
  BY <1>9 DEF UserTypes, ReadsNothing, AfterReading, history
<1>10. CASE ConnectFails \/ Connects
  BY <1>10 DEF ConnectFails, Connects, After, Requesting, history
<1>2. CASE NotAnswered
  BY <1>2 DEF NotAnswered, After, Requesting, history
<1>3. CASE CreateTable \/ Insert \/ Discovered \/ StatementRefused
  BY <1>3 DEF CreateTable, Insert, Discovered, StatementRefused, history
<1>4. CASE NextJob
  BY <1>4 DEF NextJob, NoReports
<1>5. CASE ParseThrows \/ Update \/ Measured
  BY <1>5 DEF ParseThrows, Update, Measured, history
<1>6. CASE Select
  BY <1>6 DEF Select, history
<1>7. CASE JobSent \/ LevelSent \/ Complete
  BY <1>7 DEF JobSent, LevelSent, Complete, history
<1>8. CASE \/ PollNoSocket \/ PollBindFails \/ PollListens \/ PollAcceptFails
           \/ PollAccepts \/ PollReadFails \/ LevelPolled
  BY <1>8 DEF PollNoSocket, PollBindFails, PollListens, PollAcceptFails,
              PollAccepts, PollReadFails, LevelPolled
<1> QED
  BY <1>1, <1>2, <1>3, <1>4, <1>5, <1>6, <1>7, <1>8, <1>9, <1>10 DEF Program

(* An answer of the slave has fewer than two fields; one of another host   *)
(* is not the slave's.                                                     *)
LEMMA SilentAnswer ==
  ASSUME TypeOK, SilentInv, Answered,
         Peer = SlaveHost => response' \in SlaveAnswers
  PROVE  SilentInv'
<1> USE DEF SilentInv, Placing, Measuring, Waiting, Connecting, TypeOK
<1>1. CASE caller = "discover"
  BY <1>1 DEF Answered, After
<1>2. CASE caller = "send"
  BY <1>2 DEF Answered, After
<1>3. CASE caller = "measure"
  <2>1. /\ pc' = "parse"
        /\ reported' = [reported EXCEPT ![h] = response']
        /\ h' = h
        /\ pc = "await"
    BY <1>3 DEF Answered, After
  <2>2. ASSUME NEW k \in DOMAIN Hosts, Hosts[k] = SlaveHost
        PROVE  reported'[k] = Zeroed \/ (h' = k /\ response'.fields < 2)
    <3>1. reported[k] = Zeroed
      BY <1>3, <2>1, <2>2
    <3>2. CASE k = h
      BY <1>3, <2>1, <2>2, <3>2 DEF Peer, SlaveAnswers
    <3>3. CASE k # h
      BY <2>1, <3>1, <3>3
    <3> QED
      BY <3>2, <3>3
  <2> QED
    BY <2>1, <2>2
<1> QED
  BY <1>1, <1>2, <1>3 DEF Requesting

LEMMA SilentStep ==
  ASSUME TypeOK, SilentInv, [ClusterNext]_allVars
  PROVE  SilentInv'
<1>1. CASE UNCHANGED vars
  BY <1>1 DEF vars, loops, table, history, SilentInv, Placing, Measuring, Waiting,
              Connecting
<1>2. CASE ProgramStep \/ MasterAlone \/ ConnectsToSlave \/ LosesAnswer \/ Reports
  BY <1>2, SilentOther DEF ProgramStep, MasterAlone, ConnectsToSlave, LosesAnswer, Reports
<1>3. CASE OtherHost
  BY <1>3, SilentOther, SilentAnswer DEF OtherHost
<1>4. CASE TakesAnswer
  BY <1>4, SilentAnswer DEF TakesAnswer
<1>5. CASE \/ SlaveAccepts \/ SlaveAcceptFails \/ SlaveReads \/ SlaveReadFails
           \/ SlaveProcesses \/ SlaveReplies \/ SlaveWriteFails \/ SlaveEnds
  BY <1>1, <1>5 DEF SlaveAccepts, SlaveAcceptFails, SlaveReads, SlaveReadFails,
                    SlaveProcesses, SlaveReplies, SlaveWriteFails, SlaveEnds
<1>6. CASE \/ SlaveStep \/ SlaveEnvironment \/ ReportsToStranger \/ ReportsToNobody
           \/ UNCHANGED allVars
  BY <1>1, <1>6 DEF SlaveStep, SlaveEnvironment, ReportsToStranger, ReportsToNobody, allVars
<1> QED
  BY <1>1, <1>2, <1>3, <1>4, <1>5, <1>6 DEF ClusterNext

(* No job is placed once the slave has answered a measurement              *)
(* (slave_selection.cpp:208 against execute_function.cpp:64).              *)
THEOREM SilentSlaves == ClusterSpec => []OnlySilentSlaves
<1>1. SilentInv => OnlySilentSlaves
  BY DEF SilentInv, OnlySilentSlaves, Placing, Waiting, Connecting
<1>2. ClusterSpec => []TypeOK
  BY MasterInCluster, TypeCorrect, PTL
<1> QED
  BY <1>1, <1>2, SilentInit, SilentStep, PTL DEF ClusterSpec

-----------------------------------------------------------------------------
(* What is on its way between the master and the slave.                    *)

LEMMA LinkInit == ClusterInit => ClusterTypeOK
  BY DEF ClusterInit, Init, S!Init, ClusterTypeOK, AwaitsSlave

(* Where the master is no party to a connection, and comes to none.        *)
LEMMA LinkMasterAlone ==
  ASSUME ClusterTypeOK, link = "none", ~ AwaitsSlave', UNCHANGED <<slave, link>>
  PROVE  ClusterTypeOK'
  BY DEF ClusterTypeOK, slave

(* The master does not wait for the slave while it does anything else.     *)
LEMMA ProgramElsewhere ==
  ASSUME \/ Program \/ UserTypes \/ StatementRefused
         \/ PollListens \/ PollAcceptFails \/ PollAccepts
  PROVE  ~ AwaitsSlave /\ ~ AwaitsSlave'
<1> USE DEF AwaitsSlave, After
<1>1. CASE NoSocket \/ OpenSocket \/ ConnectFails
  BY <1>1 DEF NoSocket, OpenSocket, ConnectFails, Requesting
<1>8. CASE UserTypes \/ ReadsNothing
  BY <1>8 DEF UserTypes, ReadsNothing, AfterReading
<1>2. CASE CreateTable \/ Insert \/ Discovered \/ StatementRefused
  BY <1>2 DEF CreateTable, Insert, Discovered, StatementRefused
<1>3. CASE NextJob \/ ParseThrows \/ Update \/ Measured \/ Select
  BY <1>3 DEF NextJob, ParseThrows, Update, Measured, Select
<1>4. CASE JobSent \/ LevelSent \/ Complete \/ LevelPolled
  BY <1>4 DEF JobSent, LevelSent, Complete, LevelPolled
<1>5. CASE PollNoSocket
  BY <1>5 DEF PollNoSocket
<1>6. CASE PollBindFails
  BY <1>6 DEF PollBindFails
<1>7. CASE PollListens \/ PollAcceptFails \/ PollAccepts \/ PollReadFails
  BY <1>7 DEF PollListens, PollAcceptFails, PollAccepts, PollReadFails
<1> QED
  BY <1>1, <1>2, <1>3, <1>4, <1>5, <1>6, <1>7, <1>8 DEF Program

(* The steps in which the master takes part.                               *)
LEMMA LinkMaster ==
  ASSUME ClusterTypeOK,
         \/ ProgramStep \/ MasterAlone \/ OtherHost
         \/ ConnectsToSlave \/ TakesAnswer \/ LosesAnswer \/ Reports
  PROVE  ClusterTypeOK'
<1>1. CASE ProgramStep \/ MasterAlone
  <2>1. link = "none" /\ ~ AwaitsSlave' /\ UNCHANGED <<slave, link>>
    BY <1>1, ProgramElsewhere DEF ProgramStep, MasterAlone, ClusterTypeOK
  <2> QED
    BY <2>1, LinkMasterAlone
<1>2. CASE OtherHost
  <2>1. CASE Connects /\ Peer # SlaveHost
    BY <1>2, <2>1, LinkMasterAlone
       DEF OtherHost, Connects, Peer, ClusterTypeOK, AwaitsSlave
  <2>2. CASE (Answered \/ NotAnswered) /\ Peer # SlaveHost
    BY <1>2, <2>2, LinkMasterAlone
       DEF OtherHost, Answered, NotAnswered, After, ClusterTypeOK, AwaitsSlave
  <2>3. CASE PollAccepts
    BY <1>2, <2>3, LinkMasterAlone, ProgramElsewhere DEF OtherHost, ClusterTypeOK
  <2> QED
    BY <1>2, <2>1, <2>2, <2>3 DEF OtherHost
<1>3. CASE ConnectsToSlave
  <2>1. ~ AwaitsSlave /\ AwaitsSlave'
    BY <1>3 DEF ConnectsToSlave, Connects, Peer, AwaitsSlave
  <2> QED
    BY <1>3, <2>1 DEF ConnectsToSlave, ClusterTypeOK, slave
<1>4. CASE TakesAnswer \/ LosesAnswer
  <2>1. ~ AwaitsSlave'
    BY <1>4 DEF TakesAnswer, LosesAnswer, Answered, NotAnswered, After, AwaitsSlave
  <2>2. link \in {"answered", "reset"} /\ link' = "none" /\ UNCHANGED slave
    BY <1>4 DEF TakesAnswer, LosesAnswer
  <2> QED
    BY <2>1, <2>2 DEF ClusterTypeOK, slave
<1>5. CASE Reports
  <2>1. link = "none" /\ link' = "none" /\ ~ AwaitsSlave'
    BY <1>5, ProgramElsewhere DEF Reports, ClusterTypeOK
  <2>2. s_pc' = "send"
    BY <1>5 DEF Reports, S!Connect
  <2> QED
    BY <2>1, <2>2 DEF ClusterTypeOK
<1> QED
  BY <1>1, <1>2, <1>3, <1>4, <1>5

(* What the master waits for depends on the master.                        *)
LEMMA MasterRests ==
  ASSUME UNCHANGED vars
  PROVE  AwaitsSlave' = AwaitsSlave /\ RequestOf' = RequestOf
  BY DEF vars, loops, table, AwaitsSlave, Peer, RequestOf

(* The steps of the slave alone.                                           *)
LEMMA LinkSlave ==
  ASSUME ClusterTypeOK,
         \/ SlaveAccepts \/ SlaveAcceptFails \/ SlaveReads \/ SlaveReadFails
         \/ SlaveProcesses \/ SlaveReplies \/ SlaveWriteFails \/ SlaveEnds
         \/ SlaveStep \/ SlaveEnvironment \/ ReportsToStranger \/ ReportsToNobody
  PROVE  ClusterTypeOK'
<1>0. UNCHANGED vars
  BY DEF SlaveAccepts, SlaveAcceptFails, SlaveReads, SlaveReadFails, SlaveProcesses,
         SlaveReplies, SlaveWriteFails, SlaveEnds, SlaveStep, SlaveEnvironment,
         ReportsToStranger, ReportsToNobody
<1>a. AwaitsSlave' = AwaitsSlave /\ RequestOf' = RequestOf
  BY <1>0, MasterRests
<1> USE DEF ClusterTypeOK, S!sockets, S!request, S!history
<1>1. CASE SlaveAccepts
  BY <1>1, <1>a DEF SlaveAccepts, S!Accept
<1>2. CASE SlaveAcceptFails
  BY <1>2, <1>a DEF SlaveAcceptFails, S!AcceptFails
<1>3. CASE SlaveReads
  BY <1>3, <1>a DEF SlaveReads, S!Read
<1>4. CASE SlaveReadFails
  BY <1>4, <1>a DEF SlaveReadFails, S!ReadFails
<1>5. CASE SlaveProcesses
  <2>1. link = "accepted" /\ s_command = RequestOf
    BY <1>5 DEF SlaveProcesses, S!Process
  <2>2. \/ s_pc' = "down" /\ link' = "reset"
        \/ s_pc' = "write" /\ link' = "accepted" /\ s_command' = s_command
    BY <1>5, <2>1 DEF SlaveProcesses, S!Process, S!Die, Reset
  <2> QED
    BY <1>a, <2>1, <2>2
<1>6. CASE SlaveReplies \/ SlaveWriteFails
  BY <1>6, <1>a DEF SlaveReplies, SlaveWriteFails, S!WriteAndClose, S!WriteFails
<1>7. CASE SlaveEnds
  <2>1. s_pc' = "down"
    BY <1>7 DEF SlaveEnds, S!Crash, S!NoResultSocket, S!Die
  <2>2. link' = Reset
    BY <1>7 DEF SlaveEnds
  <2> QED
    BY <1>a, <2>1, <2>2 DEF Reset
<1>8. CASE SlaveStep /\ S!Listen
  BY <1>8, <1>a, ClusterAssumption DEF SlaveStep, S!Listen
<1>9. CASE SlaveStep /\ ~ S!Listen
  <2>1. link' = link /\ s_bound' = s_bound /\ s_pc' \notin {"read", "process", "write"}
    BY <1>9 DEF SlaveStep, S!SocketFails, S!BindFails, S!ResultSocket, S!Resolve,
                S!ConnectFails, S!SendResult
  <2> QED
    BY <1>a, <2>1
<1>10. CASE SlaveEnvironment
  BY <1>10, <1>a DEF SlaveEnvironment, S!Start, S!LingerExpires
<1>11. CASE ReportsToStranger \/ ReportsToNobody
  BY <1>11, <1>a DEF ReportsToStranger, ReportsToNobody, S!Connect
<1> QED
  BY <1>1, <1>2, <1>3, <1>4, <1>5, <1>6, <1>7, <1>8, <1>9, <1>10,
     <1>11

LEMMA LinkStep ==
  ASSUME ClusterTypeOK, [ClusterNext]_allVars
  PROVE  ClusterTypeOK'
<1>1. CASE UNCHANGED allVars
  BY <1>1, MasterRests DEF allVars, slave, ClusterTypeOK
<1> QED
  BY <1>1, LinkMaster, LinkSlave DEF ClusterNext

(* The slave reads and answers what the master waits with: a request that  *)
(* the slave serves is the one of the requestSlave that waits, and no      *)
(* connection outlives its request (socket_connection.cpp, slave_main.cpp). *)
THEOREM OneRequestOnTheWay == ClusterSpec => []ClusterTypeOK
  BY LinkInit, LinkStep, PTL DEF ClusterSpec

-----------------------------------------------------------------------------
(* What the jobs of the master leave at a slave that no FILE request       *)
(* reaches: a store without a file name and without a text.                *)

Textless == [file_name : {NoName},
             disk      : [FileNames -> {Absent, Empty}],
             result    : {Absent, Empty}]

(* The file of the job is emptied at most, its text is copied nowhere, and *)
(* what is run is nothing.                                                 *)
LEMMA JobLeavesNothing ==
  ASSUME NEW args, NEW st \in Textless, NEW o \in S!ExecuteJOB(args, st)
  PROVE  o.store \in Textless
<1>1. CASE Len(args) = 0 \/ Len(args[1]) < 2
  <2>1. o = S!Throw(st)
    BY <1>1 DEF S!ExecuteJOB
  <2> QED
    BY <2>1 DEF S!Throw
<1>2. CASE ~ (Len(args) = 0 \/ Len(args[1]) < 2)
  <2> DEFINE file == PyFile[args[1][1]]
             text == args[1][2]
  <2>1. PICK made \in S!CreateFile(st.disk, file) :
          \E copied \in S!CopyJobToFile(made.disk, st.file_name, text) :
            \E output \in S!ExecuteJob(copied, st.result, st.file_name) :
              o = S!Answer([st EXCEPT !.disk = copied, !.result = output], 3, <<"">>)
    <3> DEFINE Run(made, copied) ==
                 { S!Answer([st EXCEPT !.disk = copied, !.result = output], 3, <<"">>) :
                     output \in S!ExecuteJob(copied, st.result, st.file_name) }
               Copy(made) == UNION { Run(made, copied) :
                     copied \in S!CopyJobToFile(made.disk, st.file_name, text) }
    <3>1. S!ExecuteJOB(args, st)
            = UNION { Copy(made) : made \in S!CreateFile(st.disk, file) }
      BY <1>2 DEF S!ExecuteJOB
    <3>2. PICK made \in S!CreateFile(st.disk, file) : o \in Copy(made)
      BY <3>1
    <3>3. PICK copied \in S!CopyJobToFile(made.disk, st.file_name, text) :
            o \in Run(made, copied)
      BY <3>2
    <3> QED
      BY <3>3
  <2>2. PICK copied \in S!CopyJobToFile(made.disk, st.file_name, text) :
          \E output \in S!ExecuteJob(copied, st.result, st.file_name) :
            o = S!Answer([st EXCEPT !.disk = copied, !.result = output], 3, <<"">>)
    BY <2>1
  <2>3. PICK output \in S!ExecuteJob(copied, st.result, st.file_name) :
          o = S!Answer([st EXCEPT !.disk = copied, !.result = output], 3, <<"">>)
    BY <2>2
  <2>4. made.disk \in [FileNames -> {Absent, Empty}]
    <3> DEFINE emptied == [st.disk EXCEPT ![file] = Empty]
    <3>1. \/ made = [ok |-> TRUE, disk |-> emptied]
          \/ made = [ok |-> FALSE, disk |-> st.disk]
      BY DEF S!CreateFile
    <3>2. emptied \in [FileNames -> {Absent, Empty}]
      BY DEF Textless
    <3> HIDE DEF emptied
    <3>3. made.disk = emptied \/ made.disk = st.disk
      BY <3>1
    <3> QED
      BY <3>2, <3>3 DEF Textless
  <2>5. copied = made.disk
    BY DEF S!CopyJobToFile, Textless
  <2>6. output \in {st.result, Empty}
    BY DEF S!ExecuteJob, Textless
  <2>7. o.store = [st EXCEPT !.disk = copied, !.result = output]
    BY <2>3 DEF S!Answer
  <2> QED
    BY <2>4, <2>5, <2>6, <2>7 DEF Textless
<1> QED
  BY <1>1, <1>2

(* So does every request that the master sends.                            *)
LEMMA RequestLeavesNothing ==
  ASSUME NEW st \in Textless, NEW o \in S!Outcomes(RequestOf, st)
  PROVE  o.store \in Textless
<1>1. RequestOf.complete /\ RequestOf.header \in {"REQ", "JOB"}
  BY DEF RequestOf, Req
<1>2. PICK type \in S!CommandTypes(RequestOf.header) :
        o \in S!Execute(type, RequestOf.args, st)
  BY <1>1 DEF S!Outcomes
<1>3. type \in {0, 3}
  BY <1>1, <1>2 DEF S!CommandTypes
<1>4. CASE type = 0
  <2>1. o.store = st
    BY <1>2, <1>4 DEF S!Execute, S!ExecuteREQ, S!Answer
  <2> QED
    BY <2>1
<1>5. CASE type = 3
  BY <1>2, <1>5, JobLeavesNothing DEF S!Execute
<1> QED
  BY <1>3, <1>4, <1>5

LEMMA TextlessStep ==
  ASSUME ClusterTypeOK, s_store \in Textless, [ClusterNext]_allVars
  PROVE  s_store' \in Textless
<1>1. CASE UNCHANGED s_store
  BY <1>1
<1>2. CASE SlaveProcesses
  <2>1. s_command = RequestOf
    BY <1>2 DEF SlaveProcesses, S!Process, ClusterTypeOK
  <2>2. PICK o \in S!Outcomes(RequestOf, s_store) : s_store' = o.store
    BY <1>2, <2>1 DEF SlaveProcesses, S!Process
  <2> QED
    BY <2>2, RequestLeavesNothing
<1>3. CASE SlaveEnvironment
  <2>1. \/ s_store' = [s_store EXCEPT !.file_name = NoName]
        \/ s_store' = s_store
    BY <1>3 DEF SlaveEnvironment, S!Start, S!LingerExpires
  <2> QED
    BY <2>1 DEF Textless
<1>4. CASE \/ ProgramStep \/ MasterAlone \/ OtherHost \/ ConnectsToSlave
           \/ TakesAnswer \/ LosesAnswer \/ UNCHANGED allVars
  BY <1>1, <1>4 DEF ProgramStep, MasterAlone, OtherHost, ConnectsToSlave, TakesAnswer,
                    LosesAnswer, allVars, slave
<1>5. CASE \/ SlaveAccepts \/ SlaveAcceptFails \/ SlaveReads \/ SlaveReadFails
           \/ SlaveReplies \/ SlaveWriteFails \/ SlaveEnds
  BY <1>1, <1>5 DEF SlaveAccepts, SlaveAcceptFails, SlaveReads, SlaveReadFails,
                    SlaveReplies, SlaveWriteFails, SlaveEnds, S!Accept, S!AcceptFails,
                    S!Read, S!ReadFails, S!WriteAndClose, S!WriteFails, S!Crash,
                    S!NoResultSocket
<1>6. CASE SlaveStep \/ ReportsToStranger \/ Reports \/ ReportsToNobody
  BY <1>1, <1>6 DEF SlaveStep, ReportsToStranger, Reports, ReportsToNobody,
                    S!SocketFails, S!BindFails, S!Listen, S!ResultSocket, S!Resolve,
                    S!ConnectFails, S!SendResult, S!Connect
<1> QED
  BY <1>2, <1>3, <1>4, <1>5, <1>6 DEF ClusterNext

(* No job that the master places on the slave is carried out               *)
(* (slave_selection.cpp:94 against parse_command.cpp:214).                 *)
THEOREM JobsAreNotCarriedOut == ClusterSpec => []NoJobIsCarriedOut
<1>1. ClusterInit => s_store \in Textless
  BY DEF ClusterInit, S!Init, Textless
<1>2. s_store \in Textless => NoJobIsCarriedOut
  BY DEF Textless, NoJobIsCarriedOut
<1>3. ClusterTypeOK /\ s_store \in Textless /\ [ClusterNext]_allVars
        => (s_store \in Textless)'
  BY TextlessStep DEF Textless
<1> QED
  BY <1>1, <1>2, <1>3, OneRequestOnTheWay, PTL DEF ClusterSpec
=============================================================================
