--------------------------- MODULE Master_proofs ---------------------------
(***************************************************************************)
(* Proofs about the master, for every list of hosts, every application and *)
(* every number of descriptors: types, the one result connection, the one  *)
(* job that is run, the host that decides, the level schedule, and the     *)
(* descriptors that a complete run takes.                                  *)
(***************************************************************************)
EXTENDS Master, FiniteSetTheorems, TLAPS

-----------------------------------------------------------------------------
(* Elements of the constants.                                              *)

LEMMA HostAt ==
  ASSUME NEW k \in Nat \ {0}, k <= Len(Hosts)
  PROVE  k \in DOMAIN Hosts /\ Hosts[k] \in HostSet
<1>1. Len(Hosts) \in Nat /\ DOMAIN Hosts = 1..Len(Hosts)
  BY MasterAssumption
<1> QED
  BY <1>1 DEF HostSet

LEMMA LevelAt ==
  ASSUME NEW k \in Nat \ {0}, k <= Len(Levels)
  PROVE  Levels[k] \in Seq(Modules) /\ Len(Levels[k]) \in Nat
<1>1. k \in 1..Len(Levels)
  BY MasterAssumption
<1> QED
  BY <1>1, MasterAssumption

LEMMA ZeroedType == Zeroed \in Answers /\ NoReports \in [DOMAIN Hosts -> Answers]
<1>1. Zeroed \in Answers
  BY MasterAssumption DEF Zeroed, Answers
<1> QED
  BY <1>1 DEF NoReports

(* The list is open, or there was no descriptor, or it was not to be had.  *)
LEMMA ListOpened ==
  ASSUME TypeOK, OpenList
  PROVE  /\ file_open' \in BOOLEAN
         /\ unread' \in Nat
         /\ \/ file_open' /\ unread' = unread
            \/ ~ file_open' /\ ~ (used < MaxFds) /\ unread' = unread
            \/ ~ file_open' /\ unread' = unread + 1
<1>1. file_open' \in BOOLEAN
  BY Zenon DEF OpenList
<1>2. \/ file_open' /\ unread' = unread
      \/ ~ file_open' /\ ~ (used < MaxFds) /\ unread' = unread
      \/ ~ file_open' /\ unread' = unread + 1
  BY Zenon DEF OpenList
<1>3. unread \in Nat
  BY DEF TypeOK
<1>4. unread' \in Nat
  BY <1>2, <1>3
<1> QED
  BY <1>1, <1>2, <1>4

(* Every variable keeps its type.                                          *)
LEMMA TypeInit == Init => TypeOK
<1> SUFFICES ASSUME Init
             PROVE  TypeOK
  OBVIOUS
<1>1. response \in Answers /\ reported \in [DOMAIN Hosts -> Answers]
  BY ZeroedType DEF Init
<1>2. load \in [HostSet -> Loads]
  BY MasterAssumption DEF Init
<1>3. command \in Seq(Modules) /\ dispatched \in Seq([to : HostSet, jobs : Seq(Modules)])
  BY DEF Init
<1>4. /\ i \in Nat \ {0} /\ j \in Nat \ {0} /\ h \in Nat \ {0}
      /\ counter \in Nat /\ used \in Nat /\ contacts \in Nat /\ unread \in Nat
  BY DEF Init
<1>5. /\ pc \in {"create"} /\ caller \in Requesting
      /\ rows \in SUBSET HostSet /\ chosen \in HostSet \cup {NoHost}
  BY DEF Init, Requesting
<1>6. file_open \in BOOLEAN /\ bound \in BOOLEAN /\ cin_good \in BOOLEAN
  BY Zenon DEF Init
<1> QED
  BY <1>1, <1>2, <1>3, <1>4, <1>5, <1>6 DEF TypeOK

LEMMA TypeStep == TypeOK /\ LoopsInRange /\ [Next]_vars => TypeOK'
<1> SUFFICES ASSUME TypeOK, LoopsInRange, [Next]_vars
             PROVE  TypeOK'
  OBVIOUS
<1> USE DEF TypeOK, loops, table, history, Requesting, Connecting, Final
<1>1. CASE NoSocket \/ OpenSocket
  BY <1>1 DEF NoSocket, OpenSocket
<1>20. CASE UserTypes \/ ReadsNothing
  BY <1>20 DEF UserTypes, ReadsNothing, AfterReading
<1>2. CASE ConnectFails
  BY <1>2 DEF ConnectFails, After
<1>3. CASE Connects
  <2>1. Peer \in HostSet
    BY <1>3, HostAt DEF Connects, Peer, LoopsInRange, AtLine, Waiting
  <2>2. dispatched' \in Seq([to : HostSet, jobs : Seq(Modules)])
    <3> DEFINE sent == [to |-> Peer, jobs |-> command]
    <3>1. sent \in [to : HostSet, jobs : Seq(Modules)]
      BY <2>1
    <3> HIDE DEF sent
    <3>2. Append(dispatched, sent) \in Seq([to : HostSet, jobs : Seq(Modules)])
      BY <3>1
    <3> QED
      BY <1>3, <3>2 DEF Connects, sent
  <2> QED
    BY <1>3, <2>2 DEF Connects
<1>4. CASE Answered
  <2>1. reported' \in [DOMAIN Hosts -> Answers]
    BY <1>4 DEF Answered
  <2> QED
    BY <1>4, <2>1 DEF Answered, After
<1>5. CASE NotAnswered
  BY <1>5 DEF NotAnswered, After
<1>6. CASE CreateTable
  BY <1>6, ListOpened DEF CreateTable
<1>7. CASE Insert
  BY <1>7, HostAt DEF Insert, LoopsInRange, AtLine
<1>8. CASE Discovered \/ StatementRefused \/ Measured
  BY <1>8 DEF Discovered, StatementRefused, Measured
<1>9. CASE NextJob
  BY <1>9, ZeroedType, ListOpened DEF NextJob
<1>10. CASE ParseThrows
  BY <1>10 DEF ParseThrows
<1>11. CASE Update
  <2>1. response.LM \in Loads
    BY <1>11, MasterAssumption DEF Update, Answers
  <2> QED
    BY <1>11, <2>1 DEF Update
<1>12. CASE Select
  <2>1. Levels[i] \in Seq(Modules) /\ Levels[i][j] \in Modules
    BY <1>12, LevelAt DEF Select, LoopsInRange, AtJob
  <2>2. chosen' \in HostSet \cup {NoHost}
    BY <1>12 DEF Select
  <2> QED
    BY <1>12, <2>1, <2>2, ZeroedType DEF Select
<1>13. CASE JobSent \/ Complete
  BY <1>13 DEF JobSent, Complete
<1>14. CASE LevelSent
  BY <1>14, LevelAt DEF LevelSent
<1>15. CASE PollNoSocket \/ PollBindFails \/ PollListens
  <2>1. CASE PollNoSocket
    BY <2>1 DEF PollNoSocket
  <2>2. CASE PollBindFails
    BY <2>2 DEF PollBindFails
  <2>3. CASE PollListens
    BY <2>3 DEF PollListens
  <2> QED
    BY <1>15, <2>1, <2>2, <2>3
<1>16. CASE PollAcceptFails \/ PollAccepts
  BY <1>16 DEF PollAcceptFails, PollAccepts, LoopsInRange
<1>17. CASE PollReadFails
  BY <1>17, ZeroedType DEF PollReadFails, LoopsInRange
<1>18. CASE LevelPolled
  BY <1>18 DEF LevelPolled
<1>19. CASE UNCHANGED vars
  BY <1>19 DEF vars
<1> QED
  BY <1>1, <1>2, <1>3, <1>4, <1>5, <1>6, <1>7, <1>8, <1>9, <1>10, <1>11, <1>12,
     <1>13, <1>14, <1>15, <1>16, <1>17, <1>18, <1>19, <1>20
     DEF Next, Program, Environment

-----------------------------------------------------------------------------
(* The loop variables stay where the vectors are indexed.                  *)
LEMMA LoopsStep == TypeOK /\ LoopsInRange /\ [Next]_vars => LoopsInRange'
<1> SUFFICES ASSUME TypeOK, LoopsInRange, [Next]_vars
             PROVE  LoopsInRange'
  OBVIOUS
<1> USE DEF LoopsInRange, AtLine, AtJob, Waiting, Connecting, Polling, loops,
            table, history
<1>a. /\ i \in Nat \ {0} /\ j \in Nat \ {0} /\ h \in Nat \ {0} /\ counter \in Nat
      /\ caller \in {"discover", "measure", "send"}
  BY DEF TypeOK, Requesting
<1>b. i <= Len(Levels) => Len(Levels[i]) \in Nat
  BY <1>a, LevelAt
<1>c. Len(Levels) \in Nat /\ Len(Hosts) \in Nat
  BY MasterAssumption
<1>1. CASE NoSocket \/ StatementRefused \/ ParseThrows \/ Complete
  BY <1>1, <1>a DEF NoSocket, StatementRefused, ParseThrows, Complete
<1>2. CASE OpenSocket
  BY <1>2, <1>a DEF OpenSocket, Wanted, AtHost, Requesting
<1>16. CASE UserTypes \/ ReadsNothing
  BY <1>16, <1>a, <1>b, <1>c DEF UserTypes, ReadsNothing, AfterReading
<1>3. CASE ConnectFails
  BY <1>3, <1>a DEF ConnectFails, After
<1>17. CASE Connects
  BY <1>17, <1>a DEF Connects
<1>4. CASE Answered
  BY <1>4, <1>a DEF Answered, After
<1>5. CASE NotAnswered
  BY <1>5, <1>a DEF NotAnswered, After
<1>6. CASE CreateTable \/ Insert
  BY <1>6, <1>a DEF CreateTable, Insert
<1>7. CASE Discovered
  BY <1>7, <1>a, <1>b DEF Discovered
<1>8. CASE NextJob \/ Update
  BY <1>8, <1>a, <1>b DEF NextJob, Update
<1>9. CASE Measured \/ Select
  BY <1>9, <1>a DEF Measured, Select
<1>10. CASE JobSent
  BY <1>10, <1>a, <1>b DEF JobSent
<1>11. CASE LevelSent
  BY <1>11, <1>a, <1>b DEF LevelSent
<1>12. CASE PollNoSocket \/ PollBindFails \/ PollListens
  BY <1>12, <1>a, <1>b DEF PollNoSocket, PollBindFails, PollListens
<1>13. CASE PollAcceptFails \/ PollAccepts \/ PollReadFails
  BY <1>13, <1>a, <1>b DEF PollAcceptFails, PollAccepts, PollReadFails
<1>14. CASE LevelPolled
  <2>1. i' \in Nat \ {0} /\ (i' <= Len(Levels) => Len(Levels[i']) \in Nat)
    BY <1>14, <1>a, LevelAt DEF LevelPolled
  <2> QED
    BY <1>14, <1>a, <1>c, <2>1 DEF LevelPolled
<1>15. CASE UNCHANGED vars
  BY <1>15, <1>a DEF vars
<1> QED
  BY <1>1, <1>2, <1>3, <1>4, <1>5, <1>6, <1>7, <1>8, <1>9, <1>10, <1>11, <1>12,
     <1>13, <1>14, <1>15, <1>16, <1>17
     DEF Next, Program, Environment

-----------------------------------------------------------------------------
(* The listener of the first poll that listened is the only one there is.  *)
LEMMA ListenerStep == TypeOK /\ OneListener /\ [Next]_vars => OneListener'
<1> SUFFICES ASSUME TypeOK, OneListener, [Next]_vars
             PROVE  OneListener'
  OBVIOUS
<1> USE DEF OneListener, AtMostOneContact, history
<1>a. contacts \in Nat
  BY DEF TypeOK
<1>1. CASE PollListens
  BY <1>1, <1>a DEF PollListens
<1>2. CASE PollAccepts
  BY <1>2, <1>a DEF PollAccepts
<1>3. CASE pc' # "accept" /\ bound' = bound /\ contacts' = contacts
  BY <1>3, <1>a
<1>4. CASE UNCHANGED vars
  BY <1>4, <1>a DEF vars
<1>5. CASE \/ NoSocket \/ OpenSocket \/ UserTypes \/ ReadsNothing
           \/ ConnectFails \/ Connects \/ Answered \/ NotAnswered
  BY <1>3, <1>5
     DEF NoSocket, OpenSocket, UserTypes, ReadsNothing, AfterReading, ConnectFails,
         Connects, Answered, NotAnswered, After
<1>6. CASE CreateTable \/ Insert \/ Discovered \/ StatementRefused \/ NextJob
  BY <1>3, <1>6 DEF CreateTable, Insert, Discovered, StatementRefused, NextJob
<1>7. CASE ParseThrows \/ Update \/ Measured \/ Select
  BY <1>3, <1>7 DEF ParseThrows, Update, Measured, Select
<1>8. CASE JobSent \/ LevelSent \/ Complete
  BY <1>3, <1>8 DEF JobSent, LevelSent, Complete
<1>9. CASE PollNoSocket \/ PollBindFails \/ PollAcceptFails
  BY <1>3, <1>9 DEF PollNoSocket, PollBindFails, PollAcceptFails
<1>10. CASE PollReadFails \/ LevelPolled
  BY <1>3, <1>10 DEF PollReadFails, LevelPolled
<1> QED
  BY <1>1, <1>2, <1>4, <1>5, <1>6, <1>7, <1>8, <1>9, <1>10
     DEF Next, Program, Environment

(* Appending to the command and to the history keeps their first elements. *)
LEMMA FirstJobStep ==
  TypeOK /\ LoopsInRange /\ FirstJobStays /\ [Next]_vars => FirstJobStays'
<1> SUFFICES ASSUME TypeOK, LoopsInRange, FirstJobStays, [Next]_vars
             PROVE  FirstJobStays'
  OBVIOUS
<1> USE DEF FirstJobStays, Waiting, Connecting, history
<1>a. /\ command \in Seq(Modules)
      /\ dispatched \in Seq([to : HostSet, jobs : Seq(Modules)])
  BY DEF TypeOK
<1>1. CASE Connects
  <2>1. CASE caller = "send"
    <3> DEFINE sent == [to |-> Peer, jobs |-> command]
    <3>1. dispatched' = Append(dispatched, sent) /\ command' = command /\ pc' = "await"
      BY <1>1, <2>1 DEF Connects
    <3>2. /\ DOMAIN dispatched' = 1..Len(dispatched) + 1
          /\ \A n \in 1..Len(dispatched) : dispatched'[n] = dispatched[n]
          /\ dispatched'[Len(dispatched) + 1] = sent
      <4> HIDE DEF sent
      <4> QED
        BY <1>a, <3>1
    <3>3. ASSUME NEW n \in DOMAIN dispatched'
          PROVE  /\ dispatched'[n].jobs # <<>>
                 /\ dispatched'[n].jobs[1] = command[1]
      <4>1. CASE n = Len(dispatched) + 1
        <5>1. dispatched'[n].jobs = command
          BY <3>2, <4>1
        <5> QED
          BY <1>1, <2>1, <5>1 DEF Connects, Waiting, Connecting
      <4>2. CASE n \in 1..Len(dispatched)
        <5>1. n \in DOMAIN dispatched
          BY <1>a, <4>2
        <5>2. dispatched[n].jobs # <<>> /\ dispatched[n].jobs[1] = command[1]
          BY <5>1
        <5>3. dispatched'[n] = dispatched[n]
          BY <3>2, <4>2
        <5> QED
          BY <5>2, <5>3
      <4> QED
        BY <1>a, <3>2, <4>1, <4>2
    <3> QED
      BY <2>1, <3>1, <3>3
  <2>2. CASE caller # "send"
    BY <1>1, <2>2 DEF Connects
  <2> QED
    BY <2>1, <2>2
<1>2. CASE Select
  <2>1. Levels[i][j] \in Modules
    <3>1. Levels[i] \in Seq(Modules) /\ j \in 1..Len(Levels[i])
      BY <1>2, LevelAt DEF Select, LoopsInRange, AtJob, TypeOK
    <3> QED
      BY <3>1
  <2>2. command' # <<>> /\ (command # <<>> => command'[1] = command[1])
    BY <1>2, <1>a, <2>1 DEF Select
  <2> QED
    BY <1>2, <2>2 DEF Select
<1>3. CASE pc' \notin {"send"} \cup Connecting /\ command' = command
             /\ dispatched' = dispatched
  BY <1>3
<1>11. CASE OpenSocket
  BY <1>11 DEF OpenSocket, Requesting
<1>12. CASE UserTypes \/ ReadsNothing
  BY <1>12 DEF UserTypes, ReadsNothing, AfterReading
<1>4. CASE UNCHANGED vars
  BY <1>4 DEF vars
<1>5. CASE NoSocket \/ ConnectFails \/ Answered \/ NotAnswered
  BY <1>3, <1>5 DEF NoSocket, ConnectFails, Answered, NotAnswered, After
<1>6. CASE CreateTable \/ Insert \/ Discovered \/ StatementRefused \/ NextJob
  BY <1>3, <1>6 DEF CreateTable, Insert, Discovered, StatementRefused, NextJob
<1>7. CASE ParseThrows \/ Update \/ Measured
  BY <1>3, <1>7 DEF ParseThrows, Update, Measured
<1>8. CASE JobSent \/ LevelSent \/ Complete
  BY <1>3, <1>8 DEF JobSent, LevelSent, Complete
<1>9. CASE PollNoSocket \/ PollBindFails \/ PollListens \/ PollAcceptFails
  BY <1>3, <1>9 DEF PollNoSocket, PollBindFails, PollListens, PollAcceptFails
<1>10. CASE PollAccepts \/ PollReadFails \/ LevelPolled
  BY <1>3, <1>10 DEF PollAccepts, PollReadFails, LevelPolled
<1> QED
  BY <1>1, <1>2, <1>4, <1>5, <1>6, <1>7, <1>8, <1>9, <1>10, <1>11, <1>12
     DEF Next, Program, Environment

(* Between two slaveSelects the buffer changes only by an answer.          *)
LEMMA BufferStep ==
  TypeOK /\ LoopsInRange /\ BufferIsFresh /\ [Next]_vars => BufferIsFresh'
<1> SUFFICES ASSUME TypeOK, LoopsInRange, BufferIsFresh, [Next]_vars
             PROVE  BufferIsFresh'
  OBVIOUS
<1> USE DEF BufferIsFresh, Measuring, Waiting, Connecting, history
<1>a. h \in Nat \ {0} /\ reported \in [DOMAIN Hosts -> Answers]
  BY DEF TypeOK
<1>1. CASE NextJob
  BY <1>1 DEF NextJob, Zeroed
<1>2. CASE Answered
  <2>1. CASE caller = "measure"
    <3>1. h \in DOMAIN Hosts
      BY <1>2, <2>1, <1>a, HostAt DEF Answered, LoopsInRange, AtLine
    <3>2. reported' = [reported EXCEPT ![h] = response'] /\ h' = h /\ pc' = "parse"
      BY <1>2, <2>1 DEF Answered, After
    <3>3. CASE h = 1
      BY <1>a, <3>1, <3>2, <3>3
    <3>4. CASE h # 1
      BY <1>2, <2>1, <1>a, <3>1, <3>2, <3>4 DEF Answered
    <3> QED
      BY <3>3, <3>4
  <2>2. CASE caller # "measure"
    BY <1>2, <2>2 DEF Answered, After, TypeOK, Requesting
  <2> QED
    BY <2>1, <2>2
<1>3. CASE NotAnswered
  BY <1>3 DEF NotAnswered, After, TypeOK, Requesting
<1>4. CASE NoSocket \/ OpenSocket
  BY <1>4 DEF NoSocket, OpenSocket, Requesting
<1>13. CASE UserTypes \/ ReadsNothing
  BY <1>13 DEF UserTypes, ReadsNothing, AfterReading
<1>14. CASE ConnectFails
  BY <1>14 DEF ConnectFails, After, TypeOK, Requesting
<1>5. CASE Connects
  BY <1>5 DEF Connects
<1>6. CASE Update
  BY <1>6, <1>a DEF Update
<1>7. CASE Measured
  BY <1>7, <1>a DEF Measured
<1>8. CASE CreateTable \/ Insert \/ Discovered \/ StatementRefused
  BY <1>8 DEF CreateTable, Insert, Discovered, StatementRefused
<1>9. CASE ParseThrows \/ Select \/ JobSent \/ LevelSent \/ Complete
  BY <1>9 DEF ParseThrows, Select, JobSent, LevelSent, Complete
<1>10. CASE PollNoSocket \/ PollBindFails \/ PollListens \/ PollAcceptFails
  BY <1>10 DEF PollNoSocket, PollBindFails, PollListens, PollAcceptFails
<1>11. CASE PollAccepts \/ PollReadFails \/ LevelPolled
  BY <1>11 DEF PollAccepts, PollReadFails, LevelPolled
<1>12. CASE UNCHANGED vars
  BY <1>12 DEF vars
<1> QED
  BY <1>1, <1>2, <1>3, <1>4, <1>5, <1>6, <1>7, <1>8, <1>9, <1>10, <1>11, <1>12,
     <1>13, <1>14
     DEF Next, Program, Environment

-----------------------------------------------------------------------------
LEMMA InvInit == Init => IInv
<1> SUFFICES ASSUME Init
             PROVE  IInv
  OBVIOUS
<1>1. TypeOK
  BY TypeInit
<1>2. LoopsInRange
  <2>1. 1 <= Len(Levels) => Len(Levels[1]) \in Nat
    BY LevelAt
  <2> QED
    BY <2>1 DEF Init, LoopsInRange, AtLine, AtJob, Waiting, Connecting, Polling
<1>3. OneListener /\ FirstJobStays
  BY DEF Init, OneListener, AtMostOneContact, FirstJobStays, Waiting, Connecting
<1>4. BufferIsFresh
  BY DEF Init, BufferIsFresh, Measuring, Waiting, Connecting
<1> QED
  BY <1>1, <1>2, <1>3, <1>4 DEF IInv

LEMMA Invariance == Spec => []IInv
<1>1. IInv /\ [Next]_vars => IInv'
  BY TypeStep, LoopsStep, ListenerStep, FirstJobStep, BufferStep DEF IInv
<1> QED
  BY <1>1, InvInit, PTL DEF Spec

(* The master's variables keep their types in every behaviour.             *)
THEOREM TypeCorrect == Spec => []TypeOK
<1>1. IInv => TypeOK
  BY DEF IInv
<1> QED
  BY <1>1, Invariance, PTL

(* All job requests that reach hosts start with the same job.              *)
THEOREM OneJobRuns == Spec => []OnlyFirstJobRuns
<1>1. IInv => OnlyFirstJobRuns
  BY DEF IInv, FirstJobStays, OnlyFirstJobRuns
<1> QED
  BY <1>1, Invariance, PTL

(* A run of the master accepts at most one result connection.              *)
THEOREM OneContact == Spec => []AtMostOneContact
<1>1. IInv => AtMostOneContact
  BY DEF IInv, OneListener
<1> QED
  BY <1>1, Invariance, PTL

(* No job is placed in a measurement the first host did not answer.        *)
THEOREM FirstHostAnswers == Spec => []FirstHostDecides
<1>1. IInv => FirstHostDecides
  BY DEF IInv, BufferIsFresh, FirstHostDecides
<1> QED
  BY <1>1, Invariance, PTL

-----------------------------------------------------------------------------
(* Every step of the master is a step of the schedule, or none.            *)

LEMMA ScheduleInit == Init => Schedule!Init
BY DEF Init, Schedule!Init, Polling, Final

LEMMA ScheduleStep == TypeOK /\ LoopsInRange /\ [Next]_vars => [Schedule!Next]_(Schedule!vars)
<1> SUFFICES ASSUME TypeOK, LoopsInRange, [Next]_vars
             PROVE  Schedule!Next \/ UNCHANGED Schedule!vars
  OBVIOUS
<1> USE DEF Polling, Final, Schedule!vars, loops, table, history, Requesting,
            Connecting
<1>a. /\ i \in Nat \ {0} /\ j \in Nat \ {0} /\ counter \in Nat
      /\ caller \in {"discover", "measure", "send"}
  BY DEF TypeOK
<1>b. i <= Len(Levels) => Len(Levels[i]) \in Nat
  BY <1>a, LevelAt
<1>1. CASE NoSocket \/ StatementRefused \/ ParseThrows \/ Complete
  BY <1>1 DEF NoSocket, StatementRefused, ParseThrows, Complete,
              Schedule!Next, Schedule!Stop
<1>2. CASE OpenSocket \/ Connects
  BY <1>2 DEF OpenSocket, Connects
<1>3. CASE UserTypes \/ ReadsNothing
  BY <1>3, <1>a DEF UserTypes, ReadsNothing, AfterReading, LoopsInRange
<1>4. CASE ConnectFails \/ Answered \/ NotAnswered
  <2>1. /\ pc \in {"connect", "await"} /\ pc' = After(caller)
        /\ UNCHANGED <<i, j, counter>>
    BY <1>4 DEF ConnectFails, Answered, NotAnswered
  <2>2. CASE caller = "send"
    <3>1. Schedule!Attempt
      BY <2>1, <2>2, <1>a, <1>b
         DEF After, LoopsInRange, AtJob, Waiting, Schedule!Attempt, Schedule!InLevel
    <3> QED
      BY <3>1 DEF Schedule!Next
  <2>3. CASE caller # "send"
    BY <2>1, <2>3, <1>a DEF After
  <2> QED
    BY <2>2, <2>3
<1>5. CASE CreateTable \/ Insert \/ Discovered \/ NextJob
  BY <1>5 DEF CreateTable, Insert, Discovered, NextJob
<1>6. CASE Update \/ Measured \/ Select
  BY <1>6 DEF Update, Measured, Select
<1>7. CASE JobSent
  BY <1>7, <1>a DEF JobSent
<1>8. CASE LevelSent
  BY <1>8, <1>b DEF LevelSent
<1>9. CASE PollNoSocket \/ PollBindFails
  <2>1. Schedule!Poll
    BY <1>9, <1>a, <1>b
       DEF PollNoSocket, PollBindFails, LoopsInRange, Schedule!Poll, Schedule!InLevel
  <2> QED
    BY <2>1 DEF Schedule!Next
<1>10. CASE PollAcceptFails \/ PollReadFails
  <2>1. Schedule!Poll
    BY <1>10, <1>a, <1>b
       DEF PollAcceptFails, PollReadFails, LoopsInRange, Schedule!Poll, Schedule!InLevel
  <2> QED
    BY <2>1 DEF Schedule!Next
<1>11. CASE PollListens \/ PollAccepts
  BY <1>11 DEF PollListens, PollAccepts
<1>12. CASE LevelPolled
  <2>1. Schedule!Advance
    BY <1>12, <1>a, <1>b
       DEF LevelPolled, LoopsInRange, Schedule!Advance, Schedule!InLevel
  <2> QED
    BY <2>1 DEF Schedule!Next
<1>13. CASE UNCHANGED vars
  BY <1>13 DEF vars
<1> QED
  BY <1>1, <1>2, <1>3, <1>4, <1>5, <1>6, <1>7, <1>8, <1>9, <1>10, <1>11, <1>12,
     <1>13
     DEF Next, Program, Environment

(* The master implements the level schedule.                               *)
THEOREM ImplementsSchedule == Spec => KeepsSchedule
<1>1. IInv => TypeOK /\ LoopsInRange
  BY DEF IInv
<1> QED
  BY <1>1, ScheduleInit, ScheduleStep, Invariance, PTL
     DEF Spec, KeepsSchedule, Schedule!Spec

-----------------------------------------------------------------------------
(* The jobs the loops have been through, and how many they are.            *)

LEMMA JobIs ==
  ASSUME NEW job
  PROVE  job \in Jobs <=> \E l, k \in Nat \ {0} : /\ l <= Len(Levels)
                                                  /\ k <= Len(Levels[l])
                                                  /\ job = <<l, k>>
<1>1. ASSUME job \in Jobs
      PROVE  \E l, k \in Nat \ {0} : l <= Len(Levels) /\ k <= Len(Levels[l]) /\ job = <<l, k>>
  <2>1. PICK l \in 1..Len(Levels) : job \in {l} \X (1..Len(Levels[l]))
    BY <1>1 DEF Jobs
  <2>2. l \in Nat \ {0} /\ l <= Len(Levels) /\ Len(Levels[l]) \in Nat
    BY <2>1, LevelAt, MasterAssumption
  <2>3. PICK k \in 1..Len(Levels[l]) : job = <<l, k>>
    BY <2>1
  <2> QED
    BY <2>2, <2>3
<1>2. ASSUME NEW l \in Nat \ {0}, NEW k \in Nat \ {0},
             l <= Len(Levels), k <= Len(Levels[l]), job = <<l, k>>
      PROVE  job \in Jobs
  <2>1. l \in 1..Len(Levels)
    BY <1>2, MasterAssumption
  <2>2. k \in 1..Len(Levels[l])
    BY <1>2, LevelAt
  <2>3. job \in {l} \X (1..Len(Levels[l]))
    BY <1>2, <2>2
  <2> QED
    BY <2>1, <2>3 DEF Jobs
<1> QED
  BY <1>1, <1>2

(* The job at hand is still to be gone through.                            *)
LEMMA JobAtHand ==
  ASSUME TypeOK, LoopsInRange, AtJob
  PROVE  <<i, j>> \in Jobs /\ <<i, j>> \notin JobsBefore
<1>1. i \in Nat \ {0} /\ j \in Nat \ {0} /\ i <= Len(Levels) /\ j <= Len(Levels[i])
  BY DEF TypeOK, LoopsInRange
<1>2. <<i, j>> \in Jobs
  BY <1>1, JobIs
<1> QED
  BY <1>1, <1>2 DEF JobsBefore

(* So is the one that NextJob turns to.                                    *)
LEMMA JobToSend ==
  ASSUME TypeOK, i <= Len(Levels), j <= Len(Levels[i])
  PROVE  JobsBefore # Jobs
<1>1. i \in Nat \ {0} /\ j \in Nat \ {0}
  BY DEF TypeOK
<1>2. <<i, j>> \in Jobs
  BY <1>1, JobIs
<1> QED
  BY <1>1, <1>2 DEF JobsBefore

(* Once it is sent, it is the one job more.                                *)
LEMMA JobGone ==
  ASSUME TypeOK, LoopsInRange, JobSent
  PROVE  JobsBefore' = JobsBefore \cup {<<i, j>>}
<1>1. i \in Nat \ {0} /\ j \in Nat \ {0} /\ i' = i /\ j' = j + 1 /\ AtJob
  BY DEF TypeOK, JobSent, loops, AtJob
<1>2. <<i, j>> \in Jobs
  BY <1>1, JobAtHand
<1>3. ASSUME NEW job \in Jobs
      PROVE  job \in JobsBefore' <=> job \in JobsBefore \/ job = <<i, j>>
  <2>1. PICK l, k \in Nat \ {0} :
          l <= Len(Levels) /\ k <= Len(Levels[l]) /\ job = <<l, k>>
    BY <1>3, JobIs
  <2>2. job[1] = l /\ job[2] = k
    BY <2>1
  <2>3. job \in JobsBefore' <=> l < i' \/ (l = i' /\ k < j')
    BY <1>3, <2>2 DEF JobsBefore, Jobs
  <2>4. job \in JobsBefore <=> l < i \/ (l = i /\ k < j)
    BY <1>3, <2>2 DEF JobsBefore
  <2>5. job = <<i, j>> <=> l = i /\ k = j
    BY <2>1
  <2> QED
    BY <1>1, <2>2, <2>3, <2>4, <2>5
<1>4. JobsBefore' \subseteq Jobs /\ JobsBefore \subseteq Jobs
  BY DEF JobsBefore, Jobs
<1> QED
  BY <1>2, <1>3, <1>4

(* At the end of a level, its jobs are all of those that are not later.    *)
LEMMA LevelGone ==
  ASSUME TypeOK, LoopsInRange, LevelPolled
  PROVE  JobsBefore' = JobsBefore
<1>1. /\ i \in Nat \ {0} /\ i <= Len(Levels) /\ j = Len(Levels[i]) + 1
      /\ i' = i + 1 /\ j' = 1
  BY DEF TypeOK, LoopsInRange, LevelPolled, Polling
<1>2. Len(Levels[i]) \in Nat
  BY <1>1, LevelAt
<1>3. ASSUME NEW job \in Jobs
      PROVE  job \in JobsBefore' <=> job \in JobsBefore
  <2>1. PICK l, k \in Nat \ {0} :
          l <= Len(Levels) /\ k <= Len(Levels[l]) /\ job = <<l, k>>
    BY <1>3, JobIs
  <2>2. job[1] = l /\ job[2] = k
    BY <2>1
  <2>3. job \in JobsBefore' <=> l < i' \/ (l = i' /\ k < j')
    BY <1>3, <2>2 DEF JobsBefore, Jobs
  <2>4. job \in JobsBefore <=> l < i \/ (l = i /\ k < j)
    BY <1>3, <2>2 DEF JobsBefore
  <2>5. l = i => k <= Len(Levels[i])
    BY <1>2, <2>1
  <2> QED
    BY <1>1, <1>2, <2>2, <2>3, <2>4, <2>5
<1>4. JobsBefore' \subseteq Jobs /\ JobsBefore \subseteq Jobs
  BY DEF JobsBefore, Jobs
<1> QED
  BY <1>3, <1>4

(* Past the last level there is no job left.                               *)
LEMMA AllGone ==
  ASSUME TypeOK, i > Len(Levels)
  PROVE  JobsBefore = Jobs
<1>1. ASSUME NEW job \in Jobs
      PROVE  job \in JobsBefore
  <2>1. PICK l, k \in Nat \ {0} :
          l <= Len(Levels) /\ k <= Len(Levels[l]) /\ job = <<l, k>>
    BY <1>1, JobIs
  <2>2. job[1] = l
    BY <2>1
  <2>3. l < i
    BY <2>1, MasterAssumption DEF TypeOK
  <2> QED
    BY <1>1, <2>2, <2>3 DEF JobsBefore
<1> QED
  BY <1>1 DEF JobsBefore

(* Before the first job there is none.                                     *)
LEMMA NoneGone ==
  ASSUME i = 1, j = 1
  PROVE  JobsBefore = {}
<1>1. ASSUME NEW job \in JobsBefore
      PROVE  FALSE
  <2>1. job \in Jobs /\ (job[1] < 1 \/ (job[1] = 1 /\ job[2] < 1))
    BY <1>1 DEF JobsBefore
  <2>2. PICK l, k \in Nat \ {0} :
          l <= Len(Levels) /\ k <= Len(Levels[l]) /\ job = <<l, k>>
    BY <2>1, JobIs
  <2> QED
    BY <2>1, <2>2
<1> QED
  BY <1>1

CountedJobs == IsFiniteSet(JobsBefore)

DemandInv == CountedJobs /\ SocketsCount

LEMMA DemandType == CountedJobs => JobsDemand \in Nat
<1> SUFFICES ASSUME CountedJobs
             PROVE  JobsDemand \in Nat
  OBVIOUS
<1>1. Cardinality(JobsBefore) \in Nat /\ Len(Hosts) \in Nat
  BY FS_CardinalityType, MasterAssumption DEF CountedJobs
<1> QED
  BY <1>1 DEF JobsDemand

(* A job more takes a socket for each host, and its own.                   *)
LEMMA DemandGrows ==
  ASSUME TypeOK, LoopsInRange, CountedJobs, JobSent
  PROVE  CountedJobs' /\ JobsDemand' = JobsDemand + Len(Hosts) + 1
<1>1. JobsBefore' = JobsBefore \cup {<<i, j>>} /\ <<i, j>> \notin JobsBefore
  <2>1. AtJob
    BY DEF JobSent, AtJob
  <2> QED
    BY <2>1, JobGone, JobAtHand
<1>2. /\ IsFiniteSet(JobsBefore')
      /\ Cardinality(JobsBefore') = Cardinality(JobsBefore) + 1
      /\ Cardinality(JobsBefore) \in Nat
  BY <1>1, FS_AddElement, FS_CardinalityType DEF CountedJobs
<1>3. Len(Hosts) \in Nat
  BY MasterAssumption
<1>4. \A c, m \in Nat : m + (c + 1) * (m + 1) = (m + c * (m + 1)) + m + 1
  OBVIOUS
<1>5. JobsDemand' = Len(Hosts) + Cardinality(JobsBefore') * (Len(Hosts) + 1)
  BY DEF JobsDemand
<1> QED
  BY <1>2, <1>3, <1>4, <1>5 DEF JobsDemand, CountedJobs

LEMMA SameJobs ==
  ASSUME JobsBefore' = JobsBefore, CountedJobs
  PROVE  CountedJobs' /\ JobsDemand' = JobsDemand
BY DEF CountedJobs, JobsDemand

LEMMA JobsStep ==
  ASSUME TypeOK, LoopsInRange, [Next]_vars
  PROVE  JobSent \/ JobsBefore' = JobsBefore
<1>1. CASE i' = i /\ j' = j
  BY <1>1 DEF JobsBefore, Jobs
<1>2. CASE LevelPolled
  BY <1>2, LevelGone
<1>3. CASE \/ NoSocket \/ OpenSocket \/ UserTypes \/ ReadsNothing
           \/ ConnectFails \/ Connects \/ Answered \/ NotAnswered
  BY <1>1, <1>3 DEF NoSocket, OpenSocket, UserTypes, ReadsNothing, ConnectFails,
                    Connects, Answered, NotAnswered, loops
<1>4. CASE CreateTable \/ Insert \/ Discovered \/ StatementRefused \/ NextJob
  BY <1>1, <1>4 DEF CreateTable, Insert, Discovered, StatementRefused, NextJob, loops
<1>5. CASE ParseThrows \/ Update \/ Measured \/ Select \/ LevelSent \/ Complete
  BY <1>1, <1>5 DEF ParseThrows, Update, Measured, Select, LevelSent, Complete, loops
<1>6. CASE PollNoSocket \/ PollBindFails \/ PollListens \/ PollAcceptFails
  BY <1>1, <1>6 DEF PollNoSocket, PollBindFails, PollListens, PollAcceptFails, loops
<1>7. CASE PollAccepts \/ PollReadFails \/ UNCHANGED vars
  BY <1>1, <1>7 DEF PollAccepts, PollReadFails, vars, loops
<1> QED
  BY <1>2, <1>3, <1>4, <1>5, <1>6, <1>7 DEF Next, Program, Environment

LEMMA SavedType ==
  ASSUME TypeOK
  PROVE  /\ Saved \in Nat
         /\ unread' = unread => Saved' = Saved
         /\ unread' = unread + 1 => Saved' = Saved + Len(Hosts)
<1>1. unread \in Nat /\ Len(Hosts) \in Nat
  BY MasterAssumption DEF TypeOK
<1>2. \A u, n \in Nat : u * n \in Nat /\ (u + 1) * n = u * n + n
  OBVIOUS
<1> QED
  BY <1>1, <1>2 DEF Saved

LEMMA DemandInit == Init => DemandInv
<1> SUFFICES ASSUME Init
             PROVE  DemandInv
  OBVIOUS
<1>1. JobsBefore = {}
  BY NoneGone DEF Init
<1>2. CountedJobs
  BY <1>1, FS_EmptySet DEF CountedJobs
<1>3. SocketsCount
  <2>1. Saved \in Nat
    BY TypeInit, SavedType
  <2> QED
    BY <2>1, MasterAssumption DEF Init, SocketsCount, Needed, Waiting, Connecting
<1> QED
  BY <1>2, <1>3 DEF DemandInv

LEMMA DemandStep ==
  TypeOK /\ LoopsInRange /\ DemandInv /\ [Next]_vars => DemandInv'
<1> SUFFICES ASSUME TypeOK, LoopsInRange, DemandInv, [Next]_vars
             PROVE  DemandInv'
  OBVIOUS
<1> USE DEF SocketsCount, Needed, Starved, Waiting, Connecting, loops, table, history
<1>a. /\ used \in Nat /\ h \in Nat \ {0} /\ MaxFds \in Nat /\ Len(Hosts) \in Nat
      /\ caller \in {"discover", "measure", "send"}
  BY MasterAssumption DEF TypeOK, Requesting
<1>b. CountedJobs /\ SocketsCount /\ JobsDemand \in Nat
  BY DemandType DEF DemandInv
<1>u. /\ Saved \in Nat
      /\ unread' = unread => Saved' = Saved
      /\ unread' = unread + 1 => Saved' = Saved + Len(Hosts)
  BY SavedType
<1>c. Jobs' = Jobs
  BY DEF Jobs
<1>s. SUFFICES CountedJobs' /\ SocketsCount'
  BY DEF DemandInv
<1>1. CASE JobSent
  <2>1. CountedJobs' /\ JobsDemand' = JobsDemand + Len(Hosts) + 1
    BY <1>1, <1>b, DemandGrows
  <2> QED
    BY <1>1, <1>a, <1>b, <1>u, <2>1 DEF JobSent
<1>2. CASE JobsBefore' = JobsBefore
  <2>a. CountedJobs' /\ JobsDemand' = JobsDemand
    BY <1>2, <1>b, SameJobs
  <2>1. CASE NoSocket
    BY <2>1, <1>2, <2>a, <1>a, <1>b, <1>c, <1>u
       DEF NoSocket
  <2>2. CASE OpenSocket
    BY <2>2, <1>2, <2>a, <1>a, <1>b, <1>c, <1>u
       DEF OpenSocket, Wanted, AtHost, FreeFd, Requesting
  <2>26. CASE UserTypes \/ ReadsNothing
    BY <2>26, <1>2, <2>a, <1>a, <1>b, <1>c, <1>u
       DEF UserTypes, ReadsNothing, AfterReading
  <2>27. CASE ConnectFails
    BY <2>27, <1>2, <2>a, <1>a, <1>b, <1>c, <1>u
       DEF ConnectFails, After
  <2>3. CASE Connects
    BY <2>3, <1>2, <2>a, <1>a, <1>b, <1>c, <1>u
       DEF Connects
  <2>4. CASE Answered
    BY <2>4, <1>2, <2>a, <1>a, <1>b, <1>c, <1>u
       DEF Answered, After
  <2>5. CASE NotAnswered
    BY <2>5, <1>2, <2>a, <1>a, <1>b, <1>c, <1>u
       DEF NotAnswered, After
  <2>6. CASE Insert
    BY <2>6, <1>2, <2>a, <1>a, <1>b, <1>c, <1>u
       DEF Insert, LoopsInRange, AtLine
  <2>7. CASE StatementRefused
    BY <2>7, <1>2, <2>a, <1>a, <1>b, <1>c, <1>u
       DEF StatementRefused
  <2>8. CASE ParseThrows
    BY <2>8, <1>2, <2>a, <1>a, <1>b, <1>c, <1>u
       DEF ParseThrows
  <2>9. CASE Update
    BY <2>9, <1>2, <2>a, <1>a, <1>b, <1>c, <1>u
       DEF Update, LoopsInRange, AtLine
  <2>10. CASE Select
    BY <2>10, <1>2, <2>a, <1>a, <1>b, <1>c, <1>u
       DEF Select
  <2>11. CASE LevelSent
    BY <2>11, <1>2, <2>a, <1>a, <1>b, <1>c, <1>u
       DEF LevelSent
  <2>12. CASE PollNoSocket
    BY <2>12, <1>2, <2>a, <1>a, <1>b, <1>c, <1>u
       DEF PollNoSocket
  <2>13. CASE PollBindFails
    BY <2>13, <1>2, <2>a, <1>a, <1>b, <1>c, <1>u
       DEF PollBindFails, FreeFd
  <2>14. CASE PollListens
    BY <2>14, <1>2, <2>a, <1>a, <1>b, <1>c, <1>u
       DEF PollListens, FreeFd
  <2>15. CASE PollAcceptFails
    BY <2>15, <1>2, <2>a, <1>a, <1>b, <1>c, <1>u
       DEF PollAcceptFails
  <2>16. CASE PollAccepts
    BY <2>16, <1>2, <2>a, <1>a, <1>b, <1>c, <1>u
       DEF PollAccepts, FreeFd
  <2>17. CASE PollReadFails
    BY <2>17, <1>2, <2>a, <1>a, <1>b, <1>c, <1>u
       DEF PollReadFails
  <2>18. CASE Discovered
    <3>1. pc = "discover" => JobsBefore = {}
      BY NoneGone DEF LoopsInRange
    <3>2. pc = "discover" => JobsDemand = Len(Hosts)
      <4>1. Cardinality({}) = 0
        BY FS_EmptySet
      <4>2. pc = "discover" => Cardinality(JobsBefore) = 0
        BY <3>1, <4>1, Zenon
      <4>3. Len(Hosts) + 0 * (Len(Hosts) + 1) = Len(Hosts)
        BY <1>a
      <4> QED
        BY <4>2, <4>3, <1>a DEF JobsDemand
    <3> QED
      BY <2>18, <3>1, <3>2, <1>2, <2>a, <1>a, <1>b, <1>c, <1>u DEF Discovered, AtHost
  <2>19. CASE Measured
    <3>1. pc = "measure" => JobsBefore # Jobs
      BY JobAtHand DEF AtJob
    <3> QED
      BY <2>19, <3>1, <1>2, <2>a, <1>a, <1>b, <1>c, <1>u DEF Measured, AtHost
  <2>20. CASE Complete
    <3>1. JobsBefore = Jobs
      BY <2>20, AllGone DEF Complete
    <3> QED
      BY <2>20, <3>1, <1>2, <2>a, <1>a, <1>b, <1>c, <1>u DEF Complete
  <2>21. CASE CreateTable
    <3>1. /\ h' = 1 /\ used' = used
          /\ pc' = "discover" /\ pc = "create"
      BY <2>21, Zenon DEF CreateTable
    <3>2. \/ file_open' /\ unread' = unread
          \/ ~ file_open' /\ ~ (used < MaxFds) /\ unread' = unread
          \/ ~ file_open' /\ unread' = unread + 1
      BY <2>21, ListOpened, Zenon DEF CreateTable
    <3>3. Jobs # {} => JobsBefore # Jobs
      BY <2>21, NoneGone DEF CreateTable, LoopsInRange
    <3> QED
      BY <3>1, <3>2, <3>3, <1>2, <2>a, <1>a, <1>b, <1>c, <1>u
  <2>22. CASE NextJob
    <3>1. /\ h' = 1 /\ used' = used
          /\ pc' = "measure" /\ pc = "next"
      BY <2>22, Zenon DEF NextJob
    <3>2. \/ file_open' /\ unread' = unread
          \/ ~ file_open' /\ ~ (used < MaxFds) /\ unread' = unread
          \/ ~ file_open' /\ unread' = unread + 1
      BY <2>22, ListOpened, Zenon DEF NextJob
    <3>3. Jobs # {} => JobsBefore # Jobs
      BY <2>22, JobToSend DEF NextJob
    <3> QED
      BY <3>1, <3>2, <3>3, <1>2, <2>a, <1>a, <1>b, <1>c, <1>u
  <2>23. CASE JobSent
    BY <2>23, <1>1
  <2>24. CASE LevelPolled
    BY <2>24, <1>2, <2>a, <1>a, <1>b, <1>c, <1>u
       DEF LevelPolled
  <2>25. CASE UNCHANGED vars
    BY <2>25, <1>2, <2>a, <1>a, <1>b, <1>c, <1>u
       DEF vars
  <2> QED
    BY <2>1, <2>2, <2>3, <2>4, <2>5, <2>6, <2>7, <2>8, <2>9, <2>10, <2>11,
       <2>12, <2>13, <2>14, <2>15, <2>16, <2>17, <2>18, <2>19, <2>20,
       <2>21, <2>22, <2>23, <2>24, <2>25, <2>26, <2>27
       DEF Next, Program, Environment
<1> QED
  BY <1>1, <1>2, JobsStep

(* A run over at least one job completes only if the process could hold    *)
(* the sockets of the discovery, of a measurement for each job, and of     *)
(* each job.                                                               *)
THEOREM SocketsOfARun == Spec => []DescriptorDemand
<1>1. TypeOK /\ LoopsInRange /\ DemandInv => DescriptorDemand
  <2> SUFFICES ASSUME TypeOK, DemandInv
               PROVE  DescriptorDemand
    OBVIOUS
  <2>1. used <= MaxFds
    BY DEF DemandInv, SocketsCount
  <2>2. ASSUME pc = "done", Jobs # {}
        PROVE  used + Saved >= Len(Hosts) + TotalJobs * (Len(Hosts) + 1)
    <3>1. JobsBefore = Jobs /\ used + Saved >= Needed
      BY <2>2 DEF DemandInv, SocketsCount, Starved
    <3>2. Needed = JobsDemand
      BY <2>2 DEF Needed, Waiting, Connecting
    <3> QED
      BY <3>1, <3>2 DEF JobsDemand, TotalJobs
  <2> QED
    BY <2>1, <2>2 DEF DescriptorDemand
<1>2. IInv => TypeOK /\ LoopsInRange
  BY DEF IInv
<1> QED
  BY <1>1, <1>2, DemandInit, DemandStep, Invariance, PTL DEF Spec
=============================================================================
