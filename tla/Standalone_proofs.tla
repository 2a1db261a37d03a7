-------------------------- MODULE Standalone_proofs --------------------------
(***************************************************************************)
(* Proofs about the parts that stand alone, for every value of their       *)
(* constants: any number of clients and exchanges, any machines and        *)
(* memories, any lists of hosts, wherever a process ends.                  *)
(***************************************************************************)
EXTENDS Standalone, Integers, TLAPS

-----------------------------------------------------------------------------
(* The echo server: how much of an answer a client gets.                   *)

EchoTypes ==
  /\ server \in {"accept", "read", "write", "exited"}
  /\ taken \subseteq Clients
  /\ waiting \in Seq(Clients)
  /\ client \in [Clients -> {"connect", "type", "read", "ended"}]
  /\ toClient \in [Clients -> Nat]
  /\ reads \in [Clients -> Nat]

(* A client connects once: it waits at one place, or its connection has    *)
(* been accepted, or neither.                                              *)
Queue ==
  /\ \A i \in 1..Len(waiting) : waiting[i] \notin taken
  /\ \A i, j \in 1..Len(waiting) : waiting[i] = waiting[j] => i = j
  /\ \A c \in Clients : client[c] = "connect" =>
       c \notin taken /\ \A i \in 1..Len(waiting) : waiting[i] # c

Served == server \in {"read", "write"} => newSockFd \in taken

Unanswered(c) == c \notin taken \/ (server \in {"read", "write"} /\ newSockFd = c)

(* A client whose connection has not been answered has read nothing.       *)
Answer(c) ==
  /\ reads[c] + toClient[c] <= BufferSize + 1
  /\ Unanswered(c) => reads[c] = 0 /\ toClient[c] = 0

EchoInv == EchoTypes /\ Queue /\ Served /\ \A c \in Clients : Answer(c)

LEMMA EchoInvInit == EchoInit => EchoInv
  BY EchoAssumption DEF EchoInit, EchoInv, EchoTypes, Queue, Served, Answer

(* Who is accepted had not been before, and is nowhere else in the queue.  *)
LEMMA AcceptKeeps == EchoInv /\ Accept => EchoInv'
<1> SUFFICES ASSUME EchoInv, Accept PROVE EchoInv'
  OBVIOUS
<1>1. /\ waiting \in Seq(Clients) /\ waiting # <<>> /\ Len(waiting) \in Nat
      /\ waiting' = Tail(waiting) /\ newSockFd' = Head(waiting)
      /\ taken' = taken \cup {Head(waiting)} /\ server' = "read"
      /\ UNCHANGED <<client, toClient, reads>>
  BY DEF EchoInv, EchoTypes, Accept, clientVars
<1>2. /\ Head(waiting) = waiting[1] /\ 1 \in 1..Len(waiting) /\ waiting[1] \in Clients
  BY <1>1
<1>3. /\ waiting' \in Seq(Clients)
      /\ \A i \in 1..Len(waiting') : i + 1 \in 1..Len(waiting) /\ waiting'[i] = waiting[i + 1]
  <2>1. Tail(waiting) \in Seq(Clients) /\ Len(Tail(waiting)) = Len(waiting) - 1
    BY <1>1
  <2>2. \A i \in 1..Len(Tail(waiting)) : Tail(waiting)[i] = waiting[i + 1]
    BY <1>1
  <2> QED BY <1>1, <2>1, <2>2
<1>4. EchoTypes'
  BY <1>1, <1>2, <1>3 DEF EchoInv, EchoTypes
<1>5. Queue'
  <2>1. \A i \in 1..Len(waiting') : waiting'[i] \notin taken'
    BY <1>1, <1>2, <1>3 DEF EchoInv, Queue
  <2>2. \A i, j \in 1..Len(waiting') : waiting'[i] = waiting'[j] => i = j
    <3> SUFFICES ASSUME NEW i \in 1..Len(waiting'), NEW j \in 1..Len(waiting'),
                        waiting'[i] = waiting'[j]
                 PROVE  i = j
      OBVIOUS
    <3>1. i + 1 = j + 1
      BY <1>3 DEF EchoInv, Queue
    <3>2. Len(waiting') \in Nat
      BY <1>3
    <3> QED BY <3>1, <3>2
  <2>3. ASSUME NEW c \in Clients, client'[c] = "connect"
        PROVE  c \notin taken' /\ \A i \in 1..Len(waiting') : waiting'[i] # c
    BY <1>1, <1>2, <1>3, <2>3 DEF EchoInv, Queue
  <2> QED BY <2>1, <2>2, <2>3 DEF Queue
<1>6. Served'
  BY <1>1 DEF Served
<1>7. ASSUME NEW c \in Clients PROVE Answer(c)'
  <2>1. Unanswered(c)' => Unanswered(c)
    BY <1>1, <1>2 DEF EchoInv, Queue, Unanswered
  <2> QED BY <1>1, <2>1 DEF EchoInv, Answer
<1> QED BY <1>4, <1>5, <1>6, <1>7 DEF EchoInv

LEMMA WriteKeeps == EchoInv /\ WriteAnswer => EchoInv'
<1> SUFFICES ASSUME EchoInv, WriteAnswer PROVE EchoInv'
  OBVIOUS
<1>1. /\ newSockFd \in Clients /\ newSockFd \in taken /\ server = "write"
      /\ server' = "accept"
      /\ toClient' = [toClient EXCEPT ![newSockFd] = @ + BufferSize + 1]
      /\ UNCHANGED <<newSockFd, taken, waiting, client, reads>>
  BY DEF EchoInv, EchoTypes, Served, WriteAnswer
<1>2. EchoTypes'
  BY <1>1, EchoAssumption DEF EchoInv, EchoTypes
<1>3. Queue' /\ Served'
  BY <1>1 DEF EchoInv, Queue, Served
<1>4. ASSUME NEW c \in Clients PROVE Answer(c)'
  <2>1. CASE c = newSockFd
    <3>1. reads[c] = 0 /\ toClient[c] = 0
      BY <1>1, <2>1 DEF EchoInv, Answer, Unanswered
    <3>2. toClient'[c] = BufferSize + 1 /\ reads'[c] = 0
      BY <1>1, <2>1, <3>1, EchoAssumption DEF EchoInv, EchoTypes
    <3> QED BY <1>1, <2>1, <3>2, EchoAssumption DEF Answer, Unanswered
  <2>2. CASE c # newSockFd
    BY <1>1, <2>2 DEF EchoInv, EchoTypes, Answer, Unanswered
  <2> QED BY <2>1, <2>2
<1> QED BY <1>2, <1>3, <1>4 DEF EchoInv

LEMMA OtherServerStepsKeep ==
  EchoInv /\ (AcceptFails \/ ReadMessage \/ ConnectionReset) => EchoInv'
<1> SUFFICES ASSUME EchoInv, AcceptFails \/ ReadMessage \/ ConnectionReset PROVE EchoInv'
  OBVIOUS
<1>1. /\ UNCHANGED <<newSockFd, taken, waiting, client, toClient, reads>>
      /\ server' \in {"exited", "write"}
      /\ server' = "write" => server = "read"
  BY DEF AcceptFails, ReadMessage, ConnectionReset, clientVars
<1>2. EchoTypes' /\ Queue' /\ Served'
  BY <1>1 DEF EchoInv, EchoTypes, Queue, Served
<1>3. \A c \in Clients : Answer(c)'
  BY <1>1 DEF EchoInv, Answer, Unanswered
<1> QED BY <1>2, <1>3 DEF EchoInv

LEMMA ConnectKeeps ==
  ASSUME EchoInv, NEW c \in Clients, Connect(c)
  PROVE  EchoInv'
<1>1. /\ waiting \in Seq(Clients) /\ Len(waiting) \in Nat
      /\ client[c] = "connect" /\ client' = [client EXCEPT ![c] = "type"]
      /\ waiting' = Append(waiting, c)
      /\ UNCHANGED <<server, newSockFd, taken, toClient, reads>>
  BY DEF EchoInv, EchoTypes, Connect
<1>2. /\ waiting' \in Seq(Clients) /\ Len(waiting') = Len(waiting) + 1
      /\ \A i \in 1..Len(waiting) : waiting'[i] = waiting[i]
      /\ waiting'[Len(waiting) + 1] = c
  BY <1>1
<1>3. EchoTypes'
  BY <1>1, <1>2 DEF EchoInv, EchoTypes
<1>4. c \notin taken /\ \A i \in 1..Len(waiting) : waiting[i] # c
  BY <1>1 DEF EchoInv, Queue
<1>5. \A i \in 1..Len(waiting') : i \in 1..Len(waiting) \/ i = Len(waiting) + 1
  BY <1>1, <1>2
<1>6. Queue'
  <2>1. \A i \in 1..Len(waiting') : waiting'[i] \notin taken'
    BY <1>1, <1>2, <1>4, <1>5 DEF EchoInv, Queue
  <2>2. \A i, j \in 1..Len(waiting') : waiting'[i] = waiting'[j] => i = j
    BY <1>1, <1>2, <1>4, <1>5 DEF EchoInv, Queue
  <2>3. ASSUME NEW d \in Clients, client'[d] = "connect"
        PROVE  d \notin taken' /\ \A i \in 1..Len(waiting') : waiting'[i] # d
    <3>1. d # c /\ client[d] = "connect"
      BY <1>1, <2>3 DEF EchoInv, EchoTypes
    <3> QED BY <1>1, <1>2, <1>5, <3>1 DEF EchoInv, Queue
  <2> QED BY <2>1, <2>2, <2>3 DEF Queue
<1>7. Served' /\ \A d \in Clients : Answer(d)'
  BY <1>1 DEF EchoInv, Served, Answer, Unanswered
<1> QED BY <1>3, <1>6, <1>7 DEF EchoInv

LEMMA ReadAnswerKeeps ==
  ASSUME EchoInv, NEW c \in Clients, ReadAnswer(c)
  PROVE  EchoInv'
<1>1. PICK n \in 1..BufferSize :
        n <= toClient[c] /\ toClient' = [toClient EXCEPT ![c] = @ - n]
  BY DEF ReadAnswer
<1>2. /\ reads' = [reads EXCEPT ![c] = @ + 1]
      /\ client[c] = "read" /\ client' = [client EXCEPT ![c] = "type"]
      /\ UNCHANGED <<server, newSockFd, taken, waiting>>
  BY DEF ReadAnswer, serverVars
<1>3. /\ n \in Nat /\ n >= 1 /\ toClient[c] \in Nat /\ reads[c] \in Nat
      /\ toClient[c] - n \in Nat
  BY <1>1, EchoAssumption DEF EchoInv, EchoTypes
<1>4. EchoTypes'
  BY <1>1, <1>2, <1>3 DEF EchoInv, EchoTypes
<1>5. Queue' /\ Served'
  BY <1>2 DEF EchoInv, EchoTypes, Queue, Served
<1>6. ASSUME NEW d \in Clients PROVE Answer(d)'
  <2>1. CASE d = c
    <3>1. ~ Unanswered(c)
      BY <1>1, <1>3 DEF EchoInv, Answer
    <3>2. reads'[c] = reads[c] + 1 /\ toClient'[c] = toClient[c] - n
      BY <1>1, <1>2 DEF EchoInv, EchoTypes
    <3>3. reads'[c] + toClient'[c] <= reads[c] + toClient[c]
      BY <1>3, <3>2
    <3>4. reads[c] + toClient[c] <= BufferSize + 1
      BY DEF EchoInv, Answer
    <3>5. reads'[c] + toClient'[c] <= BufferSize + 1
      BY <1>3, <3>2, <3>3, <3>4, EchoAssumption
    <3> QED BY <1>2, <2>1, <3>1, <3>5 DEF Answer, Unanswered
  <2>2. CASE d # c
    BY <1>1, <1>2, <2>2 DEF EchoInv, EchoTypes, Answer, Unanswered
  <2> QED BY <2>1, <2>2
<1> QED BY <1>4, <1>5, <1>6 DEF EchoInv

LEMMA OtherClientStepsKeep ==
  ASSUME EchoInv, NEW c \in Clients,
         Fails(c) \/ SendMessage(c) \/ ReadNothing(c) \/ Quit(c)
  PROVE  EchoInv'
<1>1. /\ UNCHANGED <<server, newSockFd, taken, waiting, toClient, reads>>
      /\ \E s \in {"type", "read", "ended"} : client' = [client EXCEPT ![c] = s]
  BY DEF Fails, SendMessage, ReadNothing, Quit, serverVars
<1>2. EchoTypes'
  BY <1>1 DEF EchoInv, EchoTypes
<1>3. \A d \in Clients : client'[d] = "connect" => client[d] = "connect"
  BY <1>1 DEF EchoInv, EchoTypes
<1>4. Queue' /\ Served' /\ \A d \in Clients : Answer(d)'
  BY <1>1, <1>3 DEF EchoInv, Queue, Served, Answer, Unanswered
<1> QED BY <1>2, <1>4 DEF EchoInv

LEMMA EchoInvNext == EchoInv /\ [EchoNext]_echoVars => EchoInv'
<1> SUFFICES ASSUME EchoInv, [EchoNext]_echoVars PROVE EchoInv'
  OBVIOUS
<1>1. CASE ServerStep
  BY <1>1, AcceptKeeps, WriteKeeps, OtherServerStepsKeep DEF ServerStep
<1>2. ASSUME NEW c \in Clients, Connect(c) \/ ReadAnswer(c)
      PROVE  EchoInv'
  BY <1>2, ConnectKeeps, ReadAnswerKeeps
<1>3. ASSUME NEW c \in Clients, Fails(c) \/ SendMessage(c) \/ ReadNothing(c) \/ Quit(c)
      PROVE  EchoInv'
  BY <1>3, OtherClientStepsKeep
<1>4. CASE UNCHANGED echoVars
  BY <1>4 DEF EchoInv, EchoTypes, Queue, Served, Answer, Unanswered,
              echoVars, serverVars, clientVars
<1> QED BY <1>1, <1>2, <1>3, <1>4 DEF EchoNext, ClientReads

LEMMA EchoInvTells == EchoInv => OneAnswerPerConnection
<1> SUFFICES ASSUME EchoInv, NEW c \in Clients
             PROVE  /\ reads[c] + toClient[c] <= BufferSize + 1
                    /\ reads[c] > 0 => c \in taken /\ ~ (server = "read" /\ newSockFd = c)
  BY DEF OneAnswerPerConnection
<1>1. Answer(c)
  BY DEF EchoInv
<1>2. ASSUME reads[c] > 0
      PROVE  ~ Unanswered(c)
  BY <1>1, <1>2 DEF Answer
<1> QED BY <1>1, <1>2 DEF Answer, Unanswered

(* However many clients there are and however often they write, a          *)
(* connection is answered once.                                            *)
THEOREM OneAnswer == EchoSpec => []OneAnswerPerConnection
<1>1. EchoInit => EchoInv
  BY EchoInvInit
<1>2. EchoInv /\ [EchoNext]_echoVars => EchoInv'
  BY EchoInvNext
<1>3. EchoInv => OneAnswerPerConnection
  BY EchoInvTells
<1> QED BY <1>1, <1>2, <1>3, PTL DEF EchoSpec

-----------------------------------------------------------------------------
(* The script exchange: whose result a client shows.                       *)

Spoilt(e) == e \in disturbed \cup shellFailed

ExchangeTypes ==
  /\ PyScript \in Scripts
  /\ PyResult \in Outputs
  /\ slave \in [Exchanges -> {"accept", "copy", "shell", "python", "running",
                              "send", "ended"}]
  /\ loaded \in [Exchanges -> Scripts]
  /\ answer \in [Exchanges -> Answers \cup {Nothing}]
  /\ asker \in [Exchanges -> {"start", "wait", "done"}]
  /\ printed \in [Exchanges -> Shown \cup {Nothing}]
  /\ disturbed \subseteq Exchanges
  /\ shellFailed \subseteq Exchanges

(* As long as nobody disturbs it, an exchange finds its own text in the    *)
(* files, at every place it may be at.                                     *)
OwnFiles(e) ==
  /\ slave[e] \in {"shell", "python"} => PyScript \in {e, Broken}
  /\ slave[e] = "running" => loaded[e] \in {e, Broken}
  /\ slave[e] \in {"python", "running"} => PyResult = Empty
  /\ slave[e] = "send" => PyResult \in {e, Empty}
  /\ slave[e] = "ended" => answer[e] \in {e, Empty, Nothing}

(* An answer is the last thing a server sends, and what is shown is that.  *)
ShownIsAnswer(e) ==
  /\ slave[e] # "ended" => answer[e] = Nothing
  /\ asker[e] = "done" =>
       /\ slave[e] = "ended"
       /\ printed[e].what # "script" => printed[e].of = answer[e] /\ answer[e] # Nothing

ExchangeInv ==
  /\ ExchangeTypes
  /\ \A e \in Exchanges : Spoilt(e) \/ OwnFiles(e)
  /\ \A e \in Exchanges : ShownIsAnswer(e)

LEMMA ExchangeInvInit == ScriptInit => ExchangeInv
  BY DEF ScriptInit, ExchangeInv, ExchangeTypes, OwnFiles, ShownIsAnswer,
     Spoilt, Scripts, Outputs, Answers

(* A step of one server and what the others have: a file that changes is   *)
(* one that the others in need of it are then said to be disturbed in.     *)
LEMMA OthersKeep ==
  ASSUME ExchangeInv, NEW e \in Exchanges, NEW d \in Exchanges, d # e,
         slave'[d] = slave[d], loaded'[d] = loaded[d], answer'[d] = answer[d],
         disturbed \subseteq disturbed', shellFailed \subseteq shellFailed',
         Disturb(e) \/ (PyScript' = PyScript /\ PyResult' = PyResult)
  PROVE  Spoilt(d)' \/ OwnFiles(d)'
<1>1. Spoilt(d) => Spoilt(d)'
  BY DEF Spoilt
<1>2. CASE slave[d] \in {"shell", "python", "running", "send"} /\ Disturb(e)
  BY <1>2 DEF Spoilt, Disturb
<1>3. CASE slave[d] \notin {"shell", "python", "running", "send"}
  BY <1>1, <1>3 DEF ExchangeInv, OwnFiles
<1>4. CASE PyScript' = PyScript /\ PyResult' = PyResult
  BY <1>1, <1>4 DEF ExchangeInv, OwnFiles
<1> QED BY <1>2, <1>3, <1>4

LEMMA ServerKeeps ==
  ASSUME ExchangeInv, NEW e \in Exchanges, SlaveStep(e) \/ Finish(e) \/ Killed(e)
  PROVE  ExchangeInv'
<1> USE DEF Goes
<1>1. /\ disturbed \subseteq disturbed' /\ shellFailed \subseteq shellFailed'
      /\ Disturb(e) \/ (PyScript' = PyScript /\ PyResult' = PyResult)
  BY DEF SlaveStep, Receive, CopyScript, NoScriptFile, ShellRuns, ShellFails,
     Load, SendResultBack, NoResultFile, Finish, Killed, Disturb, files
<1>2. /\ asker' = asker /\ printed' = printed
      /\ \A d \in Exchanges : d # e =>
           slave'[d] = slave[d] /\ loaded'[d] = loaded[d] /\ answer'[d] = answer[d]
  BY DEF ExchangeInv, ExchangeTypes, SlaveStep, Receive, CopyScript,
     NoScriptFile, ShellRuns, ShellFails, Load, SendResultBack, NoResultFile,
     Finish, Killed, files, clientSide
<1>3. ExchangeTypes'
  <2>1. CASE Receive(e)
    BY <2>1 DEF ExchangeInv, ExchangeTypes, Receive, files, clientSide,
       Disturb, Scripts, Outputs, Answers
  <2>2. CASE CopyScript(e)
    BY <2>2 DEF ExchangeInv, ExchangeTypes, CopyScript, files, clientSide,
       Disturb, Scripts, Outputs, Answers
  <2>3. CASE NoScriptFile(e)
    BY <2>3 DEF ExchangeInv, ExchangeTypes, NoScriptFile, files, clientSide,
       Disturb, Scripts, Outputs, Answers
  <2>4. CASE ShellRuns(e)
    BY <2>4 DEF ExchangeInv, ExchangeTypes, ShellRuns, files, clientSide,
       Disturb, Scripts, Outputs, Answers
  <2>5. CASE ShellFails(e)
    BY <2>5 DEF ExchangeInv, ExchangeTypes, ShellFails, files, clientSide,
       Disturb, Scripts, Outputs, Answers
  <2>6. CASE Load(e)
    BY <2>6 DEF ExchangeInv, ExchangeTypes, Load, files, clientSide, Disturb,
       Scripts, Outputs, Answers
  <2>7. CASE SendResultBack(e)
    BY <2>7 DEF ExchangeInv, ExchangeTypes, SendResultBack, files, clientSide,
       Disturb, Scripts, Outputs, Answers
  <2>8. CASE NoResultFile(e)
    BY <2>8 DEF ExchangeInv, ExchangeTypes, NoResultFile, files, clientSide,
       Disturb, Scripts, Outputs, Answers
  <2>9. CASE Finish(e)
    BY <2>9 DEF ExchangeInv, ExchangeTypes, Finish, files, clientSide,
       Disturb, Scripts, Outputs, Answers
  <2>10. CASE Killed(e)
    BY <2>10 DEF ExchangeInv, ExchangeTypes, Killed, files, clientSide,
       Disturb, Scripts, Outputs, Answers
  <2> QED BY <2>1, <2>2, <2>3, <2>4, <2>5, <2>6, <2>7, <2>8, <2>9, <2>10 DEF
     SlaveStep
<1>4. slave[e] # "ended"
  BY DEF SlaveStep, Receive, CopyScript, NoScriptFile, ShellRuns, ShellFails,
     Load, SendResultBack, NoResultFile, Finish, Killed
<1>5. ShownIsAnswer(e)'
  <2>1. asker[e] # "done"
    BY <1>4 DEF ExchangeInv, ShownIsAnswer
  <2>2. answer[e] = Nothing
    BY <1>4 DEF ExchangeInv, ShownIsAnswer
  <2>3. slave'[e] # "ended" => answer'[e] = Nothing
    BY <2>2 DEF ExchangeInv, ExchangeTypes, SlaveStep, Receive, CopyScript,
       NoScriptFile, ShellRuns, ShellFails, Load, SendResultBack,
       NoResultFile, Finish, Killed, files
  <2> QED BY <1>2, <2>1, <2>3 DEF ShownIsAnswer
<1>6. Spoilt(e)' \/ OwnFiles(e)'
  <2>1. CASE Receive(e)
    BY <1>3, <1>4, <2>1, ScriptAssumption DEF ExchangeInv, ExchangeTypes,
       OwnFiles, ShownIsAnswer, Spoilt, Receive, files, Disturb, Scripts
  <2>2. CASE CopyScript(e)
    BY <1>3, <1>4, <2>2, ScriptAssumption DEF ExchangeInv, ExchangeTypes,
       OwnFiles, ShownIsAnswer, Spoilt, CopyScript, files, Disturb, Scripts
  <2>3. CASE NoScriptFile(e)
    BY <1>3, <1>4, <2>3, ScriptAssumption DEF ExchangeInv, ExchangeTypes,
       OwnFiles, ShownIsAnswer, Spoilt, NoScriptFile, files, Disturb, Scripts
  <2>4. CASE ShellRuns(e)
    BY <1>3, <1>4, <2>4, ScriptAssumption DEF ExchangeInv, ExchangeTypes,
       OwnFiles, ShownIsAnswer, Spoilt, ShellRuns, files, Disturb, Scripts
  <2>5. CASE ShellFails(e)
    BY <1>3, <1>4, <2>5, ScriptAssumption DEF ExchangeInv, ExchangeTypes,
       OwnFiles, ShownIsAnswer, Spoilt, ShellFails, files, Disturb, Scripts
  <2>6. CASE Load(e)
    BY <1>3, <1>4, <2>6, ScriptAssumption DEF ExchangeInv, ExchangeTypes,
       OwnFiles, ShownIsAnswer, Spoilt, Load, files, Disturb, Scripts
  <2>7. CASE SendResultBack(e)
    BY <1>3, <1>4, <2>7, ScriptAssumption DEF ExchangeInv, ExchangeTypes,
       OwnFiles, ShownIsAnswer, Spoilt, SendResultBack, files, Disturb,
       Scripts
  <2>8. CASE NoResultFile(e)
    BY <1>3, <1>4, <2>8, ScriptAssumption DEF ExchangeInv, ExchangeTypes,
       OwnFiles, ShownIsAnswer, Spoilt, NoResultFile, files, Disturb, Scripts
  <2>9. CASE Finish(e)
    BY <1>3, <1>4, <2>9, ScriptAssumption DEF ExchangeInv, ExchangeTypes,
       OwnFiles, ShownIsAnswer, Spoilt, Finish, files, Disturb, Scripts
  <2>10. CASE Killed(e)
    BY <1>3, <1>4, <2>10, ScriptAssumption DEF ExchangeInv, ExchangeTypes,
       OwnFiles, ShownIsAnswer, Spoilt, Killed, files, Disturb, Scripts
  <2> QED BY <2>1, <2>2, <2>3, <2>4, <2>5, <2>6, <2>7, <2>8, <2>9, <2>10 DEF
     SlaveStep
<1>7. ASSUME NEW d \in Exchanges, d # e
      PROVE  (Spoilt(d)' \/ OwnFiles(d)') /\ ShownIsAnswer(d)'
  <2>1. Spoilt(d)' \/ OwnFiles(d)'
    BY <1>1, <1>2, <1>7, OthersKeep
  <2>2. ShownIsAnswer(d)'
    BY <1>2, <1>7 DEF ExchangeInv, ShownIsAnswer
  <2> QED BY <2>1, <2>2
<1> QED BY <1>3, <1>5, <1>6, <1>7 DEF ExchangeInv

LEMMA ClientKeeps ==
  ASSUME ExchangeInv, NEW e \in Exchanges, SendScript(e) \/ ShowResult(e)
  PROVE  ExchangeInv'
<1>1. /\ UNCHANGED <<PyScript, PyResult, slave, loaded, answer, disturbed, shellFailed>>
  BY DEF SendScript, ShowResult, files
<1>2. \A d \in Exchanges : Spoilt(d)' \/ OwnFiles(d)'
  BY <1>1 DEF ExchangeInv, Spoilt, OwnFiles
<1>3. CASE SendScript(e)
  <2>1. ExchangeTypes'
    BY <1>1, <1>3 DEF ExchangeInv, ExchangeTypes, SendScript
  <2>2. \A d \in Exchanges : ShownIsAnswer(d)'
    BY <1>1, <1>3 DEF ExchangeInv, ExchangeTypes, ShownIsAnswer, SendScript
  <2> QED BY <1>2, <2>1, <2>2 DEF ExchangeInv
<1>4. CASE ShowResult(e)
  <2>1. PICK what \in {"result", "part", "script"} :
          /\ what = "script" <=> answer[e] = Nothing
          /\ printed' = [printed EXCEPT ![e] =
               [what |-> what, of |-> IF what = "script" THEN e ELSE answer[e]]]
    BY <1>4 DEF ShowResult
  <2> DEFINE shown == [what |-> what, of |-> IF what = "script" THEN e ELSE answer[e]]
  <2>2. shown \in Shown
    <3>1. (IF what = "script" THEN e ELSE answer[e]) \in Answers
      BY <2>1, ScriptAssumption DEF ExchangeInv, ExchangeTypes, Answers,
         Outputs
    <3> QED BY <3>1 DEF Shown
  <2>3. shown.what = what /\ (what # "script" => shown.of = answer[e])
    OBVIOUS
  <2> HIDE DEF shown
  <2>4. printed' = [printed EXCEPT ![e] = shown]
    BY <2>1 DEF shown
  <2>5. ExchangeTypes'
    BY <1>1, <1>4, <2>2, <2>4 DEF ExchangeInv, ExchangeTypes, ShowResult
  <2>6. ASSUME NEW d \in Exchanges
        PROVE  ShownIsAnswer(d)'
    <3>1. CASE d = e
      <4>1. printed'[e] = shown
        BY <2>4 DEF ExchangeInv, ExchangeTypes
      <4>2. slave[e] = "ended"
        BY <1>4 DEF ShowResult
      <4> QED BY <1>1, <2>1, <2>3, <3>1, <4>1, <4>2 DEF ShownIsAnswer
    <3>2. CASE d # e
      <4>1. printed'[d] = printed[d] /\ asker'[d] = asker[d]
        BY <1>4, <2>4, <3>2 DEF ExchangeInv, ExchangeTypes, ShowResult
      <4> QED BY <1>1, <4>1 DEF ExchangeInv, ShownIsAnswer
    <3> QED BY <3>1, <3>2
  <2> QED BY <1>2, <2>5, <2>6 DEF ExchangeInv
<1> QED BY <1>3, <1>4

LEMMA ExchangeInvNext == ExchangeInv /\ [ScriptNext]_scriptVars => ExchangeInv'
<1> SUFFICES ASSUME ExchangeInv, [ScriptNext]_scriptVars PROVE ExchangeInv'
  OBVIOUS
<1>1. ASSUME NEW e \in Exchanges, SlaveStep(e) \/ Finish(e) \/ Killed(e)
      PROVE  ExchangeInv'
  BY <1>1, ServerKeeps
<1>2. ASSUME NEW e \in Exchanges, SendScript(e) \/ ShowResult(e)
      PROVE  ExchangeInv'
  BY <1>2, ClientKeeps
<1>3. CASE UNCHANGED scriptVars
  BY <1>3 DEF ExchangeInv, ExchangeTypes, OwnFiles, ShownIsAnswer, Spoilt,
     scriptVars, files, clientSide
<1> QED BY <1>1, <1>2, <1>3 DEF ScriptNext

LEMMA ExchangeInvTells == ExchangeInv => ForeignResultHasACause
  BY DEF ExchangeInv, OwnFiles, ShownIsAnswer, Spoilt, ForeignResultHasACause

(* However many exchanges share the directory, a client whose server was   *)
(* not disturbed and had a shell shows the output of its own script.       *)
THEOREM ForeignResults == ScriptSpec => []ForeignResultHasACause
<1>1. ScriptInit => ExchangeInv
  BY ExchangeInvInit
<1>2. ExchangeInv /\ [ScriptNext]_scriptVars => ExchangeInv'
  BY ExchangeInvNext
<1>3. ExchangeInv => ForeignResultHasACause
  BY ExchangeInvTells
<1> QED BY <1>1, <1>2, <1>3, PTL DEF ScriptSpec

-----------------------------------------------------------------------------
(* The specification of a slave: which machines are taken for              *)
(* hyperthreaded, and what its two measurements tell.                      *)

(* The last digit of a number, which is never half of it.                  *)
LEMMA LastDigit ==
  ASSUME NEW c \in Nat \ {0}
  PROVE  /\ c % 10 \in 0..9
         /\ c < 10 <=> c % 10 = c
         /\ c % 10 <= c
         /\ c # 2 * (c % 10)
<1>1. c % 10 \in 0..9
  OBVIOUS
<1>2. c = 10 * (c \div 10) + (c % 10)
  OBVIOUS
<1>3. c \div 10 \in Nat
  OBVIOUS
<1>4. \A q \in Nat, d \in 0..9 :
        c = 10 * q + d => (c < 10 <=> d = c) /\ d <= c /\ c # 2 * d
  OBVIOUS
<1> QED BY <1>1, <1>2, <1>3, <1>4

(* Threads are cores times threads a core times sockets.                   *)
LEMMA Product ==
  ASSUME NEW s \in Nat \ {0}, NEW c \in Nat \ {0}, NEW t \in {1, 2}
  PROVE  /\ s = 1 => s * c * t = t * c
         /\ s = 2 => s * c * t = 2 * t * c
         /\ s > 2 => s * c * t >= 3 * c
<1>1. s = 1 => s * c * t = t * c
  OBVIOUS
<1>2. s = 2 => s * c * t = 2 * t * c
  OBVIOUS
<1>3. ASSUME s > 2
      PROVE  s * c * t >= 3 * c
  <2>1. PICK k \in Nat : s = 3 + k
    <3>1. s - 3 \in Nat /\ s = 3 + (s - 3)
      BY <1>3
    <3> QED BY <3>1
  <2>2. s * c = 3 * c + k * c
    BY <2>1
  <2>3. k * c \in Nat
    BY <2>1
  <2>4. s * c \in Nat /\ s * c >= 3 * c
    BY <2>2, <2>3
  <2>5. \A p \in Nat : p * t >= p
    <3>1. t = 1 \/ t = 2
      OBVIOUS
    <3> QED BY <3>1
  <2>6. (s * c) * t >= s * c /\ (s * c) * t \in Nat
    BY <2>4, <2>5
  <2> QED BY <2>4, <2>6
<1> QED BY <1>1, <1>2, <1>3

(* getHyperthreadingInfo says yes on small machines only: with one socket  *)
(* and two threads a core, and with two sockets and one.                   *)
LEMMA SeenOn ==
  ASSUME NEW m \in Machines
  PROVE  is_hyperthreaded(m) <=>
           m.cores < 10 /\ (IF m.threads = 2 THEN m.sockets = 1 ELSE m.sockets = 2)
<1>1. m.sockets \in Nat \ {0} /\ m.cores \in Nat \ {0} /\ m.threads \in {1, 2}
  BY SystemAssumption
<1>2. PICK p : p = m.sockets * m.cores * m.threads
  OBVIOUS
<1>3. PICK d : d = m.cores % 10
  OBVIOUS
<1>4. is_hyperthreaded(m) <=> p = 2 * d
  BY <1>2, <1>3 DEF is_hyperthreaded, hardware_concurrency, PhysicalCores
<1>5. /\ d \in 0..9
      /\ m.cores < 10 <=> d = m.cores
      /\ d <= m.cores
      /\ m.cores # 2 * d
  BY <1>1, <1>3, LastDigit
<1>6. /\ m.sockets = 1 => p = m.threads * m.cores
      /\ m.sockets = 2 => p = 2 * m.threads * m.cores
      /\ m.sockets > 2 => p >= 3 * m.cores
  BY <1>1, <1>2, Product
<1>7. \A s \in Nat \ {0}, c \in Nat \ {0}, t \in {1, 2} :
        /\ p \in Int
        /\ c < 10 <=> d = c
        /\ d <= c
        /\ c # 2 * d
        /\ s = 1 => p = t * c
        /\ s = 2 => p = 2 * t * c
        /\ s > 2 => p >= 3 * c
        => (p = 2 * d <=> c < 10 /\ (IF t = 2 THEN s = 1 ELSE s = 2))
  <2> SUFFICES ASSUME NEW s \in Nat \ {0}, NEW c \in Nat \ {0}, NEW t \in {1, 2},
                      p \in Int, c < 10 <=> d = c, d <= c, c # 2 * d,
                      s = 1 => p = t * c,
                      s = 2 => p = 2 * t * c,
                      s > 2 => p >= 3 * c
               PROVE  p = 2 * d <=> c < 10 /\ (IF t = 2 THEN s = 1 ELSE s = 2)
    OBVIOUS
  <2>1. d \in Int
    BY <1>5
  <2>2. CASE t = 1
    <3>1. CASE s = 1
      BY <2>1, <2>2, <3>1
    <3>2. CASE s = 2
      BY <2>1, <2>2, <3>2
    <3>3. CASE s > 2
      BY <2>1, <2>2, <3>3
    <3> QED BY <3>1, <3>2, <3>3
  <2>3. CASE t = 2
    <3>1. CASE s = 1
      BY <2>1, <2>3, <3>1
    <3>2. CASE s = 2
      BY <2>1, <2>3, <3>2
    <3>3. CASE s > 2
      BY <2>1, <2>3, <3>3
    <3> QED BY <3>1, <3>2, <3>3
  <2> QED BY <2>2, <2>3
<1>8. p \in Int
  BY <1>1, <1>2
<1> QED BY <1>1, <1>4, <1>5, <1>6, <1>7, <1>8

-----------------------------------------------------------------------------
(* specs is empty, or what was found on this machine.                      *)
SpecsOfMachine ==
  /\ machine \in Machines
  /\ specs.number_of_cores = 0 \/ specs.is_hyperthreaded = is_hyperthreaded(machine)

LEMMA SpecsInit == SystemInit => SpecsOfMachine
  BY DEF SystemInit, SpecsOfMachine

LEMMA SpecsNext == SpecsOfMachine /\ [SystemNext]_systemVars => SpecsOfMachine'
<1> SUFFICES ASSUME SpecsOfMachine, [SystemNext]_systemVars
             PROVE  SpecsOfMachine'
  OBVIOUS
<1>1. machine' = machine
  BY DEF SystemNext, systemVars, PrepareSystemSpecDS, GetMemoryUtilization, OpenCpuUtil,
         ScriptWrites, ScriptEmpties, ScriptMissing, ReadCpuUtil, Work
<1>2. CASE PrepareSystemSpecDS
  <2>1. specs'.is_hyperthreaded = is_hyperthreaded(machine)
    BY <1>2 DEF PrepareSystemSpecDS
  <2> QED BY <1>1, <2>1 DEF SpecsOfMachine
<1>3. CASE specs' = specs
  BY <1>1, <1>3 DEF SpecsOfMachine
<1> QED
  BY <1>2, <1>3 DEF SystemNext, systemVars, GetMemoryUtilization, OpenCpuUtil,
         ScriptWrites, ScriptEmpties, ScriptMissing, ReadCpuUtil, Work

LEMMA SpecsTell == SpecsOfMachine => HyperthreadingSeen
<1> SUFFICES ASSUME SpecsOfMachine, specs.number_of_cores > 0
             PROVE  specs.is_hyperthreaded <=> is_hyperthreaded(machine)
  BY SeenOn DEF SpecsOfMachine, HyperthreadingSeen
<1>1. specs.number_of_cores # 0
  OBVIOUS
<1> QED BY <1>1 DEF SpecsOfMachine

(* Whatever machines there are, a slave recognises hyperthreading on those *)
(* with one socket and fewer than ten cores, on no larger one, and takes   *)
(* two small sockets for it.                                               *)
THEOREM HyperthreadingRecognised == SystemSpecification => []HyperthreadingSeen
<1>1. SystemInit => SpecsOfMachine
  BY SpecsInit
<1>2. SpecsOfMachine /\ [SystemNext]_systemVars => SpecsOfMachine'
  BY SpecsNext
<1>3. SpecsOfMachine => HyperthreadingSeen
  BY SpecsTell
<1> QED BY <1>1, <1>2, <1>3, PTL DEF SystemSpecification

-----------------------------------------------------------------------------
(* The machine does nothing between the script and the read, so that what  *)
(* the script has written is what the stream still finds.                  *)
WrittenIsPresent ==
  /\ usage \in Usages
  /\ measuring = "read" /\ scriptRan => cpu_util = usage

LEMMA WrittenInit == SystemInit => WrittenIsPresent
  BY DEF SystemInit, WrittenIsPresent

LEMMA WrittenNext == WrittenIsPresent /\ [SystemNext]_systemVars => WrittenIsPresent'
  BY DEF WrittenIsPresent, SystemNext, systemVars, PrepareSystemSpecDS,
         GetMemoryUtilization, OpenCpuUtil, ScriptWrites, ScriptEmpties,
         ScriptMissing, ReadCpuUtil, Work

LEMMA WrittenTells ==
  WrittenIsPresent /\ [SystemNext]_systemVars
    => [measuring = "read" /\ measuring' = "idle" /\ scriptRan
          => utilization' = (IF opened THEN usage ELSE 0)]_systemVars
<1> SUFFICES ASSUME WrittenIsPresent, SystemNext, measuring = "read", measuring' = "idle",
                    scriptRan
             PROVE  utilization' = (IF opened THEN usage ELSE 0)
  BY DEF systemVars
<1>1. ReadCpuUtil
  BY DEF SystemNext, PrepareSystemSpecDS, GetMemoryUtilization, OpenCpuUtil,
         ScriptWrites, ScriptEmpties, ScriptMissing, Work
<1> QED BY <1>1 DEF ReadCpuUtil, WrittenIsPresent

(* A measurement whose script ran returns the usage of the present.        *)
THEOREM PresentMeasured == SystemSpecification => MeasuresThePresent
<1>1. SystemInit => WrittenIsPresent
  BY WrittenInit
<1>2. WrittenIsPresent /\ [SystemNext]_systemVars => WrittenIsPresent'
  BY WrittenNext
<1>3. WrittenIsPresent /\ [SystemNext]_systemVars
        => [measuring = "read" /\ measuring' = "idle" /\ scriptRan
              => utilization' = (IF opened THEN usage ELSE 0)]_systemVars
  BY WrittenTells
<1> QED BY <1>1, <1>2, <1>3, PTL DEF SystemSpecification, MeasuresThePresent

-----------------------------------------------------------------------------
LEMMA QuotientIsInteger ==
  ASSUME NEW n \in Int, NEW d \in Nat \ {0}
  PROVE  /\ n \div d \in Int /\ n % d \in 0..d - 1
         /\ n = d * (n \div d) + (n % d)
  OBVIOUS

LEMMA RoundedIsInteger ==
  ASSUME NEW n \in Int, NEW d \in Nat \ {0}
  PROVE  Rounded(n, d) \subseteq Int
<1>1. n \div d \in Int
  BY QuotientIsInteger
<1> QED BY <1>1 DEF Rounded

LEMMA BelowItsDivisor ==
  ASSUME NEW d \in Nat \ {0}, NEW k \in 0..d - 1
  PROVE  k \div d = 0
<1>1. PICK q \in Int, r \in 0..d - 1 : q = k \div d /\ k = d * q + r
  BY QuotientIsInteger
<1>2. \A x \in Int : x >= 1 => d * x >= d
  OBVIOUS
<1>3. \A x \in Int : x <= -1 => d * x <= -d
  <2> SUFFICES ASSUME NEW x \in Int, x <= -1 PROVE d * x <= -d
    OBVIOUS
  <2>1. d * (-x) >= d /\ d * (-x) = -(d * x)
    BY <1>2
  <2> QED BY <2>1
<1>4. d * q \in Int
  BY <1>1
<1> QED BY <1>1, <1>2, <1>3, <1>4

(* The fraction of the memory that is in use is printed as less than one,  *)
(* and not as less than zero, if what is free is not too little and not    *)
(* more than there is.                                                     *)
LEMMA LessThanOne ==
  ASSUME NEW P \in Nat \ {0}, NEW T \in Nat \ {0}, NEW f \in Nat, f <= T, T < 2 * P * f,
         NEW k \in Rounded(P * (T - f), T)
  PROVE  k \in 0..P - 1
<1>1. PICK a, b \in Nat : a = P * T /\ b = P * f
  OBVIOUS
<1>2. P * (T - f) = a - b /\ T < 2 * b /\ P * (T - f) \in Int
  BY <1>1
<1>3. k \in Int /\ 2 * (P * (T - f) - k * T) \in -T..T
  BY <1>2, RoundedIsInteger DEF Rounded
<1>4. PICK c \in Int : c = k * T
  BY <1>3
<1>5. -T <= 2 * (a - b - c) /\ 2 * (a - b - c) <= T
  BY <1>2, <1>3, <1>4
<1>6. b <= a
  <2>1. PICK g \in Nat : T = f + g
    <3>1. T - f \in Nat /\ T = f + (T - f)
      OBVIOUS
    <3> QED BY <3>1
  <2>2. P * T = P * f + P * g /\ P * g \in Nat
    BY <2>1
  <2> QED BY <1>1, <2>2
<1>7. k >= P => c >= a
  <2> SUFFICES ASSUME k >= P PROVE c >= a
    OBVIOUS
  <2>1. PICK g \in Nat : k = P + g
    <3>1. k - P \in Nat /\ k = P + (k - P)
      BY <1>3
    <3> QED BY <3>1
  <2>2. k * T = P * T + g * T /\ g * T \in Nat
    BY <2>1
  <2> QED BY <1>1, <1>4, <2>2
<1>8. k <= -1 => c <= -T
  <2> SUFFICES ASSUME k <= -1 PROVE c <= -T
    OBVIOUS
  <2>1. PICK g \in Nat : k = -1 - g
    <3>1. -1 - k \in Nat /\ k = -1 - (-1 - k)
      BY <1>3
    <3> QED BY <3>1
  <2>2. k * T = -T - g * T /\ g * T \in Nat
    BY <2>1
  <2> QED BY <1>4, <2>2
<1> QED BY <1>1, <1>2, <1>3, <1>4, <1>5, <1>6, <1>7, <1>8

LEMMA LostOnTheWay ==
  ASSUME NEW f \in Nat \ {0}, NEW T \in Int, f <= T, T < 2 * Precision * f,
         NEW util \in Ratio(f, T)
  PROVE  LM(util) = 0
<1>1. T \in Nat \ {0} /\ T > 0 /\ T # 0
  OBVIOUS
<1>2. util \in Rounded(Precision * (T - f), T)
  BY <1>1 DEF Ratio
<1>3. util \in 0..Precision - 1
  BY <1>1, <1>2, LessThanOne, SystemAssumption
<1>4. util \div Precision = 0
  BY <1>3, BelowItsDivisor, SystemAssumption
<1> QED BY <1>3, <1>4, SystemAssumption DEF LM

LEMMA FreeInMegabytes ==
  ASSUME NEW m \in Memories
  PROVE  /\ m.total \div 1024 \in Nat /\ m.free \div 1024 \in Nat
         /\ m.free >= 1024 => m.free \div 1024 \in Nat \ {0}
<1>1. m.total \in Nat /\ m.free \in Nat
  BY SystemAssumption
<1>2. \A a \in Nat : a \div 1024 \in Nat /\ (a >= 1024 => a \div 1024 \in Nat \ {0})
  OBVIOUS
<1> QED BY <1>1, <1>2

LEMMA TotalIsInteger ==
  ASSUME NEW m \in Memories
  PROVE  TotalMemory(m.total) \subseteq Int
<1>1. m.total \div 1024 \in Int /\ Garbage \subseteq Int
  BY FreeInMegabytes, SystemAssumption
<1>2. PICK t \in Int : t = m.total \div 1024
  BY <1>1
<1>3. TotalMemory(m.total) = {t} \cup Garbage
  BY <1>2, Zenon DEF TotalMemory
<1> QED BY <1>1, <1>3, Zenon

LEMMA MemoryStays == SystemInit => memory \in Memories
  BY DEF SystemInit

LEMMA MemoryNext == memory \in Memories /\ [SystemNext]_systemVars => memory' \in Memories
  BY DEF SystemNext, systemVars, PrepareSystemSpecDS, GetMemoryUtilization, OpenCpuUtil,
         ScriptWrites, ScriptEmpties, ScriptMissing, ReadCpuUtil, Work

LEMMA MemoryTells ==
  memory \in Memories /\ [SystemNext]_systemVars
    => [measuring = "idle" /\ measuring' = "open" /\ memory.free >= 1024
          => LET free_mem == memory.free \div 1024
             IN  \/ LM(memory_util') = 0
                 \/ total_memory' < free_mem
                 \/ 2 * Precision * free_mem <= total_memory']_systemVars
<1> SUFFICES ASSUME memory \in Memories, SystemNext, measuring = "idle",
                    measuring' = "open", memory.free >= 1024,
                    ~ (total_memory' < memory.free \div 1024),
                    ~ (2 * Precision * (memory.free \div 1024) <= total_memory')
             PROVE  LM(memory_util') = 0
  BY Zenon DEF systemVars
<1>1. GetMemoryUtilization
  BY DEF SystemNext, PrepareSystemSpecDS, OpenCpuUtil, ScriptWrites, ScriptEmpties,
         ScriptMissing, ReadCpuUtil, Work
<1>2. PICK f \in Nat \ {0}, T \in Int : f = memory.free \div 1024 /\ T = total_memory'
  <2>1. memory.free \div 1024 \in Nat \ {0}
    BY FreeInMegabytes
  <2>2. total_memory' \in Int
    BY <1>1, TotalIsInteger DEF GetMemoryUtilization
  <2> QED BY <2>1, <2>2
<1>3. memory_util' \in Ratio(f, T)
  BY <1>1, <1>2 DEF GetMemoryUtilization
<1>4. f <= T /\ T < 2 * Precision * f
  BY <1>2, SystemAssumption
<1> QED BY <1>3, <1>4, LostOnTheWay

(* Whatever the memory of a host and the precision of what is printed, and *)
(* whatever integer the bytes behind the digits make of the total, the     *)
(* master takes zero for a host with a megabyte left, unless that integer  *)
(* is less than what is free or so large that the fraction is a one.       *)
THEOREM MemoryIsLost == SystemSpecification => MemoryIsLostOnTheWay
<1>1. SystemInit => memory \in Memories
  BY MemoryStays
<1>2. memory \in Memories /\ [SystemNext]_systemVars => (memory \in Memories)'
  BY MemoryNext
<1>3. memory \in Memories /\ [SystemNext]_systemVars
        => [measuring = "idle" /\ measuring' = "open" /\ memory.free >= 1024
              => LET free_mem == memory.free \div 1024
                 IN  \/ LM(memory_util') = 0
                     \/ total_memory' < free_mem
                     \/ 2 * Precision * free_mem <= total_memory']_systemVars
  BY MemoryTells
<1> QED BY <1>1, <1>2, <1>3, PTL DEF SystemSpecification, MemoryIsLostOnTheWay

-----------------------------------------------------------------------------
(* The discovery of hosts: the list of hosts is that of one scan.          *)

(* The hosts in the lines before the one that is read next.                *)
CopiedHosts ==
  IF line <= 2 THEN 0 ELSE IF line - 2 <= Len(scanned) THEN line - 2 ELSE Len(scanned)

(* tmp holds the scan it was written by, between comments.                 *)
TmpIsScan ==
  \/ tmp = <<>> /\ scanned = <<>>
  \/ /\ Len(tmp) \in {Len(scanned) + 1, Len(scanned) + 2}
     /\ tmp[1] = Comment
     /\ \A k \in 1..Len(scanned) : tmp[k + 1] = scanned[k]
     /\ Len(tmp) = Len(scanned) + 2 => tmp[Len(tmp)] = Comment

CopySoFar ==
  scanning = "copy" =>
    /\ line <= Len(tmp) + 1
    /\ output => /\ source = scanned
                 /\ Len(hosts) = CopiedHosts
                 /\ \A k \in 1..CopiedHosts : hosts[k] = scanned[k]

(* However much of it was copied, the list is the beginning of one scan.   *)
OfOneScan == \E k \in 0..Len(source) : hosts = SubSeq(source, 1, k)

ScanInv ==
  /\ scanning \in {"scan", "open", "copy", "done", "ended"}
  /\ tmp \in Seq(Addresses \cup {Comment})
  /\ hosts \in Seq(Addresses)
  /\ scanned \in Seq(Addresses)
  /\ source \in Seq(Addresses)
  /\ line \in Nat \ {0}
  /\ input \in BOOLEAN /\ output \in BOOLEAN
  /\ TmpIsScan
  /\ CopySoFar
  /\ OfOneScan
  /\ scanning = "done" /\ input /\ output => hosts = scanned

(* What nmap writes is a scan between comments.                            *)
LEMMA WrittenByScan ==
  ASSUME NEW r \in Seq(Addresses), NEW tail \in {<<>>, <<Comment>>}
  PROVE  LET t == <<Comment>> \o r \o tail
         IN  /\ t \in Seq(Addresses \cup {Comment})
             /\ Len(t) \in {Len(r) + 1, Len(r) + 2}
             /\ t[1] = Comment
             /\ \A k \in 1..Len(r) : t[k + 1] = r[k]
             /\ Len(t) = Len(r) + 2 => t[Len(t)] = Comment
<1> DEFINE A == Addresses \cup {Comment}
           u == <<Comment>> \o r
           t == u \o tail
<1>1. /\ <<Comment>> \in Seq(A) /\ Len(<<Comment>>) = 1 /\ <<Comment>>[1] = Comment
      /\ r \in Seq(A)
      /\ tail \in Seq(A)
  <2>1. <<Comment>> \in Seq(A) /\ Len(<<Comment>>) = 1 /\ <<Comment>>[1] = Comment
    OBVIOUS
  <2>2. r \in Seq(A)
    <3>1. Len(r) \in Nat /\ r \in [1..Len(r) -> Addresses]
      OBVIOUS
    <3>2. r \in [1..Len(r) -> A]
      BY <3>1
    <3> QED BY <3>1, <3>2
  <2>3. <<>> \in Seq(A)
    OBVIOUS
  <2> QED BY <2>1, <2>2, <2>3
<1>2. /\ u \in Seq(A) /\ Len(u) = 1 + Len(r) /\ u[1] = Comment
      /\ \A k \in 1..Len(r) : u[k + 1] = r[k]
  <2>1. u \in Seq(A) /\ Len(u) = 1 + Len(r)
    BY <1>1
  <2>2. \A i \in 1..Len(u) : u[i] = IF i <= 1 THEN <<Comment>>[i] ELSE r[i - 1]
    BY <1>1
  <2> QED BY <1>1, <2>1, <2>2
<1>3. t \in Seq(A) /\ Len(t) = Len(u) + Len(tail)
  BY <1>1, <1>2
<1>4. \A i \in 1..Len(t) : t[i] = IF i <= Len(u) THEN u[i] ELSE tail[i - Len(u)]
  BY <1>1, <1>2
<1>5. Len(tail) = 0 \/ (Len(tail) = 1 /\ tail[1] = Comment)
  <2>1. CASE tail = <<>>
    BY <2>1
  <2>2. CASE tail = <<Comment>>
    BY <1>1, <2>2
  <2> QED BY <2>1, <2>2
<1>9. t = <<Comment>> \o r \o tail
  OBVIOUS
<1> HIDE DEF u, t
<1>6. Len(r) \in Nat
  OBVIOUS
<1>7. t[1] = Comment /\ \A k \in 1..Len(r) : t[k + 1] = r[k]
  BY <1>2, <1>3, <1>4, <1>5, <1>6
<1>8. Len(t) = Len(r) + 2 => t[Len(t)] = Comment
  BY <1>2, <1>3, <1>4, <1>5, <1>6
<1>10. t \in Seq(Addresses \cup {Comment}) /\ Len(t) \in {Len(r) + 1, Len(r) + 2}
  <2>1. Len(t) = (1 + Len(r)) + Len(tail)
    BY <1>2, <1>3
  <2>2. \A n \in Nat, k \in {0, 1} : (1 + n) + k \in {n + 1, n + 2}
    OBVIOUS
  <2>3. Len(tail) \in {0, 1}
    BY <1>5
  <2>4. Len(t) \in {Len(r) + 1, Len(r) + 2}
    BY <1>6, <2>1, <2>2, <2>3
  <2> QED BY <1>3, <2>4
<1> QED BY <1>7, <1>8, <1>9, <1>10

LEMMA NothingOfAScan ==
  ASSUME NEW r \in Seq(Addresses)
  PROVE  \E k \in 0..Len(r) : <<>> = SubSeq(r, 1, k)
<1>1. 0 \in 0..Len(r) /\ <<>> = SubSeq(r, 1, 0)
  OBVIOUS
<1> QED BY <1>1

LEMMA ScanInvInit == ScanInit => ScanInv
<1> SUFFICES ASSUME ScanInit PROVE ScanInv
  OBVIOUS
<1>1. <<>> \in Seq(Addresses) /\ <<>> \in Seq(Addresses \cup {Comment})
  OBVIOUS
<1>2. OfOneScan
  BY <1>1, NothingOfAScan DEF ScanInit, OfOneScan
<1>3. input \in BOOLEAN /\ output \in BOOLEAN
  BY Zenon DEF ScanInit
<1>4. /\ scanning = "scan" /\ tmp = <<>> /\ hosts = <<>> /\ line \in Nat \ {0}
      /\ scanned = <<>> /\ source = <<>>
  BY DEF ScanInit
<1> QED BY <1>1, <1>2, <1>3, <1>4 DEF ScanInv, TmpIsScan, CopySoFar

(* A list that agrees with a scan as far as it goes is its beginning.      *)
LEMMA BeginningOf ==
  ASSUME NEW r \in Seq(Addresses), NEW t \in Seq(Addresses), NEW n \in 0..Len(r),
         Len(t) = n, \A k \in 1..n : t[k] = r[k]
  PROVE  \E k \in 0..Len(r) : t = SubSeq(r, 1, k)
<1>1. t = SubSeq(r, 1, n)
  OBVIOUS
<1> QED BY <1>1

(* A line that is copied is the next host of the scan, and a comment is    *)
(* before the first or after the last.                                     *)
LEMMA CopyLineCopies ==
  ScanInv /\ CopyLine /\ output
    => Len(hosts') = CopiedHosts' /\ \A k \in 1..CopiedHosts' : hosts'[k] = scanned'[k]
<1> SUFFICES ASSUME ScanInv, CopyLine, output
             PROVE  Len(hosts') = CopiedHosts' /\ \A k \in 1..CopiedHosts' : hosts'[k] = scanned'[k]
  OBVIOUS
<1>1. /\ tmp \in Seq(Addresses \cup {Comment}) /\ hosts \in Seq(Addresses)
      /\ scanned \in Seq(Addresses) /\ line \in Nat \ {0}
      /\ Len(scanned) \in Nat /\ Len(tmp) \in Nat
      /\ line <= Len(tmp) /\ line' = line + 1
      /\ Len(hosts) = CopiedHosts
      /\ \A k \in 1..CopiedHosts : hosts[k] = scanned[k]
      /\ tmp' = tmp /\ scanned' = scanned /\ scanning' = "copy"
  BY DEF ScanInv, CopyLine, CopySoFar
<1>2. tmp # <<>>
  BY <1>1
<1>3. /\ Len(tmp) \in {Len(scanned) + 1, Len(scanned) + 2}
      /\ tmp[1] = Comment
      /\ \A k \in 1..Len(scanned) : tmp[k + 1] = scanned[k]
      /\ Len(tmp) = Len(scanned) + 2 => tmp[Len(tmp)] = Comment
  BY <1>2 DEF ScanInv, TmpIsScan
<1>4. CopiedHosts' =
        IF line + 1 <= 2 THEN 0
        ELSE IF line - 1 <= Len(scanned) THEN line - 1 ELSE Len(scanned)
  BY <1>1 DEF CopiedHosts
<1>5. CASE tmp[line] = Comment
  <2>1. hosts' = hosts
    BY <1>5 DEF CopyLine
  <2>2. line = 1 \/ line = Len(scanned) + 2
    <3>1. ASSUME line # 1, line # Len(scanned) + 2
          PROVE  FALSE
      <4>1. line - 1 \in 1..Len(scanned) /\ (line - 1) + 1 = line
        <5>1. line \in Int /\ 1 <= line /\ line <= Len(tmp)
          BY <1>1
        <5>2. Len(tmp) <= Len(scanned) + 2 /\ Len(scanned) \in Nat /\ Len(tmp) \in Nat
          BY <1>3
        <5> QED BY <5>1, <5>2, <3>1
      <4>2. tmp[line] = scanned[line - 1]
        BY <1>3, <4>1
      <4>3. scanned[line - 1] \in Addresses
        BY <1>1, <4>1
      <4> QED BY <1>5, <4>2, <4>3, ScanAssumption
    <3> QED BY <3>1
  <2>3. CopiedHosts' = CopiedHosts
    BY <1>1, <1>4, <2>2 DEF CopiedHosts
  <2> QED BY <1>1, <2>1, <2>3
<1>6. CASE tmp[line] # Comment
  <2>1. hosts' = Append(hosts, tmp[line])
    BY <1>6 DEF CopyLine
  <2>2. line - 1 \in 1..Len(scanned) /\ (line - 1) + 1 = line
    BY <1>1, <1>3, <1>6
  <2>3. tmp[line] = scanned[line - 1] /\ scanned[line - 1] \in Addresses
    <3>1. tmp[(line - 1) + 1] = scanned[line - 1]
      BY <1>3, <2>2
    <3>2. scanned[line - 1] \in Addresses
      BY <1>1, <2>2
    <3> QED BY <2>2, <3>1, <3>2
  <2>4. CopiedHosts = line - 2 /\ CopiedHosts' = line - 1
    BY <1>1, <1>4, <2>2 DEF CopiedHosts
  <2>5. /\ hosts' \in Seq(Addresses)
        /\ Len(hosts') = line - 1
        /\ hosts'[line - 1] = scanned[line - 1]
        /\ \A k \in 1..line - 2 : hosts'[k] = hosts[k]
    BY <1>1, <2>1, <2>3, <2>4
  <2>6. \A k \in 1..line - 1 : hosts'[k] = scanned[k]
    BY <1>1, <2>4, <2>5
  <2> QED BY <1>1, <2>4, <2>5, <2>6
<1> QED BY <1>5, <1>6

LEMMA CopyLineKeeps == ScanInv /\ CopyLine => ScanInv'
<1> SUFFICES ASSUME ScanInv, CopyLine PROVE ScanInv'
  OBVIOUS
<1>1. /\ tmp \in Seq(Addresses \cup {Comment}) /\ hosts \in Seq(Addresses)
      /\ line \in Nat \ {0} /\ Len(tmp) \in Nat /\ line <= Len(tmp) /\ line' = line + 1
      /\ UNCHANGED <<scanning, tmp, input, output, scanned, source>> /\ scanning = "copy"
  BY DEF ScanInv, CopyLine
<1>2. hosts' \in Seq(Addresses)
  <2>1. tmp[line] \in Addresses \cup {Comment}
    BY <1>1
  <2>2. CASE hosts' = hosts
    BY <1>1, <2>2
  <2>3. CASE hosts' # hosts
    <3>1. tmp[line] \in Addresses /\ hosts' = Append(hosts, tmp[line])
      BY <2>1, <2>3 DEF CopyLine
    <3> QED BY <1>1, <3>1
  <2> QED BY <2>2, <2>3
<1>3. TmpIsScan'
  BY <1>1 DEF ScanInv, TmpIsScan
<1>4. CASE output
  <2>1. CopySoFar'
    BY <1>1, <1>4, CopyLineCopies DEF ScanInv, CopySoFar
  <2>2. /\ Len(hosts') = CopiedHosts' /\ \A k \in 1..CopiedHosts' : hosts'[k] = scanned'[k]
        /\ source' = scanned' /\ scanned' \in Seq(Addresses) /\ line' \in Nat \ {0}
    BY <1>1, <1>4, CopyLineCopies DEF ScanInv, CopySoFar
  <2>3. PICK n : n = CopiedHosts'
    OBVIOUS
  <2>4. n \in 0..Len(scanned')
    <3>1. PICK l \in Nat, m \in Nat : l = line' /\ m = Len(scanned')
      BY <2>2
    <3>2. n = IF l <= 2 THEN 0 ELSE IF l - 2 <= m THEN l - 2 ELSE m
      BY <2>3, <3>1 DEF CopiedHosts
    <3>3. n \in 0..m
      BY <3>2
    <3> QED BY <3>1, <3>3
  <2>5. OfOneScan'
    BY <1>2, <2>2, <2>3, <2>4, BeginningOf DEF OfOneScan
  <2> QED BY <1>1, <1>2, <1>3, <2>1, <2>5 DEF ScanInv
<1>5. CASE ~ output
  <2>1. hosts' = hosts
    BY <1>5 DEF CopyLine
  <2> QED BY <1>1, <1>2, <1>3, <1>5, <2>1 DEF ScanInv, CopySoFar, OfOneScan
<1> QED BY <1>4, <1>5

(* When the file is read to its end, all hosts of the scan are copied.     *)
LEMMA FileReadKeeps == ScanInv /\ FileRead => ScanInv'
<1> SUFFICES ASSUME ScanInv, FileRead PROVE ScanInv'
  OBVIOUS
<1>1. /\ tmp \in Seq(Addresses \cup {Comment}) /\ hosts \in Seq(Addresses)
      /\ scanned \in Seq(Addresses) /\ line \in Nat \ {0}
      /\ Len(scanned) \in Nat /\ Len(tmp) \in Nat
      /\ line = Len(tmp) + 1
      /\ output => Len(hosts) = CopiedHosts /\ \A k \in 1..CopiedHosts : hosts[k] = scanned[k]
  BY DEF ScanInv, FileRead, CopySoFar
<1>2. CopiedHosts = Len(scanned)
  BY <1>1 DEF ScanInv, TmpIsScan, CopiedHosts
<1>3. output => hosts = scanned
  BY <1>1, <1>2
<1> QED BY <1>3 DEF ScanInv, FileRead, TmpIsScan, CopySoFar, OfOneScan

LEMMA OpenFilesKeeps == ScanInv /\ OpenFiles => ScanInv'
<1> SUFFICES ASSUME ScanInv, OpenFiles PROVE ScanInv'
  OBVIOUS
<1>1. /\ input' \in BOOLEAN /\ output' \in BOOLEAN
      /\ source' = IF output' THEN scanned ELSE source
      /\ hosts' = IF output' THEN <<>> ELSE hosts
      /\ scanning' = IF input' THEN "copy" ELSE "done"
      /\ line' = 1 /\ tmp' = tmp /\ scanned' = scanned
  BY DEF OpenFiles, Opens
<1>2. /\ hosts \in Seq(Addresses) /\ scanned \in Seq(Addresses) /\ source \in Seq(Addresses)
      /\ Len(tmp) \in Nat /\ <<>> \in Seq(Addresses)
  BY DEF ScanInv
<1>3. hosts' \in Seq(Addresses) /\ source' \in Seq(Addresses)
  BY <1>1, <1>2
<1>4. TmpIsScan'
  BY <1>1 DEF ScanInv, TmpIsScan
<1>5. CopySoFar'
  <2>1. CopiedHosts' = 0
    BY <1>1 DEF CopiedHosts
  <2> QED BY <1>1, <1>2, <2>1 DEF CopySoFar
<1>6. OfOneScan'
  <2>1. CASE output'
    BY <1>1, <1>2, <2>1, NothingOfAScan DEF OfOneScan
  <2>2. CASE ~ output'
    BY <1>1, <2>2 DEF ScanInv, OfOneScan
  <2> QED BY <2>1, <2>2
<1>7. scanning' \in {"copy", "done"} /\ (input' => scanning' = "copy")
  BY <1>1
<1> QED BY <1>1, <1>2, <1>3, <1>4, <1>5, <1>6, <1>7 DEF ScanInv

LEMMA ScanInvNext == ScanInv /\ [ScanNext]_scanVars => ScanInv'
<1> SUFFICES ASSUME ScanInv, [ScanNext]_scanVars PROVE ScanInv'
  OBVIOUS
<1>1. CASE Scan
  <2>1. PICK tail \in {<<>>, <<Comment>>} : tmp' = <<Comment>> \o scanned' \o tail
    BY <1>1 DEF Scan
  <2>2. scanned' \in Seq(Addresses)
    BY <1>1, ScanAssumption DEF Scan
  <2>3. TmpIsScan' /\ tmp' \in Seq(Addresses \cup {Comment})
    BY <2>1, <2>2, WrittenByScan DEF TmpIsScan
  <2> QED BY <1>1, <2>2, <2>3 DEF ScanInv, Scan, CopySoFar, OfOneScan
<1>2. CASE ScanFails
  BY <1>2 DEF ScanInv, ScanFails, TmpIsScan, CopySoFar, OfOneScan
<1>3. CASE OpenFiles
  BY <1>3, OpenFilesKeeps
<1>4. CASE CopyLine
  BY <1>4, CopyLineKeeps
<1>5. CASE FileRead
  BY <1>5, FileReadKeeps
<1>6. CASE Interrupted
  BY <1>6 DEF ScanInv, Interrupted, TmpIsScan, CopySoFar, OfOneScan
<1>7. CASE Restart
  BY <1>7 DEF ScanInv, Restart, TmpIsScan, CopySoFar, OfOneScan
<1>8. CASE UNCHANGED scanVars
  BY <1>8 DEF ScanInv, scanVars, TmpIsScan, CopySoFar, CopiedHosts, OfOneScan
<1> QED BY <1>1, <1>2, <1>3, <1>4, <1>5, <1>6, <1>7, <1>8 DEF ScanNext

(* The list the master goes on with is the beginning of one scan, however  *)
(* many runs failed, ended while they copied or could not open their files *)
(* before, and all of the last scan if this run could open both.           *)
THEOREM OneScan == ScanSpec => []HostsOfOneScan
<1>1. ScanInit => ScanInv
  BY ScanInvInit
<1>2. ScanInv /\ [ScanNext]_scanVars => ScanInv'
  BY ScanInvNext
<1>3. ScanInv => HostsOfOneScan
  BY DEF ScanInv, OfOneScan, HostsOfOneScan
<1> QED BY <1>1, <1>2, <1>3, PTL DEF ScanSpec

-----------------------------------------------------------------------------
(* The types of all of them.                                               *)

Connected ==
  /\ newSockFd \in taken \cup {Nobody}
  /\ unread \subseteq Clients

LEMMA ConnectedNext == EchoInv /\ Connected /\ [EchoNext]_echoVars => Connected'
<1> SUFFICES ASSUME EchoInv, Connected, [EchoNext]_echoVars
             PROVE  Connected'
  OBVIOUS
<1> USE DEF Connected, serverVars, clientVars
<1>1. CASE Accept
  BY <1>1 DEF Accept
<1>2. CASE AcceptFails \/ ReadMessage \/ WriteAnswer \/ ConnectionReset
  BY <1>2 DEF AcceptFails, ReadMessage, WriteAnswer, ConnectionReset
<1>3. ASSUME NEW c \in Clients,
             Connect(c) \/ Fails(c) \/ SendMessage(c) \/ ClientReads(c) \/ Quit(c)
      PROVE  Connected'
  BY <1>3 DEF Connect, Fails, SendMessage, ClientReads, ReadAnswer, ReadNothing, Quit
<1>4. CASE UNCHANGED echoVars
  BY <1>4 DEF echoVars
<1> QED
  BY <1>1, <1>2, <1>3, <1>4 DEF EchoNext, ServerStep

LEMMA EchoTypesTell == EchoInv /\ Connected => EchoTypeOK
<1> SUFFICES ASSUME EchoInv, Connected
             PROVE  EchoTypeOK
  OBVIOUS
<1>1. waiting \in Seq(Clients) /\ \A i \in 1..Len(waiting) : waiting[i] \notin taken
  BY DEF EchoInv, EchoTypes, Queue
<1>2. waiting \in Seq(Clients \ taken)
  <2>1. Len(waiting) \in Nat /\ waiting \in [1..Len(waiting) -> Clients]
    BY <1>1
  <2>2. waiting \in [1..Len(waiting) -> Clients \ taken]
    BY <1>1, <2>1
  <2> QED
    BY <2>1, <2>2
<1> QED
  BY <1>2 DEF EchoInv, EchoTypes, Connected, EchoTypeOK

LEMMA EchoTyped == EchoSpec => []EchoTypeOK
<1>1. EchoInit => EchoInv /\ Connected
  BY EchoInvInit DEF EchoInit, Connected
<1>2. EchoInv /\ Connected /\ [EchoNext]_echoVars => (EchoInv /\ Connected)'
  BY EchoInvNext, ConnectedNext
<1> QED
  BY <1>1, <1>2, EchoTypesTell, PTL DEF EchoSpec

(* Nothing is shown before the client is done.                             *)
ShownWhenDone ==
  \A e \in Exchanges :
    IF asker[e] = "done" THEN printed[e] \in Shown ELSE printed[e] = Nothing

LEMMA ShownNext ==
  ExchangeInv /\ ExchangeInv' /\ ShownWhenDone /\ [ScriptNext]_scriptVars => ShownWhenDone'
<1> SUFFICES ASSUME ExchangeInv, ExchangeInv', ShownWhenDone, [ScriptNext]_scriptVars
             PROVE  ShownWhenDone'
  OBVIOUS
<1>1. CASE UNCHANGED <<asker, printed>>
  BY <1>1 DEF ShownWhenDone
<1>2. ASSUME NEW e \in Exchanges, SlaveStep(e) \/ Finish(e) \/ Killed(e)
      PROVE  UNCHANGED <<asker, printed>>
  BY <1>2 DEF SlaveStep, Receive, CopyScript, NoScriptFile, ShellRuns, ShellFails,
     Load, SendResultBack, NoResultFile, Finish, Killed, clientSide
<1>3. ASSUME NEW e \in Exchanges, SendScript(e)
      PROVE  ShownWhenDone'
  BY <1>3 DEF SendScript, ShownWhenDone, ExchangeInv, ExchangeTypes
<1>4. ASSUME NEW e \in Exchanges, ShowResult(e)
      PROVE  ShownWhenDone'
  <2>1. PICK what \in {"result", "part", "script"} :
          /\ what = "script" <=> answer[e] = Nothing
          /\ printed' = [printed EXCEPT ![e] =
               [what |-> what, of |-> IF what = "script" THEN e ELSE answer[e]]]
    BY <1>4 DEF ShowResult
  <2>2. PICK of : of = IF what = "script" THEN e ELSE answer[e]
    OBVIOUS
  <2>3. of \in Answers
    BY <2>1, <2>2, ScriptAssumption DEF ExchangeInv, ExchangeTypes, Answers, Outputs
  <2>4. printed'[e] \in Shown
    <3>1. printed'[e] = [what |-> what, of |-> of]
      BY <2>1, <2>2 DEF ExchangeInv, ExchangeTypes
    <3> QED
      BY <2>3, <3>1 DEF Shown
  <2>5. asker' = [asker EXCEPT ![e] = "done"]
    BY <1>4 DEF ShowResult
  <2> QED
    BY <2>1, <2>4, <2>5 DEF ShownWhenDone, ExchangeInv, ExchangeTypes
<1>5. CASE UNCHANGED scriptVars
  BY <1>1, <1>5 DEF scriptVars, clientSide
<1> QED
  BY <1>1, <1>2, <1>3, <1>4, <1>5 DEF ScriptNext

LEMMA ScriptTyped == ScriptSpec => []ScriptTypeOK
<1>1. ScriptInit => ExchangeInv /\ ShownWhenDone
  BY ExchangeInvInit DEF ScriptInit, ShownWhenDone
<1>2. ExchangeInv /\ ShownWhenDone /\ [ScriptNext]_scriptVars
        => (ExchangeInv /\ ShownWhenDone)'
  BY ExchangeInvNext, ShownNext
<1>3. ExchangeInv /\ ShownWhenDone => ScriptTypeOK
  BY DEF ExchangeInv, ExchangeTypes, ShownWhenDone, ScriptTypeOK
<1> QED
  BY <1>1, <1>2, <1>3, PTL DEF ScriptSpec

LEMMA RatioTyped ==
  ASSUME NEW m \in Memories, NEW T \in Int
  PROVE  Ratio(m.free \div 1024, T) \subseteq Int \cup {NotANumber}
<1>1. PICK f \in Nat : f = m.free \div 1024
  BY FreeInMegabytes
<1>2. Precision * (T - f) \in Int /\ Precision * (f - T) \in Int
  BY SystemAssumption
<1>3. T > 0 => Rounded(Precision * (T - f), T) \subseteq Int
  BY <1>2, RoundedIsInteger
<1>4. T < 0 => Rounded(Precision * (f - T), -T) \subseteq Int
  <2> SUFFICES ASSUME T < 0 PROVE Rounded(Precision * (f - T), -T) \subseteq Int
    OBVIOUS
  <2>1. -T \in Nat \ {0}
    OBVIOUS
  <2> QED BY <1>2, <2>1, RoundedIsInteger
<1>5. T = 0 \/ T > 0 \/ (T < 0 /\ ~ T > 0)
  OBVIOUS
<1> QED BY <1>1, <1>3, <1>4, <1>5 DEF Ratio

LEMMA SystemTypesNext == SystemTypeOK /\ [SystemNext]_systemVars => SystemTypeOK'
<1> SUFFICES ASSUME SystemTypeOK, [SystemNext]_systemVars
             PROVE  SystemTypeOK'
  OBVIOUS
<1> USE DEF SystemTypeOK
<1>1. CASE PrepareSystemSpecDS
  <2>1. is_hyperthreaded(machine) \in BOOLEAN
    BY Zenon DEF is_hyperthreaded
  <2>2. hardware_concurrency(machine) \in Nat
    <3>1. \A s, c, t \in Nat : s * c * t \in Nat
      OBVIOUS
    <3>2. machine.sockets \in Nat /\ machine.cores \in Nat /\ machine.threads \in Nat
      BY SystemAssumption
    <3> QED
      BY <3>1, <3>2 DEF hardware_concurrency
  <2>3. TotalMemory(memory.total) \subseteq Int
    BY TotalIsInteger
  <2>4. specs' \in [is_hyperthreaded : BOOLEAN, number_of_cores : Nat, total_memory : Int]
    BY <1>1, <2>1, <2>2, <2>3 DEF PrepareSystemSpecDS
  <2> QED
    BY <1>1, <2>4 DEF PrepareSystemSpecDS
<1>2. CASE GetMemoryUtilization
  <2>1. total_memory' \in Int
    BY <1>2, TotalIsInteger DEF GetMemoryUtilization
  <2>2. memory_util' \in Int \cup {NotANumber}
    BY <1>2, <2>1, RatioTyped DEF GetMemoryUtilization
  <2> QED
    BY <1>2, <2>1, <2>2 DEF GetMemoryUtilization
<1>3. CASE OpenCpuUtil
  <2>1. opened' \in BOOLEAN
    BY <1>3, Zenon DEF OpenCpuUtil
  <2> QED
    BY <1>3, <2>1 DEF OpenCpuUtil
<1>4. CASE ScriptWrites \/ ScriptEmpties \/ ScriptMissing
  BY <1>4 DEF ScriptWrites, ScriptEmpties, ScriptMissing
<1>5. CASE ReadCpuUtil
  <2>1. utilization' \in 0..100
    <3>1. 0 \in 0..100 /\ Usages \subseteq 0..100
      BY SystemAssumption
    <3> QED
      BY <1>5, <3>1, Zenon DEF ReadCpuUtil
  <2>2. /\ measuring' = "idle" /\ opened' = FALSE
        /\ UNCHANGED <<cpu_util, usage, memory, machine, specs, total_memory, memory_util, scriptRan>>
    BY <1>5 DEF ReadCpuUtil
  <2> QED
    BY <2>1, <2>2
<1>6. CASE Work
  <2>1. usage' \in Usages /\ memory' \in Memories
    BY <1>6 DEF Work
  <2>2. UNCHANGED <<measuring, cpu_util, opened, machine, specs, utilization,
                    total_memory, memory_util, scriptRan>>
    BY <1>6 DEF Work
  <2> QED
    BY <2>1, <2>2, Zenon
<1>7. CASE UNCHANGED systemVars
  BY <1>7 DEF systemVars
<1> QED
  BY <1>1, <1>2, <1>3, <1>4, <1>5, <1>6, <1>7 DEF SystemNext

LEMMA SystemTyped == SystemSpecification => []SystemTypeOK
<1>1. ASSUME SystemInit
      PROVE  SystemTypeOK
  <2>1. specs \in [is_hyperthreaded : BOOLEAN, number_of_cores : Nat, total_memory : Int]
    BY <1>1 DEF SystemInit
  <2>2. measuring \in {"idle", "open", "script", "read"}
    BY <1>1 DEF SystemInit
  <2>3. utilization \in 0..100 /\ total_memory \in Int /\ memory_util \in Int
    BY <1>1 DEF SystemInit
  <2> QED
    BY <1>1, <2>1, <2>2, <2>3 DEF SystemInit, SystemTypeOK
<1> QED
  BY <1>1, SystemTypesNext, PTL DEF SystemSpecification

LEMMA ScanTyped == ScanSpec => []ScanTypeOK
<1>1. ScanInv => ScanTypeOK
  BY DEF ScanInv, CopySoFar, ScanTypeOK
<1> QED
  BY <1>1, ScanInvInit, ScanInvNext, PTL DEF ScanSpec

(* What holds of each part alone holds of it beside the others.            *)
LEMMA EachAlone ==
  Spec => EchoSpec /\ ScriptSpec /\ SystemSpecification /\ ScanSpec
<1>1. Init => EchoInit /\ ScriptInit /\ SystemInit /\ ScanInit
  BY DEF Init
<1>2. [Next]_allVars => [EchoNext]_echoVars
  BY DEF Next, allVars
<1>3. [Next]_allVars => [ScriptNext]_scriptVars
  BY DEF Next, allVars
<1>4. [Next]_allVars => [SystemNext]_systemVars
  BY DEF Next, allVars
<1>5. [Next]_allVars => [ScanNext]_scanVars
  BY DEF Next, allVars
<1> QED
  BY <1>1, <1>2, <1>3, <1>4, <1>5, PTL
     DEF Spec, EchoSpec, ScriptSpec, SystemSpecification, ScanSpec

(* The variables of the four parts keep their types.                       *)
THEOREM TypesKept == Spec => []TypeOK
  BY EachAlone, EchoTyped, ScriptTyped, SystemTyped, ScanTyped, PTL DEF TypeOK
=============================================================================
