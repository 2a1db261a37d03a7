------------------------- MODULE SlaveDaemon_proofs -------------------------
(***************************************************************************)
(* Proofs about the slave daemon, for every set of descriptors, files and  *)
(* requests: types, the sockets of a round, the bound on the rounds of a   *)
(* life, the contract of SlaveContract, and the files that may hold text.  *)
(***************************************************************************)
EXTENDS SlaveDaemon, FiniteSetTheorems, TLAPS

-----------------------------------------------------------------------------
(* Processing a request keeps the types of the store and of the response   *)
(* (processRequestFromMaster).                                             *)
OutcomeType == [throws : BOOLEAN, store : Store, response : Responses]

LEMMA AnswerType ==
  ASSUME NEW st \in Store, NEW type \in 0..4, NEW results \in Seq(ResultTexts)
  PROVE  Answer(st, type, results) \in OutcomeType
BY DEF Answer, ResponseType, Responses, OutcomeType

LEMMA ResultsType ==
  /\ <<>> \in Seq(ResultTexts)
  /\ <<"">> \in Seq(ResultTexts)
  /\ <<"success">> \in Seq(ResultTexts)
<1>1. <<>> \in Seq(ResultTexts)
  OBVIOUS
<1>2. \A r \in ResultTexts : <<r>> \in Seq(ResultTexts)
  OBVIOUS
<1>3. "" \in ResultTexts /\ "success" \in ResultTexts
  BY DEF ResultTexts
<1> QED
  BY <1>1, <1>2, <1>3, Zenon

LEMMA ThrowType ==
  ASSUME NEW st \in Store
  PROVE  Throw(st) \in OutcomeType
BY DEF Throw, NoResponse, Responses, OutcomeType

LEMMA REQType ==
  ASSUME NEW args \in Seq(Lines), NEW st \in Store
  PROVE  ExecuteREQ(args, st) \subseteq OutcomeType
<1> DEFINE results == [k \in DOMAIN args |-> CallFunctionByID(FunctionID(args[k]))]
<1>1. \A id : CallFunctionByID(id) \in ResultTexts
  BY DEF CallFunctionByID, ResultTexts
<1>2. results \in Seq(ResultTexts)
  <2>1. Len(args) \in Nat /\ DOMAIN args = 1..Len(args)
    OBVIOUS
  <2>2. \A k \in 1..Len(args) : results[k] \in ResultTexts
    BY <1>1, <2>1
  <2> QED
    BY <2>1, <2>2
<1>3. Answer(st, 0, results) \in OutcomeType
  BY <1>2, AnswerType
<1> QED
  BY <1>3 DEF ExecuteREQ

LEMMA FILEType ==
  ASSUME NEW c \in Commands, c.header \in {"FILE", "unknown"}, NEW st \in Store
  PROVE  ExecuteFILE(c.args, st) \subseteq OutcomeType
<1>1. CASE Len(c.args) < 2
  BY <1>1, ThrowType DEF ExecuteFILE
<1>2. CASE ~ (Len(c.args) < 2)
  <2> DEFINE name == Head(c.args[2])
  <2>1. c.args \in Seq(Lines) /\ Len(c.args) \in Nat
    BY CommandAssumption DEF Request
  <2>2. name \in FileNames
    BY <1>2, <2>1, CommandAssumption DEF NamesAFile
  <2>3. SUFFICES ASSUME NEW made \in CreateFile(st.disk, name)
                 PROVE  Answer([st EXCEPT !.file_name = name, !.disk = made.disk], 2,
                               IF made.ok THEN <<"success">> ELSE <<>>) \in OutcomeType
    BY <1>2 DEF ExecuteFILE
  <2>4. made.disk \in [FileNames -> Contents]
    BY <2>2 DEF CreateFile, Store, Contents
  <2>5. [st EXCEPT !.file_name = name, !.disk = made.disk] \in Store
    BY <2>2, <2>4 DEF Store
  <2>6. (IF made.ok THEN <<"success">> ELSE <<>>) \in Seq(ResultTexts)
    BY ResultsType
  <2>7. \A s \in Store, r \in Seq(ResultTexts) : Answer(s, 2, r) \in OutcomeType
    BY AnswerType
  <2> QED
    BY <2>5, <2>6, <2>7, Zenon
<1> QED
  BY <1>1, <1>2

LEMMA JOBType ==
  ASSUME NEW args \in Seq(Lines), NEW st \in Store
  PROVE  ExecuteJOB(args, st) \subseteq OutcomeType
<1>1. CASE Len(args) = 0 \/ Len(args[1]) < 2
  BY <1>1, ThrowType DEF ExecuteJOB
<1>2. CASE ~ (Len(args) = 0 \/ Len(args[1]) < 2)
  <2>1. args[1] \in Seq(Words) /\ Len(args[1]) \in Nat
    BY <1>2 DEF Lines
  <2>2. args[1][1] \in Words /\ args[1][2] \in Words
    BY <1>2, <2>1
  <2>3. PyFile[args[1][1]] \in FileNames
    BY <2>2, CommandAssumption
  <2> DEFINE Run(made, copied) ==
               { Answer([st EXCEPT !.disk = copied, !.result = output], 3, <<"">>) :
                   output \in ExecuteJob(copied, st.result, st.file_name) }
             Copy(made) == UNION { Run(made, copied) :
                   copied \in CopyJobToFile(made.disk, st.file_name, args[1][2]) }
  <2>4. ASSUME NEW made \in CreateFile(st.disk, PyFile[args[1][1]]),
               NEW copied \in CopyJobToFile(made.disk, st.file_name, args[1][2])
        PROVE  Run(made, copied) \subseteq OutcomeType
    <3>1. SUFFICES ASSUME NEW output \in ExecuteJob(copied, st.result, st.file_name)
                   PROVE  Answer([st EXCEPT !.disk = copied, !.result = output],
                                 3, <<"">>) \in OutcomeType
      OBVIOUS
    <3>2. made.disk \in [FileNames -> Contents]
      BY <2>3 DEF CreateFile, Store, Contents
    <3>3. copied \in [FileNames -> Contents]
      BY <2>2, <3>2 DEF CopyJobToFile, Store, Contents
    <3>4. output \in Contents
      BY <3>3 DEF ExecuteJob, Store, Contents
    <3>5. [st EXCEPT !.disk = copied, !.result = output] \in Store
      BY <3>3, <3>4 DEF Store
    <3>6. \A s \in Store, r \in Seq(ResultTexts) : Answer(s, 3, r) \in OutcomeType
      BY AnswerType
    <3> QED
      BY <3>5, <3>6, ResultsType, Zenon
  <2>5. \A made \in CreateFile(st.disk, PyFile[args[1][1]]) :
          Copy(made) \subseteq OutcomeType
    BY <2>4
  <2>6. ExecuteJOB(args, st)
          = UNION { Copy(made) : made \in CreateFile(st.disk, PyFile[args[1][1]]) }
    BY <1>2 DEF ExecuteJOB
  <2> QED
    BY <2>5, <2>6
<1> QED
  BY <1>1, <1>2

LEMMA OutcomesType ==
  ASSUME NEW c \in Commands \cup {NoCommand}, NEW st \in Store
  PROVE  Outcomes(c, st) \subseteq OutcomeType
<1>1. CASE ~ c.complete
  BY <1>1, ThrowType DEF Outcomes
<1>2. CASE c.complete
  <2>1. c \in Commands /\ c.args \in Seq(Lines) /\ c.header \in Headers
    BY <1>2, CommandAssumption DEF NoCommand, Request
  <2>2. SUFFICES ASSUME NEW type \in CommandTypes(c.header)
                 PROVE  Execute(type, c.args, st) \subseteq OutcomeType
    BY <1>2 DEF Outcomes
  <2>3. type \in 0..4
    BY <2>1 DEF CommandTypes, Headers
  <2>4. CASE type = 0
    BY <2>1, <2>4, REQType DEF Execute
  <2>5. CASE type = 2
    <3>1. c.header \in {"FILE", "unknown"}
      BY <2>1, <2>5 DEF CommandTypes, Headers
    <3> QED
      BY <2>1, <2>5, <3>1, FILEType DEF Execute
  <2>6. CASE type = 3
    BY <2>1, <2>6, JOBType DEF Execute
  <2>7. CASE type \in {1, 4}
    <3>1. Answer(st, type, <<>>) \in OutcomeType
      BY <2>3, AnswerType, ResultsType
    <3> QED
      BY <2>7, <3>1 DEF Execute
  <2> QED
    BY <2>3, <2>4, <2>5, <2>6, <2>7
<1> QED
  BY <1>1, <1>2

-----------------------------------------------------------------------------
(* Every variable keeps its type (main of slave_main.cpp).                 *)

LEMMA NoResponseType == NoResponse \in Responses
  BY ResultsType DEF NoResponse, Responses

LEMMA DieType ==
  ASSUME Die
  PROVE  /\ pc' = "down"
         /\ open' \in SUBSET Fds
         /\ {original_socket', socket_fd', result_socket', bound'} \subseteq Fds \cup {NoFd}
         /\ lingering' \in BOOLEAN
         /\ command' \in Commands \cup {NoCommand}
         /\ response' \in Responses
         /\ right_port' \in BOOLEAN
         /\ rounds' \in Nat
BY NoResponseType DEF Die

LEMMA TypeInit == Init => TypeOK
<1> SUFFICES ASSUME Init
             PROVE  TypeOK
  OBVIOUS
<1>1. store \in Store
  BY DEF Init, Store, Contents
<1> QED
  BY <1>1, NoResponseType DEF Init, TypeOK

LEMMA TypeStep == TypeOK /\ [Next]_vars => TypeOK'
<1> SUFFICES ASSUME TypeOK, [Next]_vars
             PROVE  TypeOK'
  OBVIOUS
<1> USE DEF sockets, request, history, Serving, Reporting
<1>1. CASE Start
  BY <1>1 DEF TypeOK, Start, Store
<1>2. CASE Crash
  BY <1>2, DieType DEF TypeOK, Crash
<1>3. CASE SocketFails
  BY <1>3 DEF TypeOK, SocketFails
<1>4. CASE BindFails
  BY <1>4 DEF TypeOK, BindFails
<1>5. CASE Listen
  BY <1>5 DEF TypeOK, Listen
<1>6. CASE AcceptFails
  BY <1>6 DEF TypeOK, AcceptFails
<1>7. CASE Accept
  BY <1>7 DEF TypeOK, Accept
<1>8. CASE Read
  BY <1>8 DEF TypeOK, Read
<1>9. CASE ReadFails
  BY <1>9 DEF TypeOK, ReadFails
<1>10. CASE Process
  <2>1. PICK o \in Outcomes(command, store) :
          /\ store' = o.store
          /\ announced' = announced \cup ({o.store.file_name} \ {NoName})
          /\ \/ Die
             \/ /\ response' = o.response
                /\ pc' = "write"
                /\ UNCHANGED <<sockets, command, right_port, rounds>>
    BY <1>10 DEF Process
  <2>2. o \in OutcomeType
    BY <2>1, OutcomesType DEF TypeOK
  <2>3. store' \in Store /\ announced' \in SUBSET FileNames /\ o.response \in Responses
    BY <2>1, <2>2 DEF OutcomeType, Store, TypeOK
  <2>4. CASE Die
    BY <2>3, <2>4, DieType DEF TypeOK
  <2>5. CASE ~ Die
    BY <2>1, <2>3, <2>5 DEF TypeOK
  <2> QED
    BY <2>4, <2>5
<1>11. CASE WriteFails
  BY <1>11 DEF TypeOK, WriteFails
<1>12. CASE WriteAndClose
  BY <1>12 DEF TypeOK, WriteAndClose
<1>13. CASE ResultSocket
  BY <1>13 DEF TypeOK, ResultSocket
<1>14. CASE NoResultSocket
  BY <1>14, DieType DEF TypeOK, NoResultSocket
<1>15. CASE Resolve
  BY <1>15 DEF TypeOK, Resolve
<1>16. CASE ConnectFails
  BY <1>16 DEF TypeOK, ConnectFails
<1>17. CASE Connect
  BY <1>17 DEF TypeOK, Connect
<1>18. CASE SendResult
  BY <1>18 DEF TypeOK, SendResult
<1>19. CASE LingerExpires
  BY <1>19 DEF TypeOK, LingerExpires
<1>20. CASE UNCHANGED vars
  BY <1>20 DEF TypeOK, vars
<1> QED
  BY <1>1, <1>2, <1>3, <1>4, <1>5, <1>6, <1>7, <1>8, <1>9, <1>10, <1>11, <1>12,
     <1>13, <1>14, <1>15, <1>16, <1>17, <1>18, <1>19, <1>20
     DEF Next, Daemon, Network

(* The daemon's variables keep their types in every behaviour.             *)
THEOREM TypeCorrect == Spec => []TypeOK
<1> QED
  BY TypeInit, TypeStep, PTL DEF Spec

-----------------------------------------------------------------------------
(* Sets of descriptors are finite, and their sizes follow what the system  *)
(* calls do: socket and accept add one, the closes of a round remove two.  *)

LEMMA OpenFinite ==
  ASSUME TypeOK
  PROVE  IsFiniteSet(open) /\ Cardinality(open) \in Nat
BY FdAssumption, FS_Subset, FS_CardinalityType DEF TypeOK

LEMMA OpenOne ==
  ASSUME TypeOK, NEW fd \in Fds \ open
  PROVE  Cardinality(open \cup {fd}) = Cardinality(open) + 1
BY OpenFinite, FS_AddElement

LEMMA CloseTwo ==
  ASSUME TypeOK, NEW a \in open, NEW b \in open, a # b
  PROVE  Cardinality(open \ {a, b}) = Cardinality(open) - 2
<1>1. /\ IsFiniteSet(open \ {a})
      /\ Cardinality(open \ {a}) = Cardinality(open) - 1
  BY OpenFinite, FS_RemoveElement
<1>2. Cardinality((open \ {a}) \ {b}) = Cardinality(open \ {a}) - 1
  BY <1>1, FS_RemoveElement
<1>3. (open \ {a}) \ {b} = open \ {a, b}
  OBVIOUS
<1> QED
  BY <1>1, <1>2, <1>3, OpenFinite

LEMMA DieInv ==
  ASSUME Die
  PROVE  RoundSockets' /\ Ledger' /\ AtRest'
<1>1. Cardinality({}) = 0
  BY FS_EmptySet
<1> QED
  BY <1>1 DEF Die, RoundSockets, Ledger, AtRest, Transient, Serving

LEMMA InvInit == Init => IInv
<1> SUFFICES ASSUME Init
             PROVE  IInv
  OBVIOUS
<1>1. Cardinality({}) = 0
  BY FS_EmptySet
<1> QED
  BY <1>1, TypeInit DEF Init, IInv, RoundSockets, Ledger, AtRest, Transient, Serving

LEMMA InvStep == IInv /\ [Next]_vars => IInv'
<1> SUFFICES ASSUME IInv, [Next]_vars
             PROVE  (RoundSockets /\ Ledger /\ AtRest)'
  BY TypeStep DEF IInv
<1> USE DEF sockets, request, history, Serving, RoundSockets, Ledger, AtRest, Transient
<1>a. TypeOK
  BY DEF IInv
<1>b. rounds \in Nat /\ Cardinality(open) \in Nat
  BY <1>a, OpenFinite DEF TypeOK
<1>c. /\ pc \in Serving => original_socket \in open
      /\ NoFd \notin open
  BY <1>a, FdAssumption DEF IInv, TypeOK
<1>1. CASE Start
  BY <1>1, <1>b DEF Start, IInv
<1>2. CASE Crash
  BY <1>2, DieInv DEF Crash
<1>3. CASE SocketFails
  BY <1>3, <1>b DEF SocketFails, IInv
<1>4. CASE BindFails
  BY <1>4, <1>a, <1>b, OpenOne DEF BindFails, IInv
<1>5. CASE Listen
  BY <1>5, <1>a, <1>b, OpenOne, FdAssumption DEF Listen, IInv
<1>6. CASE AcceptFails
  BY <1>6, <1>b DEF AcceptFails, IInv
<1>7. CASE Accept
  BY <1>7, <1>a, <1>b, <1>c, OpenOne DEF Accept, IInv
<1>8. CASE Read
  BY <1>8, <1>b DEF Read, IInv
<1>9. CASE ReadFails
  BY <1>9, <1>b DEF ReadFails, IInv
<1>10. CASE Process
  <2>1. \/ Die
        \/ pc = "process" /\ pc' = "write" /\ UNCHANGED <<sockets, rounds>>
    BY <1>10 DEF Process
  <2> QED
    BY <2>1, <1>b, DieInv DEF IInv
<1>11. CASE WriteFails
  BY <1>11, <1>b DEF WriteFails, IInv
<1>12. CASE WriteAndClose
  <2>1. Cardinality(open') = Cardinality(open) - 2
    BY <1>12, <1>a, <1>c, CloseTwo DEF WriteAndClose, IInv
  <2>2. rounds + 2 <= Cardinality(open)
    BY <1>12 DEF WriteAndClose, IInv
  <2> QED
    BY <1>12, <1>b, <1>c, <2>1, <2>2 DEF WriteAndClose, IInv
<1>13. CASE ResultSocket
  BY <1>13, <1>a, <1>b, OpenOne DEF ResultSocket, IInv
<1>14. CASE NoResultSocket
  BY <1>14, DieInv DEF NoResultSocket
<1>15. CASE Resolve
  BY <1>15, <1>b DEF Resolve, IInv
<1>16. CASE ConnectFails
  BY <1>16, <1>b DEF ConnectFails, IInv
<1>17. CASE Connect
  BY <1>17, <1>b DEF Connect, IInv
<1>18. CASE SendResult
  BY <1>18, <1>b DEF SendResult, IInv
<1>19. CASE LingerExpires
  BY <1>19, <1>b DEF LingerExpires, IInv
<1>20. CASE UNCHANGED vars
  BY <1>20, <1>b DEF vars, IInv
<1> QED
  BY <1>1, <1>2, <1>3, <1>4, <1>5, <1>6, <1>7, <1>8, <1>9, <1>10, <1>11, <1>12,
     <1>13, <1>14, <1>15, <1>16, <1>17, <1>18, <1>19, <1>20
     DEF Next, Daemon, Network

LEMMA Invariance == Spec => []IInv
<1> QED
  BY InvInit, InvStep, PTL DEF Spec

(* While a request is served, the two sockets main closes at the end of    *)
(* the round are the listener that owns PORT and another open descriptor.  *)
THEOREM SocketsOfARound == Spec => []RoundSockets
<1>1. IInv => RoundSockets
  BY DEF IInv
<1> QED
  BY <1>1, Invariance, PTL

(* The rounds of one life of the daemon are bounded by its descriptors.    *)
THEOREM BoundedService == Spec => []ServiceBound
<1>1. IInv => ServiceBound
  <2> SUFFICES ASSUME IInv
               PROVE  ServiceBound
    OBVIOUS
  <2>1. rounds \in Nat /\ Cardinality(open) \in Nat
    BY OpenFinite DEF IInv, TypeOK
  <2> QED
    BY <2>1 DEF IInv, Ledger, Transient, ServiceBound
<1> QED
  BY <1>1, Invariance, PTL

-----------------------------------------------------------------------------
(* Every step of the daemon is a step of the contract or leaves its        *)
(* variables alone.                                                        *)

LEMMA BudgetType ==
  ASSUME TypeOK, Ledger
  PROVE  /\ Cardinality(Fds) \in Nat
         /\ rounds \in Nat
         /\ rounds + Transient <= Cardinality(Fds)
<1>1. /\ Cardinality(Fds) \in Nat
      /\ Cardinality(open) <= Cardinality(Fds)
  BY FdAssumption, FS_Subset, FS_CardinalityType DEF TypeOK
<1> QED
  BY <1>1, OpenFinite DEF TypeOK, Ledger, Transient

LEMMA DieEnds ==
  ASSUME TypeOK, Die, pc # "down"
  PROVE  Contract!End
<1>1. Phase # "down" /\ Phase' = "down"
  BY DEF Die, Phase, TypeOK, Serving, Reporting
<1>2. Cardinality(Fds) - rounds' = Cardinality(Fds) /\ ~ Abandoned'
  BY FdAssumption, FS_CardinalityType DEF Die, Abandoned
<1> QED
  BY <1>1, <1>2 DEF Contract!End

LEMMA ContractInit == Init => Contract!Init
<1> SUFFICES ASSUME Init
             PROVE  Contract!Init
  OBVIOUS
<1>1. Cardinality(Fds) \in Nat
  BY FdAssumption, FS_CardinalityType
<1> QED
  BY <1>1 DEF Init, Contract!Init, Phase, Abandoned

LEMMA ContractStep == IInv /\ IInv' /\ [Next]_vars => [Contract!Next]_(Contract!vars)
<1> SUFFICES ASSUME IInv, IInv', [Next]_vars
             PROVE  Contract!Next \/ UNCHANGED Contract!vars
  OBVIOUS
<1> USE DEF sockets, request, history, Serving, Phase, Abandoned, Contract!vars
<1>a. TypeOK /\ RoundSockets /\ AtRest
  BY DEF IInv
<1>b. Cardinality(Fds) \in Nat /\ rounds \in Nat
  BY BudgetType DEF IInv
<1>1. CASE Start
  <2>1. Contract!Start
    BY <1>1, <1>a, <1>b DEF Start, AtRest, Contract!Start
  <2> QED
    BY <2>1 DEF Contract!Next
<1>2. CASE Crash
  BY <1>2, <1>a, DieEnds DEF Crash, Contract!Next
<1>3. CASE SocketFails
  BY <1>3 DEF SocketFails, Contract!Next, Contract!Owe
<1>4. CASE BindFails
  BY <1>4 DEF BindFails, Contract!Next, Contract!Owe
<1>5. CASE Listen
  BY <1>5 DEF Listen, PortFree
<1>6. CASE AcceptFails
  BY <1>6, <1>a DEF AcceptFails, RoundSockets, Contract!Next, Contract!Owe
<1>7. CASE Accept
  BY <1>7 DEF Accept, Contract!Next, Contract!Serve
<1>8. CASE Read
  BY <1>8 DEF Read
<1>9. CASE ReadFails
  BY <1>9, <1>a DEF ReadFails, RoundSockets, Contract!Next, Contract!Owe
<1>10. CASE Process
  <2>1. \/ Die
        \/ pc' = "write" /\ UNCHANGED <<sockets, rounds>>
    BY <1>10 DEF Process
  <2>2. pc = "process"
    BY <1>10 DEF Process
  <2>3. CASE Die
    BY <1>a, <2>2, <2>3, DieEnds DEF Contract!Next
  <2>4. CASE pc' = "write" /\ UNCHANGED <<sockets, rounds>>
    BY <2>2, <2>4
  <2> QED
    BY <2>1, <2>3, <2>4
<1>11. CASE WriteFails
  BY <1>11, <1>a DEF WriteFails, RoundSockets, Contract!Next, Contract!Owe
<1>12. CASE WriteAndClose
  BY <1>12, <1>a DEF WriteAndClose, RoundSockets, Contract!Next, Contract!Owe
<1>13. CASE ResultSocket
  <2>1. /\ rounds <= Cardinality(open)
        /\ Cardinality(open') = Cardinality(open) + 1
        /\ rounds' = rounds + 1
    BY <1>13, <1>a, <1>b, OpenOne, OpenFinite
       DEF ResultSocket, IInv, Ledger, Transient
  <2>2. Cardinality(open') <= Cardinality(Fds)
    BY FdAssumption, FS_Subset DEF IInv, TypeOK
  <2>3. rounds' <= Cardinality(Fds) /\ rounds' = rounds + 1
    BY <2>1, <2>2, <1>a, <1>b, OpenFinite
  <2>4. Contract!BeginReport
    BY <1>13, <1>b, <2>3 DEF ResultSocket, Contract!BeginReport
  <2> QED
    BY <2>4 DEF Contract!Next
<1>14. CASE NoResultSocket
  BY <1>14, <1>a, DieEnds DEF NoResultSocket, Contract!Next
<1>15. CASE Resolve
  BY <1>15 DEF Resolve
<1>16. CASE ConnectFails
  BY <1>16 DEF ConnectFails
<1>17. CASE Connect
  BY <1>17 DEF Connect
<1>18. CASE SendResult
  BY <1>18 DEF SendResult, Contract!Next, Contract!EndReport
<1>19. CASE LingerExpires
  BY <1>19 DEF LingerExpires
<1>20. CASE UNCHANGED vars
  BY <1>20 DEF vars
<1> QED
  BY <1>1, <1>2, <1>3, <1>4, <1>5, <1>6, <1>7, <1>8, <1>9, <1>10, <1>11, <1>12,
     <1>13, <1>14, <1>15, <1>16, <1>17, <1>18, <1>19, <1>20
     DEF Next, Daemon, Network

(* The daemon implements the contract: at most one request between two     *)
(* reports, a budget of reports, and no service after a listener is lost.  *)
THEOREM ImplementsContract == Spec => KeepsContract
<1> QED
  BY ContractInit, ContractStep, Invariance, PTL
     DEF Spec, KeepsContract, Contract!Spec

(* An abandoned listener stays abandoned until the process ends.           *)
THEOREM AbandonedStays == Spec => AbandonedForGood
<1>1. ASSUME IInv, [Next]_vars
      PROVE  Abandoned /\ pc' # "down" => Abandoned'
  <2> SUFFICES ASSUME Abandoned, pc' # "down"
               PROVE  Abandoned'
    OBVIOUS
  <2> USE DEF Abandoned, Serving
  <2>1. CASE Start \/ Crash
    BY <1>1, <2>1 DEF Start, Crash, Die, IInv, AtRest
  <2>2. CASE SocketFails \/ BindFails \/ Listen
    BY <2>2 DEF SocketFails, BindFails, Listen, PortFree
  <2>3. CASE Accept \/ AcceptFails \/ Read \/ ReadFails \/ LingerExpires
    BY <2>3 DEF Accept, AcceptFails, Read, ReadFails, LingerExpires
  <2>4. CASE Process \/ WriteFails \/ WriteAndClose
    BY <2>4 DEF Process, WriteFails, WriteAndClose
  <2>5. CASE ResultSocket \/ NoResultSocket
    BY <2>5 DEF ResultSocket, NoResultSocket, Die
  <2>6. CASE Resolve \/ ConnectFails \/ Connect \/ SendResult
    BY <2>6 DEF Resolve, ConnectFails, Connect, SendResult, sockets
  <2>7. CASE UNCHANGED vars
    BY <2>7 DEF vars, sockets
  <2> QED
    BY <1>1, <2>1, <2>2, <2>3, <2>4, <2>5, <2>6, <2>7 DEF Next, Daemon, Network
<1> QED
  BY <1>1, Invariance, PTL DEF Spec, AbandonedForGood
-----------------------------------------------------------------------------
(* Which files may hold a text: the name a job's text is copied to is one  *)
(* that a FILE request has set in this life, so it has been announced.     *)
Announces(named, st) ==
  /\ st.file_name \in named \cup {NoName}
  /\ \A f \in FileNames \ named : st.disk[f] \in {Absent, Empty}

NowNamed(named, st) == named \cup ({st.file_name} \ {NoName})

LEMMA CreateAnnounces ==
  ASSUME NEW disk \in [FileNames -> Contents], NEW name \in FileNames,
         NEW made \in CreateFile(disk, name)
  PROVE  /\ made.disk \in [FileNames -> Contents]
         /\ \A f \in FileNames : made.disk[f] \in {disk[f], Empty}
<1>1. made.disk = disk \/ made.disk = [disk EXCEPT ![name] = Empty]
  <2> DEFINE emptied == [disk EXCEPT ![name] = Empty]
  <2>1. made = [ok |-> TRUE, disk |-> emptied] \/ made = [ok |-> FALSE, disk |-> disk]
    BY DEF CreateFile
  <2> HIDE DEF emptied
  <2>2. made.disk = emptied \/ made.disk = disk
    BY <2>1
  <2> QED
    BY <2>2 DEF emptied
<1> QED
  BY <1>1 DEF Contents

LEMMA FILEAnnounces ==
  ASSUME NEW c \in Commands, c.header \in {"FILE", "unknown"}, NEW st \in Store,
         NEW named, Announces(named, st), NEW o \in ExecuteFILE(c.args, st)
  PROVE  Announces(NowNamed(named, o.store), o.store)
<1>1. CASE Len(c.args) < 2
  BY <1>1 DEF ExecuteFILE, Throw, Announces, NowNamed
<1>2. CASE ~ (Len(c.args) < 2)
  <2> DEFINE name == Head(c.args[2])
  <2>1. name \in FileNames
    <3>1. c.args \in Seq(Lines) /\ Len(c.args) \in Nat
      BY CommandAssumption DEF Request
    <3> QED
      BY <1>2, <3>1, CommandAssumption DEF NamesAFile
  <2>2. PICK made \in CreateFile(st.disk, name) :
          o = Answer([st EXCEPT !.file_name = name, !.disk = made.disk], 2,
                     IF made.ok THEN <<"success">> ELSE <<>>)
    BY <1>2 DEF ExecuteFILE
  <2>3. o.store.file_name = name /\ o.store.disk = made.disk
    BY <2>2 DEF Answer, Store
  <2>4. \A f \in FileNames : made.disk[f] \in {st.disk[f], Empty}
    BY <2>1, CreateAnnounces DEF Store
  <2>5. name # NoName
    BY <2>1, CommandAssumption
  <2> QED
    BY <2>3, <2>4, <2>5 DEF Announces, NowNamed
<1> QED
  BY <1>1, <1>2

LEMMA JOBAnnounces ==
  ASSUME NEW args \in Seq(Lines), NEW st \in Store,
         NEW named, Announces(named, st), NEW o \in ExecuteJOB(args, st)
  PROVE  Announces(NowNamed(named, o.store), o.store)
<1>1. CASE Len(args) = 0 \/ Len(args[1]) < 2
  <2>1. o = Throw(st)
    BY <1>1 DEF ExecuteJOB
  <2>2. o.store = st
    BY <2>1 DEF Throw
  <2> QED
    BY <2>2 DEF Announces, NowNamed
<1>2. CASE ~ (Len(args) = 0 \/ Len(args[1]) < 2)
  <2>1. args[1] \in Seq(Words) /\ Len(args[1]) \in Nat
    BY <1>2 DEF Lines
  <2>2. args[1][1] \in Words /\ PyFile[args[1][1]] \in FileNames
    BY <1>2, <2>1, CommandAssumption
  <2>3. PICK made \in CreateFile(st.disk, PyFile[args[1][1]]) :
          \E copied \in CopyJobToFile(made.disk, st.file_name, args[1][2]) :
            \E output \in ExecuteJob(copied, st.result, st.file_name) :
              o = Answer([st EXCEPT !.disk = copied, !.result = output], 3, <<"">>)
    <3> DEFINE Run(made, copied) ==
                 { Answer([st EXCEPT !.disk = copied, !.result = output], 3, <<"">>) :
                     output \in ExecuteJob(copied, st.result, st.file_name) }
               Copy(made) == UNION { Run(made, copied) :
                     copied \in CopyJobToFile(made.disk, st.file_name, args[1][2]) }
    <3>1. ExecuteJOB(args, st)
            = UNION { Copy(made) : made \in CreateFile(st.disk, PyFile[args[1][1]]) }
      BY <1>2 DEF ExecuteJOB
    <3>2. PICK made \in CreateFile(st.disk, PyFile[args[1][1]]) : o \in Copy(made)
      BY <3>1
    <3>3. PICK copied \in CopyJobToFile(made.disk, st.file_name, args[1][2]) :
            o \in Run(made, copied)
      BY <3>2
    <3> QED
      BY <3>3
  <2>4. PICK copied \in CopyJobToFile(made.disk, st.file_name, args[1][2]) :
          \E output \in ExecuteJob(copied, st.result, st.file_name) :
            o = Answer([st EXCEPT !.disk = copied, !.result = output], 3, <<"">>)
    BY <2>3
  <2>5. o.store.file_name = st.file_name /\ o.store.disk = copied
    <3>1. PICK output \in ExecuteJob(copied, st.result, st.file_name) :
            o = Answer([st EXCEPT !.disk = copied, !.result = output], 3, <<"">>)
      BY <2>4
    <3>2. o.store = [st EXCEPT !.disk = copied, !.result = output]
      BY <3>1 DEF Answer
    <3> QED
      BY <3>2 DEF Store
  <2>6. /\ made.disk \in [FileNames -> Contents]
        /\ \A f \in FileNames : made.disk[f] \in {st.disk[f], Empty}
    BY <2>2, CreateAnnounces DEF Store
  <2>7. \A f \in FileNames : f # st.file_name => copied[f] = made.disk[f]
    BY <2>6 DEF CopyJobToFile
  <2>8. \A f \in FileNames \ named : f # st.file_name \/ st.file_name = NoName
    BY DEF Announces
  <2>9. NoName \notin FileNames
    BY CommandAssumption
  <2> QED
    BY <2>5, <2>6, <2>7, <2>8, <2>9 DEF Announces, NowNamed
<1> QED
  BY <1>1, <1>2

LEMMA OutcomesAnnounce ==
  ASSUME NEW c \in Commands \cup {NoCommand}, NEW st \in Store,
         NEW named, Announces(named, st), NEW o \in Outcomes(c, st)
  PROVE  Announces(NowNamed(named, o.store), o.store)
<1>1. CASE o.store = st
  BY <1>1 DEF Announces, NowNamed
<1>2. CASE ~ c.complete
  <2>1. o.store = st
    BY <1>2 DEF Outcomes, Throw
  <2> QED
    BY <1>1, <2>1
<1>3. CASE c.complete
  <2>1. c \in Commands /\ c.args \in Seq(Lines) /\ c.header \in Headers
    BY <1>3, CommandAssumption DEF NoCommand, Request
  <2>2. PICK type \in CommandTypes(c.header) : o \in Execute(type, c.args, st)
    BY <1>3 DEF Outcomes
  <2>3. type \in 0..4
    BY <2>1, <2>2 DEF CommandTypes, Headers
  <2>4. CASE type \in {0, 1, 4}
    <3>1. o.store = st
      BY <2>2, <2>4 DEF Execute, ExecuteREQ, Answer
    <3> QED
      BY <1>1, <3>1
  <2>5. CASE type = 2
    <3>1. c.header \in {"FILE", "unknown"}
      BY <2>1, <2>2, <2>5 DEF CommandTypes, Headers
    <3> QED
      BY <2>1, <2>2, <2>5, <3>1, FILEAnnounces DEF Execute
  <2>6. CASE type = 3
    BY <2>1, <2>2, <2>6, JOBAnnounces DEF Execute
  <2> QED
    BY <2>3, <2>4, <2>5, <2>6
<1> QED
  BY <1>2, <1>3

LEMMA AnnounceInit == Init => Announces(announced, store)
  BY DEF Init, Announces

LEMMA AnnounceStep ==
  TypeOK /\ Announces(announced, store) /\ [Next]_vars => Announces(announced, store)'
<1> SUFFICES ASSUME TypeOK, Announces(announced, store), [Next]_vars
             PROVE  Announces(announced', store')
  BY DEF Announces
<1>1. CASE Start
  <2>1. store'.file_name = NoName /\ store'.disk = store.disk /\ announced' = announced
    BY <1>1 DEF Start, TypeOK, Store
  <2> QED
    BY <2>1 DEF Announces
<1>2. CASE Process
  <2>1. PICK o \in Outcomes(command, store) :
          store' = o.store /\ announced' = announced \cup ({o.store.file_name} \ {NoName})
    BY <1>2 DEF Process
  <2>2. Announces(NowNamed(announced, o.store), o.store)
    BY OutcomesAnnounce DEF TypeOK
  <2> QED
    BY <2>1, <2>2 DEF NowNamed
<1>3. CASE UNCHANGED <<store, announced>>
  BY <1>3
<1>4. Start \/ Process \/ UNCHANGED <<store, announced>>
  BY DEF Next, Daemon, Network, vars, history, Serving, Reporting, Crash, SocketFails,
         BindFails, Listen, AcceptFails, Accept, Read, ReadFails, WriteFails,
         WriteAndClose, ResultSocket, NoResultSocket, Resolve, ConnectFails, Connect,
         SendResult, LingerExpires
<1> QED
  BY <1>1, <1>2, <1>3, <1>4

(* Whatever jobs arrive in whatever order, also across restarts, a text is *)
(* only in files that a FILE request has named.                            *)
THEOREM OnlyAnnouncedFiles == Spec => []TextOnlyInAnnouncedFile
<1>1. Init => TypeOK /\ Announces(announced, store)
  BY TypeInit, AnnounceInit
<1>2. /\ TypeOK /\ Announces(announced, store)
      /\ [Next]_vars
      => (TypeOK /\ Announces(announced, store))'
  BY TypeStep, AnnounceStep
<1>3. TypeOK /\ Announces(announced, store) => TextOnlyInAnnouncedFile
  BY DEF Announces, TextOnlyInAnnouncedFile
<1> QED
  BY <1>1, <1>2, <1>3, PTL DEF Spec
=============================================================================
