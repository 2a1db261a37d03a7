------------------------------- MODULE Master -------------------------------
(***************************************************************************)
(* The master after the application is parsed and the network is scanned:  *)
(* discover_slaves, then dfDistribute with slaveSelect, the sockets of     *)
(* task_manager/socket_connection.cpp and the table of databaseCRUD.cpp.   *)
(*                                                                         *)
(* The hosts are the environment: each may refuse a connection, answer a   *)
(* request with anything or with nothing, and connect for results whenever *)
(* the master listens.  sqlite is external: a statement may be refused.    *)
(* So is the user, who is asked for a port before every connection and may *)
(* take for ever to type it.                                               *)
(* A Levels[i] lists the modules of level i of task_vector; i, j and h     *)
(* count from 1 here and from 0 in the code.                               *)
(***************************************************************************)
EXTENDS Naturals, Sequences, FiniteSets

CONSTANTS
  Hosts,    \* the lines of the file discovered_hosts
  NoHost,   \* the answer of a query over an empty table
  Levels,   \* the modules of each level of the application
  Modules,  \* the modules of the application
  Loads,    \* the values of LM and LP a host may report
  MaxFds    \* the descriptors the process can hold besides 0, 1 and 2

HostSet == { Hosts[k] : k \in DOMAIN Hosts }

ASSUME MasterAssumption ==
  /\ Hosts \in Seq(HostSet)
  /\ NoHost \notin HostSet
  /\ Levels \in Seq(Seq(Modules))
  /\ Loads \subseteq Nat
  /\ 0 \in Loads
  /\ MaxFds \in Nat

(* A response as parseResponse sees it: the tab-separated fields of its    *)
(* fourth line, and the first two of them.                                 *)
Answers == [fields : 0..1, LM : {0}, LP : {0}]
             \cup [fields : {2}, LM : Loads, LP : Loads]

Zeroed == [fields |-> 0, LM |-> 0, LP |-> 0]

NoReports == [k \in DOMAIN Hosts |-> Zeroed]

VARIABLES
  pc,          \* where the master is
  cin_good,    \* standard input still yields numbers
  caller,      \* the caller of the requestSlave at hand
  i, j,        \* the loop variables of dfDistribute
  h,           \* the line of discovered_hosts being handled
  file_open,   \* discovered_hosts is open
  response,    \* the buffer answers are read into
  rows,        \* the hosts in the table SLAVES
  load,        \* column LM of the table (LP keeps its initial 0.0)
  chosen,      \* IP_of_bpsm
  command,     \* the jobs in interm_command
  counter,     \* the results still to be polled for
  used,        \* the sockets open in the process
  bound,       \* a socket of the process holds PORT
  contacts,    \* history: result connections accepted
  unread,      \* history: lists not opened although a descriptor was left
  dispatched,  \* history: the job requests that reached a host
  reported     \* history: what each host answered since slaveSelect began

loops == <<i, j, counter>>
table == <<rows, load>>
history == <<contacts, unread, dispatched, reported>>
vars == <<pc, cin_good, caller, loops, h, file_open, response, table, chosen,
          command, used, bound, history>>

Requesting == {"discover", "measure", "send"}
Connecting == {"port", "connect", "await"}
Final == {"done", "aborted", "exited"}

TypeOK ==
  /\ pc \in {"create", "insert", "ask", "next", "parse", "select", "sent",
             "poll", "accept", "read"} \cup Requesting \cup Connecting \cup Final
  /\ cin_good \in BOOLEAN
  /\ caller \in Requesting
  /\ i \in Nat \ {0}
  /\ j \in Nat \ {0}
  /\ h \in Nat \ {0}
  /\ file_open \in BOOLEAN
  /\ response \in Answers
  /\ rows \in SUBSET HostSet
  /\ load \in [HostSet -> Loads]
  /\ chosen \in HostSet \cup {NoHost}
  /\ command \in Seq(Modules)
  /\ counter \in Nat
  /\ used \in Nat
  /\ bound \in BOOLEAN
  /\ contacts \in Nat
  /\ unread \in Nat
  /\ dispatched \in Seq([to : HostSet, jobs : Seq(Modules)])
  /\ reported \in [DOMAIN Hosts -> Answers]

Init ==
  /\ pc = "create"
  /\ cin_good \in BOOLEAN
  /\ caller = "discover"
  /\ i = 1
  /\ j = 1
  /\ h = 1
  /\ file_open = FALSE
  /\ response = Zeroed
  /\ rows = {}
  /\ load = [a \in HostSet |-> 0]
  /\ chosen = NoHost
  /\ command = <<>>
  /\ counter = 0
  /\ used = 0
  /\ bound = FALSE
  /\ contacts = 0
  /\ unread = 0
  /\ dispatched = <<>>
  /\ reported = NoReports

-----------------------------------------------------------------------------
(* The descriptor table and requestSlave.  No socket is ever closed.       *)

FreeFd == used + (IF file_open THEN 1 ELSE 0) < MaxFds

(* The host a request at pc goes to; the loops over the file end with it.  *)
AtHost == file_open /\ h <= Len(Hosts)

Wanted == pc \in {"discover", "measure"} => AtHost

Peer == IF caller = "send" THEN chosen ELSE Hosts[h]

After(from) ==
  CASE from = "discover" -> "insert"
    [] from = "measure"  -> "parse"
    [] OTHER             -> "sent"

NoSocket ==
  /\ pc \in Requesting
  /\ Wanted
  /\ ~ FreeFd
  /\ pc' = "exited"
  /\ UNCHANGED <<caller, loops, h, file_open, response, table, chosen, command,
                 used, bound, cin_good, history>>

OpenSocket ==
  /\ pc \in Requesting
  /\ Wanted
  /\ FreeFd
  /\ used' = used + 1
  /\ caller' = pc
  /\ pc' = "port"
  /\ UNCHANGED <<loops, h, file_open, response, table, chosen, command, bound,
                 cin_good, history>>

(* Where the master goes from a question to the user: "Enter the port      *)
(* number" in createConnectionWithSlave, "for the results" in dfDistribute. *)
AfterReading == IF pc = "port" THEN "connect" ELSE "next"

(* The user answers; an answer that is no number, or the end of the input, *)
(* makes every later read fail.  (Any port may be as wrong as another.)    *)
UserTypes ==
  /\ pc \in {"port", "ask"}
  /\ cin_good
  /\ cin_good' \in BOOLEAN
  /\ pc' = AfterReading
  /\ UNCHANGED <<caller, loops, h, file_open, response, table, chosen, command,
                 used, bound, history>>

(* A stream that has failed does not wait: the port is what it happens to  *)
(* be.                                                                     *)
ReadsNothing ==
  /\ pc \in {"port", "ask"}
  /\ ~ cin_good
  /\ pc' = AfterReading
  /\ UNCHANGED <<caller, loops, h, file_open, response, table, chosen, command,
                 used, bound, cin_good, history>>

(* Variant: the socket of a connection that failed is given back.          *)
ConnectFailsAndCloses ==
  /\ pc = "connect"
  /\ used' = used - 1
  /\ pc' = After(caller)
  /\ UNCHANGED <<caller, loops, h, file_open, response, table, chosen, command,
                 bound, cin_good, history>>

(* No such host, or nobody listens there: "moving on...".  The buffer      *)
(* keeps what it held, and the socket stays open.                          *)
ConnectFails ==
  /\ pc = "connect"
  /\ pc' = After(caller)
  /\ UNCHANGED <<caller, loops, h, file_open, response, table, chosen, command,
                 used, bound, cin_good, history>>

Connects ==
  /\ pc = "connect"
  /\ Peer # NoHost
  /\ pc' = "await"
  /\ dispatched' = IF caller = "send"
                     THEN Append(dispatched, [to |-> Peer, jobs |-> command])
                     ELSE dispatched
  /\ UNCHANGED <<caller, loops, h, file_open, response, table, chosen, command,
                 used, bound, cin_good, contacts, unread, reported>>

Answered ==
  /\ pc = "await"
  /\ response' \in Answers
  /\ reported' = IF caller = "measure"
                   THEN [reported EXCEPT ![h] = response']
                   ELSE reported
  /\ pc' = After(caller)
  /\ UNCHANGED <<caller, loops, h, file_open, table, chosen, command, used,
                 bound, cin_good, contacts, unread, dispatched>>

(* The write or the read fails, or the host closes: -1 is as good as 1 to  *)
(* the ifs of requestSlave, and the buffer keeps what it held.             *)
NotAnswered ==
  /\ pc = "await"
  /\ pc' = After(caller)
  /\ UNCHANGED <<caller, loops, h, file_open, response, table, chosen, command,
                 used, bound, cin_good, history>>

-----------------------------------------------------------------------------
(* discover_slaves                                                         *)

(* discovered_hosts is opened for input.  That may fail for want of a      *)
(* descriptor, or because it is not there or not to be read.               *)
OpenList ==
  /\ file_open' \in BOOLEAN
  /\ file_open' => used < MaxFds
  /\ unread' = IF used < MaxFds /\ ~ file_open' THEN unread + 1 ELSE unread

CreateTable ==
  /\ pc = "create"
  /\ OpenList
  /\ h' = 1
  /\ pc' = "discover"
  /\ UNCHANGED <<caller, loops, response, table, chosen, command, used, bound,
                 cin_good, contacts, dispatched, reported>>

(* IP is the primary key.  What the host answered is not looked at.        *)
Insert ==
  /\ pc = "insert"
  /\ Hosts[h] \notin rows
  /\ rows' = rows \cup {Hosts[h]}
  /\ h' = h + 1
  /\ pc' = "discover"
  /\ UNCHANGED <<caller, loops, file_open, response, load, chosen, command,
                 used, bound, cin_good, history>>

Discovered ==
  /\ pc = "discover"
  /\ ~ AtHost
  /\ file_open' = FALSE
  /\ pc' = "ask"
  /\ UNCHANGED <<caller, loops, h, response, table, chosen, command, used,
                 bound, cin_good, history>>

(* sqlite3_exec reports an error for a statement: exit(0).  It must for an *)
(* insert of a host that is in the table already.                          *)
StatementRefused ==
  /\ pc \in {"create", "insert", "parse", "select"}
  /\ pc = "parse" => response.fields = 2
  /\ pc' = "exited"
  /\ UNCHANGED <<caller, loops, h, file_open, response, table, chosen, command,
                 used, bound, cin_good, history>>

-----------------------------------------------------------------------------
(* dfDistribute: the loops over task_vector, and slaveSelect.              *)

(* Variant: the response buffer is not zeroed.                             *)
NextJobUnzeroed ==
  /\ pc = "next"
  /\ i <= Len(Levels)
  /\ j <= Len(Levels[i])
  /\ OpenList
  /\ h' = 1
  /\ reported' = NoReports
  /\ pc' = "measure"
  /\ UNCHANGED <<caller, loops, response, table, chosen, command, used, bound,
                 cin_good, contacts, dispatched>>

(* slaveSelect begins: a response buffer of its own, zeroed once.          *)
NextJob ==
  /\ pc = "next"
  /\ i <= Len(Levels)
  /\ j <= Len(Levels[i])
  /\ OpenList
  /\ h' = 1
  /\ response' = Zeroed
  /\ reported' = NoReports
  /\ pc' = "measure"
  /\ UNCHANGED <<caller, loops, table, chosen, command, used, bound, cin_good,
                 contacts, dispatched>>

(* vector::at past the fields of the answer: nobody catches the exception. *)
ParseThrows ==
  /\ pc = "parse"
  /\ response.fields < 2
  /\ pc' = "aborted"
  /\ UNCHANGED <<caller, loops, h, file_open, response, table, chosen, command,
                 used, bound, cin_good, history>>

(* parseResponse and updateTable: LM is stored, LP is not.                 *)
Update ==
  /\ pc = "parse"
  /\ response.fields = 2
  /\ load' = IF Hosts[h] \in rows
               THEN [load EXCEPT ![Hosts[h]] = response.LM]
               ELSE load
  /\ h' = h + 1
  /\ pc' = "measure"
  /\ UNCHANGED <<caller, loops, file_open, response, rows, chosen, command,
                 used, bound, cin_good, history>>

Measured ==
  /\ pc = "measure"
  /\ ~ AtHost
  /\ file_open' = FALSE
  /\ pc' = "select"
  /\ UNCHANGED <<caller, loops, h, response, table, chosen, command, used,
                 bound, cin_good, history>>

Least(a) == a \in rows /\ \A b \in rows : load[a] <= load[b]

(* Variant: interm_command holds the job at hand only.                     *)
SelectAlone ==
  /\ pc = "select"
  /\ IF rows = {}
       THEN chosen' = NoHost
       ELSE chosen' \in { a \in rows : Least(a) }
  /\ command' = <<Levels[i][j]>>
  /\ response' = Zeroed
  /\ pc' = "send"
  /\ UNCHANGED <<caller, loops, h, file_open, table, used, bound, cin_good,
                 history>>

(* selectQuery, whose statement is unfinished, by the text of it: a row    *)
(* with LM + LP at its minimum.  The job is then appended to what          *)
(* interm_command already holds; response is zeroed.                       *)
Select ==
  /\ pc = "select"
  /\ IF rows = {}
       THEN chosen' = NoHost
       ELSE chosen' \in { a \in rows : Least(a) }
  /\ command' = Append(command, Levels[i][j])
  /\ response' = Zeroed
  /\ pc' = "send"
  /\ UNCHANGED <<caller, loops, h, file_open, table, used, bound, cin_good,
                 history>>

(* The answer to a job, and whether there was one, is ignored.             *)
JobSent ==
  /\ pc = "sent"
  /\ j' = j + 1
  /\ pc' = "next"
  /\ UNCHANGED <<caller, i, counter, h, file_open, response, table, chosen,
                 command, used, bound, cin_good, history>>

LevelSent ==
  /\ pc = "next"
  /\ i <= Len(Levels)
  /\ j > Len(Levels[i])
  /\ counter' = Len(Levels[i])
  /\ pc' = "poll"
  /\ UNCHANGED <<caller, i, j, h, file_open, response, table, chosen, command,
                 used, bound, cin_good, history>>

Complete ==
  /\ pc = "next"
  /\ i > Len(Levels)
  /\ pc' = "done"
  /\ UNCHANGED <<caller, loops, h, file_open, response, table, chosen, command,
                 used, bound, cin_good, history>>

-----------------------------------------------------------------------------
(* The polls for results: createResultSocketConnection and readFromSlave.  *)

(* Variant: a poll without a socket is not counted.                        *)
PollNoSocketAgain ==
  /\ pc = "poll"
  /\ counter # 0
  /\ ~ FreeFd
  /\ UNCHANGED vars

PollNoSocket ==
  /\ pc = "poll"
  /\ counter # 0
  /\ ~ FreeFd
  /\ counter' = counter - 1
  /\ UNCHANGED <<pc, caller, i, j, h, file_open, response, table, chosen,
                 command, used, bound, cin_good, history>>

(* PORT is held, by the listener of an earlier poll or from outside.  The  *)
(* new socket stays open.                                                  *)
PollBindFails ==
  /\ pc = "poll"
  /\ counter # 0
  /\ FreeFd
  /\ used' = used + 1
  /\ counter' = counter - 1
  /\ UNCHANGED <<pc, caller, i, j, h, file_open, response, table, chosen,
                 command, bound, cin_good, history>>

PollListens ==
  /\ pc = "poll"
  /\ counter # 0
  /\ FreeFd
  /\ ~ bound
  /\ used' = used + 1
  /\ bound' = TRUE
  /\ pc' = "accept"
  /\ UNCHANGED <<caller, loops, h, file_open, response, table, chosen, command,
                 history, cin_good>>

PollAcceptFails ==
  /\ pc = "accept"
  /\ counter' = counter - 1
  /\ pc' = "poll"
  /\ UNCHANGED <<caller, i, j, h, file_open, response, table, chosen, command,
                 used, bound, cin_good, history>>

PollAccepts ==
  /\ pc = "accept"
  /\ FreeFd
  /\ used' = used + 1
  /\ contacts' = contacts + 1
  /\ pc' = "read"
  /\ UNCHANGED <<caller, loops, h, file_open, response, table, chosen, command,
                 bound, cin_good, unread, dispatched, reported>>

(* Variant: the listening socket is given back after a poll.               *)
PollReadFailsAndCloses ==
  /\ pc = "read"
  /\ response' = Zeroed
  /\ counter' = counter - 1
  /\ bound' = FALSE
  /\ pc' = "poll"
  /\ UNCHANGED <<caller, i, j, h, file_open, table, chosen, command, used,
                 cin_good, history>>

(* result_socket is the listening socket, and reading a socket that is not *)
(* connected fails: storeResult is reached by no run.                      *)
PollReadFails ==
  /\ pc = "read"
  /\ response' = Zeroed
  /\ counter' = counter - 1
  /\ pc' = "poll"
  /\ UNCHANGED <<caller, i, j, h, file_open, table, chosen, command, used,
                 bound, cin_good, history>>

(* Variant: the inner loop goes on where the last level ended.             *)
LevelPolledKeepsJ ==
  /\ pc = "poll"
  /\ counter = 0
  /\ i' = i + 1
  /\ pc' = "next"
  /\ UNCHANGED <<caller, j, counter, h, file_open, response, table, chosen,
                 command, used, bound, cin_good, history>>

(* Variant: the inner loop starts one too early.                           *)
LevelPolledAtZero ==
  /\ pc = "poll"
  /\ counter = 0
  /\ i' = i + 1
  /\ j' = 0
  /\ pc' = "next"
  /\ UNCHANGED <<caller, counter, h, file_open, response, table, chosen,
                 command, used, bound, cin_good, history>>

LevelPolled ==
  /\ pc = "poll"
  /\ counter = 0
  /\ i' = i + 1
  /\ j' = 1
  /\ pc' = "next"
  /\ UNCHANGED <<caller, counter, h, file_open, response, table, chosen,
                 command, used, bound, cin_good, history>>

-----------------------------------------------------------------------------
(* What the master does by itself, and what needs a peer or the user.      *)
Program ==
  \/ NoSocket \/ OpenSocket \/ ReadsNothing \/ ConnectFails
  \/ CreateTable \/ Insert \/ Discovered
  \/ NextJob \/ ParseThrows \/ Update \/ Measured \/ Select
  \/ JobSent \/ LevelSent \/ Complete
  \/ PollNoSocket \/ PollBindFails \/ PollReadFails \/ LevelPolled

Environment ==
  \/ UserTypes
  \/ Connects \/ Answered \/ NotAnswered
  \/ StatementRefused
  \/ PollListens \/ PollAcceptFails \/ PollAccepts

Next == Program \/ Environment

Spec == Init /\ [][Next]_vars

FairSpec == Spec /\ WF_vars(Program)

-----------------------------------------------------------------------------
(* The jobs, each at its level and its place there.                        *)
Jobs == UNION { {l} \X (1..Len(Levels[l])) : l \in 1..Len(Levels) }

TotalJobs == Cardinality(Jobs)

(* Every job request that reaches a host starts with the same job: the     *)
(* command is appended to and never reset, and a slave takes the first job *)
(* line only.  Whatever the application, one module is all that is run.    *)
OnlyFirstJobRuns ==
  \A m, n \in DOMAIN dispatched :
    dispatched[m].jobs[1] = dispatched[n].jobs[1]

(* In a whole run the master accepts at most one result connection: the    *)
(* listener of the first poll is never closed and keeps PORT.              *)
AtMostOneContact == contacts <= 1

(* A job is placed only if the first host of the list answered this        *)
(* measurement in full: the buffer is zeroed once per measurement, so a    *)
(* later host that is silent passes for the one before it, and a first     *)
(* host that is silent ends the run.                                       *)
FirstHostDecides ==
  pc = "select" /\ h > 1 => reported[1].fields = 2

(* The sockets that a list saves each time it cannot be opened.            *)
Saved == unread * Len(Hosts)

(* No descriptor is given back, so a run over N > 0 jobs and H hosts       *)
(* completes only if the process can hold H + N * (H + 1) sockets.  Each   *)
(* time the list of hosts cannot be opened saves the sockets of H hosts,   *)
(* but not when that is for want of a descriptor: then there is none for   *)
(* the job either.                                                         *)
DescriptorDemand ==
  /\ used <= MaxFds
  /\ pc = "done" /\ Jobs # {} =>
       used + Saved >= Len(Hosts) + TotalJobs * (Len(Hosts) + 1)

Polling == pc \in {"poll", "accept", "read"}

Schedule == INSTANCE LevelSchedule WITH
  level   <- i,
  tried   <- IF pc = "sent" THEN j ELSE j - 1,
  polls   <- IF Polling THEN Len(Levels[i]) - counter ELSE 0,
  running <- pc \notin Final

(* The master follows the schedule: level by level, each job once and in   *)
(* order, then one poll for each.                                          *)
KeepsSchedule == Schedule!Spec

(* Where the loop variables stand.                                         *)
Waiting(from) == pc \in Connecting /\ caller = from

AtLine == pc \in {"insert", "parse"} \/ Waiting("discover") \/ Waiting("measure")

AtJob == pc \in {"measure", "parse", "select", "send", "sent"}
           \/ Waiting("measure") \/ Waiting("send")

LoopsInRange ==
  /\ pc \in {"create", "discover", "insert", "ask"} \/ Waiting("discover")
       => i = 1 /\ j = 1
  /\ AtLine => file_open /\ h <= Len(Hosts)
  /\ AtJob => i <= Len(Levels) /\ j <= Len(Levels[i])
  /\ pc = "next" /\ i <= Len(Levels) => j <= Len(Levels[i]) + 1
  /\ Polling => /\ i <= Len(Levels)
                /\ j = Len(Levels[i]) + 1
                /\ counter <= Len(Levels[i])
  /\ pc \in {"accept", "read"} => counter > 0

(* The listener outlives its poll.                                         *)
OneListener ==
  /\ AtMostOneContact
  /\ contacts = 1 => bound
  /\ pc = "accept" => contacts = 0 /\ bound

(* The first job is never taken out of the command.                        *)
FirstJobStays ==
  /\ pc = "send" \/ Waiting("send") => command # <<>>
  /\ \A n \in DOMAIN dispatched :
       /\ command # <<>>
       /\ dispatched[n].jobs # <<>>
       /\ dispatched[n].jobs[1] = command[1]

Measuring == pc \in {"measure", "parse"} \/ Waiting("measure")

(* What the buffer holds at the first host is what that host answered.     *)
BufferIsFresh ==
  /\ (Measuring \/ pc = "select") /\ h > 1 => reported[1].fields = 2
  /\ Measuring /\ h = 1 /\ response.fields = 2 => reported[1].fields = 2

(* The jobs the loops have been through.                                   *)
JobsBefore ==
  { job \in Jobs : job[1] < i \/ (job[1] = i /\ job[2] < j) }

(* The sockets of the discovery and of those jobs.                         *)
JobsDemand == Len(Hosts) + Cardinality(JobsBefore) * (Len(Hosts) + 1)

(* The sockets it takes to get to where the master is, had the list been   *)
(* there every time.                                                       *)
Needed ==
  CASE pc = "discover" -> IF file_open THEN h - 1 ELSE Len(Hosts)
    [] pc = "insert" \/ Waiting("discover") -> h
    [] pc \in {"create", "aborted", "exited"} -> 0
    [] pc = "measure" -> JobsDemand + (IF file_open THEN h - 1 ELSE Len(Hosts))
    [] pc = "parse" \/ Waiting("measure") -> JobsDemand + h
    [] pc \in {"select", "send"} -> JobsDemand + Len(Hosts)
    [] pc = "sent" \/ Waiting("send") -> JobsDemand + Len(Hosts) + 1
    [] OTHER -> JobsDemand

(* Without a descriptor no job is sent any more, and there is one to send. *)
Starved ==
  /\ used >= MaxFds
  /\ JobsBefore # Jobs
  /\ pc # "sent" /\ ~ Waiting("send")

(* Every socket that was needed so far is still open, save those of the    *)
(* lists that could not be opened.                                         *)
SocketsCount ==
  /\ used <= MaxFds
  /\ pc = "done" => JobsBefore = Jobs
  /\ Jobs # {} => used + Saved >= Needed \/ Starved

(* The inductive invariant behind the safety properties above.             *)
IInv ==
  TypeOK /\ LoopsInRange /\ OneListener /\ FirstJobStays /\ BufferIsFresh

(* The run ends, or waits for ever for one answer or one connection, or    *)
(* for the user to type a port: the program itself never spins.            *)
EndsOrWaits ==
  \/ <>(pc \in Final)
  \/ <>[](pc \in {"await", "accept"})
  \/ <>[](pc \in {"port", "ask"} /\ cin_good)

-----------------------------------------------------------------------------
(* What comments of the code say of the master, and the master does not do. *)

(* slave_selection.cpp:115, "send job here itself, modify command": the    *)
(* command that reaches a host for a job is that job.                      *)
CommandCarriesOneJob ==
  pc = "await" /\ caller = "send" => command = <<Levels[i][j]>>

(* slave_selection.cpp:144, "Application run complete": then every job has *)
(* had a result connection, at least when the hosts were there to be asked. *)
CompleteMeansAnswered == pc = "done" /\ unread = 0 => contacts = TotalJobs

(* slave_selection.cpp:15, "returns IP with minimum LM + LP": of the loads *)
(* just reported, when every host is in the table and has reported one.    *)
ChosenIsLeastLoaded ==
  (/\ pc = "send"
   /\ rows = HostSet
   /\ \A k \in DOMAIN Hosts : reported[k].fields = 2) =>
    \E k \in DOMAIN Hosts :
      /\ chosen = Hosts[k]
      /\ \A m \in DOMAIN Hosts :
           reported[k].LM + reported[k].LP <= reported[m].LM + reported[m].LP
=============================================================================
