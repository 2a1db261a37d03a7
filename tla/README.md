# super-computing-at-home: specifications, model checking and proofs

super-computing-at-home runs an application on the idle machines of a local
network. A *master* (`task_manager/`) reads a flow file that lists the modules of the application
level by level (`parser/`), scans the network, and hands each module to the
host it takes to be the least loaded. Every host runs a *slave* daemon
(`slave/`) that answers requests of the master, runs jobs with python and
connects back to deliver results. This directory models that code in TLA+,
checks the models with TLC and proves the main results with TLAPS.

Several files do not compile as they stand (`address_of_master` in
`slave_main.cpp`, `storeResult` and `parseResponse` in `slave_selection.cpp`,
`selectQuery` in `databaseCRUD.cpp`, the unfinished initialisers in
`discover_slaves.cpp`). Where a statement cannot be compiled, the model follows the control flow
as it is written and takes any value the statement could yield; these places are named below.

## 1. Inventory

| Part | State | Operations | Talks to |
|---|---|---|---|
| slave daemon: `slave/slave_main.cpp`, `slave/echo_responce.cpp` | descriptors of the process, `original_socket`, `socket_fd`, `result_socket`, who holds `PORT` | daemonise; then for ever: listen, accept, read, process, write, close, connect back, send | master over TCP, standard input for the result port |
| slave commands: `slave/parse_command.cpp` | the global `new_job`, the files of the working directory, the file `result` | parse, `executeCommandFunctions` (REQ, RES, FILE, JOB), `prepareResponsePacket` | daemon (calls), `execute_function.cpp`, the shell |
| slave functions: `slave/execute_function.cpp` | - | `getUtilizations`, `getStaticParams` | system specification |
| system specification: `slave/system_spec.cpp` | `specs`, the file `cpu_util` | `prepareSystemSpecDS`, `getMemoryUtilization`, `getCpuUtilization` | `/proc`, a script that runs mpstat |
| slave queues: `slave/jobs_and_results.cpp` | `job_queue`, `result_queue` | add, dequeue | nobody calls them |
| master: `task_manager/master.cpp`, `slave_selection.cpp` | the loop variables of `dfDistribute`, `interm_command`, `counter`, the response buffers | `dfDistribute`, `slaveSelect`, `parseResponse`, `storeResult` | parser (task vector), table, sockets |
| master sockets: `task_manager/socket_connection.cpp` | descriptors of the process, who holds `PORT` | `requestSlave`, `createResultSocketConnection`, read, write | slaves over TCP, the user who types the ports |
| table of slaves: `task_manager/databaseCRUD.cpp` | table `SLAVES` | create, insert, update, select | sqlite (external) |
| discovery of hosts: `task_manager/discover_hosts.cpp` | files `discovered_hosts.tmp`, `discovered_hosts` | scan with nmap, copy the lines that are no comments | nmap (external), discovery of slaves |
| discovery of slaves: `task_manager/discover_slaves.cpp` | table `SLAVES` | ask each host of the file, insert it | slaves, table |
| parser: `parser/parser.cpp`, `task_manager/node.cpp` | lines, names, levels, `depend_modules`, `task_vector`, the id maps | level and module counts, names, dependencies, declare and fill the vector | string search |
| own address: `task_manager/get_master_ip.cpp` | - | write the address to a file | nobody reads it |
| string search: `parser/kmp.cpp` | the prefix table, the two indices | `computeLongestPrefix`, four overloads of `kmpSearch` | - |
| echo pair: `server.c`, `client.c` | one connection each | one message per connection; many messages per connection | each other |
| script exchange: `Slave.c`, `TaskManager.c` | `PyScript.py`, `PyResult` | send a script, interpret it, send the result | each other |

`parser/parser-backup.cpp`, `slave/test.cpp` and `slave/test_vector.cpp` are a
former version and scratch programs.

**What is hard here.** Both processes make blocking calls on sockets that the
other side may leave in any state; almost every error path skips a close, so a
failure in one round decides what every later round can do. State outlives its
round: the slave's `new_job` and its files, the master's `interm_command`, its
listener and its response buffer. The two processes contact each other in both
directions, each deciding on its own when to listen. Results of calls are often
dropped. Nothing has a timeout. The full list, with the line where each hazard
bites and the properties that cover it, is `hazards` in `PROJECT.json`.

**What makes each part correct.**

- *Daemon:* the sockets closed at the end of a round are those of the round; a
  descriptor is never lost (it is: how fast, and what happens then); the slave
  goes on serving, or at least ends, after a failure; results reach the master.
- *Commands:* a job's text goes into, and the job runs from, its own file; a
  request that is malformed is answered or refused.
- *Master:* levels are run in order, each job once, and the results of a level
  are in before the next; the host chosen is the least loaded one and was
  measured; the run completes with the descriptors a process has.
- *Search:* the table holds the longest borders; every occurrence is found and
  counted once; the search ends.
- *Parser:* every module of the flow file is in the task vector once,
  at its level, with the dependencies written on its line; arrays are not left; parsing ends.
- *Master and slave together:* a job that is placed is carried out; they do not
  wait for each other for ever; an answer is understood.
- *System specification:* a measurement returns the present value; the
  utilisations tell hosts apart; hyperthreading is recognised.
- *Discovery of hosts:* the list is never a mixture of scans, whatever fails or ends before,
  and it is that of the last scan if both files can be opened.
- *Echo pair, script exchange:* what a client reads is the answer to what it
  sent; a client that waits does not wait for ever.

## 2. Modules

| Module | Models |
|---|---|
| `SlaveCommand` | `processRequestFromMaster`: all that one request may do to the store of a slave. Constant level. |
| `SlaveDaemon` | the daemon's rounds, its descriptors, crashes and restarts; EXTENDS `SlaveCommand` |
| `SlaveContract` | abstract: what a master may rely on of one slave; `SlaveDaemon` implements it |
| `SlaveDaemon_proofs` | theorems about `SlaveDaemon` |
| `Master` | `discover_slaves`, `dfDistribute`, `slaveSelect`, the sockets and the table |
| `LevelSchedule` | abstract: levels in order, jobs in order, then the polls; `Master` implements it |
| `Master_proofs` | theorems about `Master` |
| `Kmp` | `computeLongestPrefix` and the loop of `kmpSearch` |
| `Kmp_proofs` | theorems about `Kmp` |
| `FlowParser` | from the lines of a flow file to `task_vector`, with the overload of `kmpSearch` whose table nobody fills |
| `Ranked`, `Ranked_proofs` | sets of integers as the sequences they make in order (`Rank`, `Nth`), in which the parser numbers lines and keywords; lemmas |
| `FlowLines_proofs` | what `FlowParser` computes from the lines, for every file: lemmas |
| `FlowParser_proofs` | theorems about `FlowParser` |
| `Cluster` | one `Master` and one real `SlaveDaemon`, with every socket between them; EXTENDS the first, instantiates the second |
| `Cluster_proofs` | theorems about `Cluster` |
| `EchoService` | `server.c` and its clients `client.c` |
| `ScriptExchange` | exchanges between `TaskManager.c` and `Slave.c` in one directory |
| `SystemSpec` | `system_spec.cpp` and what the master takes from its answers |
| `HostScan` | the files of `discover_hosts.cpp` over runs of the master |
| `Standalone`, `Standalone_proofs` | the last four side by side, since they share nothing; `part` says which one a behaviour is about; theorems about them |
| `MCSlaveDaemon`, `MCMaster`, `MCKmp`, `MCFlowParser`, `MCCluster`, `MCStandalone` | instances for TLC; `MCStandalone` fixes one initial state of the parts a behaviour is not about |

Definitions named "Variant" in the modules are plausible mistakes. No
specification uses them; `mutants` in `PROJECT.json` puts each in the place of
the definition below it, to show that the property it is paired with does depend on the code.

### SlaveCommand and SlaveDaemon

A request is its header, whether the three header lines are all there, and the
remaining lines as sequences of words. `Outcomes(c, st)` is the set of results
of `processRequestFromMaster`: a new store and a response, or an exception
(`vector::at` outside the vector, which nobody catches). An unknown header
leaves `command_type` unset, so every type is possible. A file may fail to
open, and the shell may fail to run; the output of a program is identified with
the text of the program. The three modelled facts about files that matter are: FILE sets
`new_job.file_name` and truncates that file; JOB truncates `<module>.py` but
writes its text to, and runs, `new_job.file_name`; the answer to a JOB is read
from `result_<name>.scah`, which nobody writes.

`SlaveDaemon` has one value of `pc` per place where the process waits or where
the result of a call decides what comes next:

    down -> listen -> accept -> read -> process -> write -> result -> resolve -> connect -> send -> listen
                |        |        |                  |        ^           ^        |
                +--------+--------+------------------+--------+           +--------+

Every error path of `createConnectionWithMaster`, of the read and of the write
leads to `result`, as in the code, and closes nothing. `open` is the set of
descriptors of the process, `bound` the one that holds `PORT`, `lingering` that
TCP still holds `PORT` for a closed connection. `rounds` (result sockets of this
life) and `announced` (files named by FILE requests) are history variables.
`writeToMaster` has no return statement on its successful path: `WriteFails`
therefore also stands for a write that succeeded. The port for results is read
from `/dev/null`: `right_port` is any value. A restart (`Start` after `Die`)
has fresh globals and the old files.

### Master

`Hosts` are the lines of `discovered_hosts`, `Levels` the task vector. `pc` in
`Requesting` is a call of `requestSlave` from one of its three callers (`caller`
is the one at hand); every call opens a socket that nothing closes
(`OpenSocket`), and then asks the user for a port:

    discover, measure, send -> port -> connect -> await -> insert, parse, sent

The master also asks for the port of the results (`ask`). `UserTypes` is the
user's answer, for which the master may wait for ever; an answer that is no
number, or the end of the input, makes every later read fail (`cin_good`), and a
failed stream does not wait (`ReadsNothing`): the port is then whatever the
variable held. Which port is typed makes no difference here, since any
connection may fail. `discovered_hosts` may fail to open each time it is opened
(`OpenList`), for want of a descriptor or because it is not there or not to be
read; the loop over it is then passed over, and `unread` counts the second
kind. An answer is what `parseResponse` sees:
the number of fields and the two values; a request that is refused, cut or not
answered leaves the buffer as it was. The counts the caller ignores (`Answered`
after a job) still change the buffer. A poll opens a socket, binds, listens and
accepts; the data is then read from the *listening* socket, which fails, so
`storeResult` is reached by no run.

Two places follow the text of a statement that does not work as written:
`updateTable` appends a query of a table `COMPANY`, for which sqlite reports an
error, so that the master would always exit at the first update; and the
statement of `selectQuery` is not SQL. `StatementRefused` is the exit; that the
statement may also succeed, with the meaning its text has, is the assumption
that makes the rest of the program worth modelling. The runs `master_command`,
`master_complete` and `master_load` rest on it, too.

The command is a sequence of modules, not of characters: the buffers of 128
bytes and the 64 bytes that `writeToSlave` sends are left out. A slave takes the
first job line of a command, which is why `OnlyFirstJobRuns` speaks of the first
module of a command.

### Kmp

`Kmp` is the table of `computeLongestPrefix` and the loop of the overloads of
`kmpSearch` that compute it. A loop body has two halves, and the second looks at
the indices the first has moved, so there is one action per path: `Match`,
`Advance`, `AdvanceAndShift`, `Shift`, `Skip`. `break_at_match` tells the
overloads (and values of `KMP_FLAG`) that stop at the first match from those
that go on. The pattern is not empty: the parser searches for "level", "module"
and for names that begin with "module".

### FlowParser

A line is a sequence of characters of a tiny alphabet: "level" is one character
and "module" two, so that a match may fail half-way; it carries what its writer means by it
(`kind`, `name`, `depends`), which only the properties read. `FlowAssumption` says when
that meaning is the text's. A line that opens a level has the word "level" and not
"module". On a line that declares a module (`Declares`) its name, and the names of those it
depends on, begin with the keyword, which stands nowhere else; the first ends at a ">" or at
spaces before it, the others at a ",", and any of them at the end of the line. Nothing is assumed of other lines.
Functions that only compute from the lines are operators of their name; lines and keywords
are numbered by `Nth`, the levels counted are a recursive function (`LevelCounted`).
Functions that index an array by one thing and size it by another (`declareVector`: levels against sizes of
levels; `getNumberOfDepends`: lines against modules; `fillVector`: room against
names) are actions, in which `stray` records that the array was left; the program may then abort.

`getDependsModuleNames` uses the overload of `kmpSearch` that declares a table
and does not fill it. `SearchTurn` is one turn of that loop; an entry is any
index when it is first read and keeps its value for the line (`table`), and
index `Len(ModuleWord) + 1` stands for every index beyond the pattern. `misled`
records that an entry other than 0 was used: with zeros, which a fresh stack
often holds, the search is right.

### Cluster

`Cluster` adds one variable to those of its two parts: `link`, the connection of
the master to the slave (queued at a listener, accepted, answered, reset). A
step is one of the master, of the slave, or of both; where `Master` lets an
answer be anything and `SlaveDaemon` lets a request be anything, the joint steps
take the request the caller of `requestSlave` writes (`RequestOf`) and the
answers a slave forms (`SlaveAnswers`: one field for the master, since the slave
separates its utilisations by a space and the master cuts at tabs). The user's
answers are steps of the master alone; whatever port is typed, a connection to
the slave's host reaches the slave or fails, since nothing else on that host is
modelled. A listener
of an abandoned round still takes connections that nobody accepts; so does the
listener of a poll that is over. The other hosts are the environment they are in
`Master`.

### EchoService, ScriptExchange, SystemSpec, HostScan

`EchoService`: `server.c` accepts, reads one message, writes its whole buffer
and accepts again, overwriting the descriptor; a client writes and reads in turn and
reads one byte less than an answer has. Bytes are counted, not kept.

`ScriptExchange`: any number of servers that share `PyScript.py` and `PyResult`,
each serving one exchange. A script may be refused by python (always 255 bytes are written), may
write nothing, may run for ever; the shell may not run; the files may be missing.
`disturbed` and `shellFailed` are history.

`SystemSpec`: `getCpuUtilization` opens the stream first and runs the script
afterwards; the file keeps its inode, so the stream finds what the script wrote.
`getTotalMemory` stores digits past the end of an empty string; what the
bytes behind them make of the number is a member of `Garbage`, which may be any
integer, since `atoi` of so many digits may overflow or cut off. A utilisation
of memory is the text `to_string` makes of it: an integer in units of
`1 / Precision` (a millionth in the code), to which the quotient is rounded
(`Rounded`, either neighbour if it is half-way); a quotient by 0 is no number.
`LM` cuts off what is behind the point, toward zero. What is free is taken to
fit an `int` of kB, a machine with less than 2 TB. The number of physical cores
is the last character of its line.

`HostScan`: both files outlive the process. A scan may be cut off before its
last line, or leave the file as it was; `Interrupted` and `Restart` may come at any line.
Each of the two files may fail to open (`input`, `output`): opening the output
empties it even if there is no input, and without an output the lines are read
past it. `scanned` is what the last scan that wrote its file has found, `source`
what that was when the list was last emptied. A write that fails on an open file
(a full disk) is not modelled.

## 3. Runs

| Run | Question | Bounds |
|---|---|---|
| `slave_safety` | `TypeOK`, `RoundSockets`, `ServiceBound`, `TextOnlyInAnnouncedFile`, `AbandonedForGood`, `AbandonedEnds`, `KeepsContract` under `FairSpec` | 4 descriptors, 8 requests, 2 files |
| `slave_job_code` (violated) | `JobRunsItsOwnCode` | 4 descriptors |
| `slave_results` (violated) | `ResultsReachMaster` under `HelpfulSpec` | 4 descriptors |
| `master` | `TypeOK`, `OnlyFirstJobRuns`, `AtMostOneContact`, `FirstHostDecides`, `DescriptorDemand`, `KeepsSchedule`, `EndsOrWaits` under `FairSpec` | 2 hosts, levels of 2 and 1 jobs, loads 0 and 1, 13 descriptors |
| `master_command`, `master_complete`, `master_load` (violated) | `CommandCarriesOneJob`, `CompleteMeansAnswered`, `ChosenIsLeastLoaded` | as above, 15 descriptors |
| `kmp_search` | `TypeOK`, `LongestBorders`, `FindsOccurrences`, `CountsOnce`, `Terminates` under `FairSpec` | all texts and patterns over two characters up to length 6 |
| `flow_file` | `TypeOK`, `EveryModuleOnce`, `DependenciesRight`, `StaysInside`, `EndsUnlessMisled` under `FairSpec` | all files of at most 3 lines of 6 kinds, and three longer ones (`MCFiles`); 3 matches counted on a line |
| `flow_dependencies` (violated) | `CountsDependencies` | as `flow_file` |
| `cluster` | `ClusterTypeOK`, `OnlySilentSlaves`, `NoJobIsCarriedOut`, `HangsOnlyInDeadlock` under `ClusterFairSpec` | a slave behind another host, one job, 3 descriptors of the slave, 7 of the master |
| `standalone` | `TypeOK`; echo: `OneAnswerPerConnection`, `HeldUpOnlyBySilence`; script: `ForeignResultHasACause`, `HangsOnlyOnScript`; specification: `HyperthreadingSeen`, `MeasuresThePresent`, `MemoryIsLostOnTheWay`; scan: `HostsOfOneScan` | 3 clients, 2 connections, backlog 2, answers of 3 bytes; 2 exchanges; 12 machines, 6 memories, 4 misread totals, a precision of thousandths; lists of up to 3 hosts |

**What they show.** `RoundSockets`: although `original_socket` starts
uninitialised and is never reset, what a round closes is its own. `ServiceBound`
and `KeepsContract`: a slave can serve at most as many rounds as it has
descriptors and then exits. `AbandonedForGood`: one failed accept, read or write
is enough for the process to hold `PORT` against itself until it ends; a slave
never recovers by itself. `AbandonedEnds`: it then burns a descriptor (two, with
the failing bind) per round and exits, unless it is stuck in the loop that
reaches for the master. `TextOnlyInAnnouncedFile`: the file created for a job
never holds its text, in any life.

`OnlyFirstJobRuns`: whatever the application, one module is all that slaves run.
`AtMostOneContact`: the first poll's listener takes `PORT` for the whole run.
`FirstHostDecides`: if the first host of the list is silent the run ends; if a later one is, the load
of its predecessor is stored for it. `DescriptorDemand`: a run over N > 0
jobs and H hosts completes only with H + N(H + 1) sockets, less H for each time
the list of hosts could not be opened though a descriptor was left. `KeepsSchedule` is the good news: the loops visit
each job once, in level order, and poll once per job. `EndsOrWaits`: the master
never spins; a run that does not end waits from some moment on for one answer,
for one connection, or for the user to type one port, and for the user only
while standard input still yields numbers.

`EveryModuleOnce`: a regular flow file (no empty level, one module to a line, no
name twice) is laid out as meant, even when the last search was misled, so long as
no array was left. `DependenciesRight`: the dependencies are right as well as
long as the entries of the unfilled table that are used are zero.
`StaysInside`: arrays are left only on other files or by a misled search; a
blank line is enough. `CountsDependencies` (violated): `num_dependencies` is not
the number of modules a module depends on, as `parser.cpp:98-99` has it; it is
the number of places that depend on *it*, and more if its name is part of
another (`CountsDependents`, which is proved and not run).
`EndsUnlessMisled`: only the search with the unfilled table may go round for ever.

`NoJobIsCarriedOut`: the master sends `JOB` and never `FILE`, and a slave puts
the text of a job into the file of the last `FILE` request and runs that; so over
all its lives no file of the slave ever holds the text of a job and no run
leaves more than an empty output, whatever jobs are placed and acknowledged.
`OnlySilentSlaves`: a slave that answers a measurement ends the run of the
master, so a job is placed only while no slave has answered one.
`HangsOnlyInDeadlock`: if the master hangs on the slave, each waits for the
other: the request is queued at a listener the slave has abandoned, and the
slave tries for ever to deliver results.

`OneAnswerPerConnection`: whatever a client of the echo server sends, it gets
one answer in pieces and then nothing. `HeldUpOnlyBySilence`: it misses even
that only while another client is connected and does not write.
`ForeignResultHasACause`: what is shown as the result is the script's own (or
empty) unless another server used the directory or the shell did not run.
`HangsOnlyOnScript`: a client waits for ever only for a script that runs for
ever. `HyperthreadingSeen` describes exactly which machines are taken for
hyperthreaded: one socket and two threads a core, or two sockets and one thread,
with fewer than ten cores. `MeasuresThePresent`: the order of opening and
running does no harm but for a measurement that finds no file, which returns 0.
`MemoryIsLostOnTheWay`: the fraction is below one, so the integer the master
reads is 0 for every host that has a megabyte free, unless what stands behind
the digits has made the total less than what is free, or so large that the
fraction is rounded to one. `HostsOfOneScan`: failures and ends of earlier runs,
and files that cannot be opened, never mix two scans in one list; but the master
goes on with the list of an earlier run, or with none, as if it were the new one.

**Why the bounds are enough.** With four descriptors a slave can abandon a
listener with its connection, fail a later bind, serve several rounds and run
out. The requests are one per path through the parser and the switch. Thirteen
descriptors let the master complete (11 are demanded) and run out at each kind
of call; two hosts separate "the first host" from "a later one"; a level
of two jobs followed by a level of one separates the inner loop from the outer.
For the search, two characters suffice for overlapping occurrences and for a
border of a border, and patterns of up to six characters include those (such as
`aaab`) whose borders the table shortens more than once. Files of
three lines hold every pair of kinds in both orders after a level line; the longer ones
add two levels, a line with two dependencies, and a blank line between levels. A
table entry takes every index of the pattern and one beyond. In
the cluster the slave can abandon its listener, run out of descriptors,
crash and start again while the master waits; the other host, first in the list,
lets a job be placed on the slave. Two connections and three clients let one client wait
behind another and the server run out; two exchanges suffice for one to disturb
the other at each step. The misread totals are one below what is free, one below
zero and two above most totals; with thousandths, a host of 2 GB of which one
megabyte is free is one whose fraction is rounded to one. The machines have every combination the comparison with one
digit tells apart. What the bounds cannot show for every value is proved where section 5 says so.

**Violated properties** quote a comment or a message of the code; `findings` in
`PROJECT.json` gives the lines. `JobRunsItsOwnCode` already allows the output of
an earlier job to stay when the shell could not run; `ResultsReachMaster` is
checked with a master that is always listening when it is tried.

`CHECK_DEADLOCK FALSE` is set for the master, the search, the parser, the echo
pair and the exchanges, which really end. The slave never ends: a daemon that is
down may be started again; for the same reason the cluster is checked for deadlock.

## 4. Fairness

- `SlaveDaemon!FairSpec`: weak fairness of `Daemon`, the steps the process takes
  by itself (the operating system schedules it), and of `LingerExpires` (TIME_WAIT is timed).
  `Accept`, `Read` and their failures depend on the master and are not fair; nor is `Start`.
- `SlaveDaemon!HelpfulSpec` adds strong fairness of a connection to the right
  port; it is used only for the violated run, where it makes the refutation stronger.
- `Master!FairSpec`: weak fairness of `Program`, the steps the process takes by
  itself. Answers, connections, refusals of sqlite and the user's typing
  (`UserTypes`) are the environment's and not fair: nobody is assumed to type a
  port. `ConnectFails` is the program's, because `gethostbyname` and `connect`
  return by their own timeouts; so is `ReadsNothing`, because a stream that has
  failed does not wait.
- `Kmp!FairSpec`, `FlowParser!FairSpec`: weak fairness of the sequential program.
- `ClusterFairSpec`: weak fairness of the master's own steps, of the daemon's
  own steps, of accepting a queued connection, of reading a request that was
  written and of receiving what the other side has sent or reset (TCP delivers between live
  processes). The user's typing, answers of the other host, polls, failures, crashes and starts are not fair.
- `EchoFairness`: the server runs and clients read; nobody must connect, type or quit.
- `ScriptFairness`: servers and clients run; that a script ends (`Finish`) is not assumed.

## 5. Proofs

All proofs hold for every value of the constants that satisfies the ASSUMEs in
the modules: any finite set of descriptors, any set of requests that name files
in use (`SlaveDaemon`); any list of hosts, any application, any loads, any
number of descriptors (`Master`, `Cluster`); any characters, any text, any
pattern that is not empty (`Kmp`); any number of clients and exchanges, any
machines and memories, any lists of hosts (`Standalone`); any flow files over any lines that
mean what they say, whatever stands behind the arrays and in the unfilled table (`FlowParser`).

| Theorem | Establishes |
|---|---|
| `SlaveDaemon_proofs!TypeCorrect` | `TypeOK`; rests on the lemmas that `Outcomes` maps stores to stores |
| `SocketsOfARound`, `BoundedService` | `RoundSockets`, `ServiceBound` |
| `AbandonedStays` | the action property `AbandonedForGood` |
| `OnlyAnnouncedFiles` | `TextOnlyInAnnouncedFile`, in every life |
| `ImplementsContract` | `SlaveDaemon!Spec` implies `SlaveContract!Spec` under the mapping |
| `Master_proofs!TypeCorrect`, `OneJobRuns`, `OneContact`, `FirstHostAnswers` | `TypeOK`, `OnlyFirstJobRuns`, `AtMostOneContact`, `FirstHostDecides` |
| `SocketsOfARun` | `DescriptorDemand`: the descriptors of a complete run, for every application and however often the list cannot be opened |
| `ImplementsSchedule` | `Master!Spec` implies `LevelSchedule!Spec` under the mapping |
| `Kmp_proofs!TypeCorrect`, `TableCorrect`, `SearchCorrect`, `CountCorrect` | `TypeOK`, `LongestBorders`, `FindsOccurrences`, `CountsOnce` |
| `Cluster_proofs!SilentSlaves` | `OnlySilentSlaves` |
| `JobsAreNotCarriedOut` | `NoJobIsCarriedOut`, for every application and over all lives of the slave |
| `OneRequestOnTheWay` | `ClusterTypeOK`: a slave that reads or answers holds the request the master waits with |
| `FlowParser_proofs!ParserTypes`, `RegularStaysInside` | `TypeOK`, on every file; `StaysInside` |
| `AllModulesLaidOut`, `DependenciesFound` | `EveryModuleOnce`, `DependenciesRight` |
| `DependentsRight` | `CountsDependents`: what `num_dependencies` is, since it is not what `CountsDependencies` says |
| `Standalone_proofs!TypesKept` | `TypeOK` of the four parts |
| `OneAnswer`, `ForeignResults`, `OneScan` | `OneAnswerPerConnection`, `ForeignResultHasACause`, `HostsOfOneScan` |
| `HyperthreadingRecognised`, `PresentMeasured`, `MemoryIsLost` | `HyperthreadingSeen`, `MeasuresThePresent`, `MemoryIsLostOnTheWay` |

Every invariant and every safety property of steps that a passing run checks is
the statement of one of these theorems.

**Inductive invariants.**

- *Slave.* `ServiceBound` alone is not inductive: closing the two sockets of a
  round could go below it. `Ledger` counts, besides the result sockets, the
  descriptors the round in progress will close (`Transient`); `RoundSockets`
  says that these are two different open ones; `AtRest` starts a life from nothing. Their
  conjunction `IInv` is preserved by every action, and the contract's budget
  (descriptors minus rounds) is positive whenever a result socket can be made,
  because the new socket is one `Ledger` has not counted.
- *Master.* `LoopsInRange` says where `i`, `j`, `h` and `counter` stand at each
  `pc`; it carries the refinement (`tried` is `j - 1`, or `j` once the job is
  sent). `OneListener` keeps "a contact has been made" tied to "PORT is held";
  `FirstJobStays` ties every dispatched command to the head of the present one;
  `BufferIsFresh` says that a full answer in the buffer while the first host is
  measured is that host's. `SocketsCount` is preserved on top of them: the sockets
  open, with those `Saved` by lists that were not there to be read, are at least those
  `Needed` to get to this `pc` and to this job (counted
  as the set `JobsBefore`, which grows by one job at a time, so that no sum over
  levels is wanted), or the master is `Starved`: no descriptor is left while a
  job is, and then that job is never sent and `done` never reached.
- *Search.* While the table is filled, `length` is a border of the prefix done
  and no border of the next prefix exceeds `length + 1` (`TableInv`). While the
  text is searched, the matched characters lie on the text (`MatchedSoFar`), no
  occurrence begins before the place where the pattern lies without being in `found`, and all of
  `found` lies before it (`SearchInv`). The lemmas on borders (a border of a
  border is a border, of two borders the shorter is one of the longer, a border
  grows and shrinks by one character) give the step: an occurrence that began
  inside the matched characters would be a longer border than the table's.

- *Files of a slave.* `Announces` joins to the property that the present file
  name is an announced one; only so can a job's copy not reach another file. One lemma per
  case of `executeCommandFunctions` shows that a request keeps it.
- *Flow parser.* On any file the arrays `depend_modules` and `task_vector` have
  the shape that the counts of lines give them (`Shaped`, `Vector`), and the
  names and levels stay as first read (`NamesKnown`). The rest is about regular files. The
  lines with the keyword are those the writer declared, so the module a line is
  taken for (`entry`) is the rank of its line among them (`OnEntry`); the level
  counted after m modules is the level of the m-th, so the sizes counted are
  those of the levels (`Sized`), and the rooms add up to the modules. The search keeps that
  `counter_for_line` is the rank of the last keyword read on the line (`OnLine`),
  and that the texts of the keywords reached so far are the names written there while all
  others are empty (`TextsReached`); with entries of zero it can lose no keyword, since
  the two halves of the keyword differ. A misled search keeps only what its arrays' sizes say, which is
  all that `EveryModuleOnce` needs. `Filled` ties the task vector to the rooms.
- *Cluster.* A step of the cluster is a step of the master or leaves it alone
  (`MasterInCluster`, by the form of `ClusterNext`), so the invariants of the
  master may be used. `ClusterTypeOK` is inductive as it stands: a connection exists
  while the master waits in `requestSlave` for the slave, and only then.
  `SilentInv` follows an answer of the slave from the buffer: it is still in `parse`, with fewer than two fields, or what was reported of the slave is nothing.
  `Textless` is the store of a slave without a file name and without a text,
  which no request of this master changes (`ClusterTypeOK` says whose request a slave holds).
- *Echo.* `Queue` (a client is in the queue once, or taken, or neither) makes the
  one who is accepted a client that has read nothing (`Answer`).
- *Exchanges.* `OwnFiles` says what an undisturbed exchange finds in the files at
  each of its places; a step of another server that changes a file is one that
  `Disturb` records for all who still need it.
- *Scan.* `TmpIsScan` and `CopySoFar`: the lines copied are those before `line`;
  `OfOneScan` is what is left of that when the copy is over or cut off.
- *Memory.* A quotient less than one by half a unit of the text or more is rounded
  to at most one unit below one (`LessThanOne`), whatever the unit.
- *Specification.* That a number is never twice its last digit, and that more
  than two sockets have more threads than twice a digit, decide which machines
  are recognised; what the script has written is still the present at the read
  because the machine's own steps are between measurements.

- *Types of the four parts.* That nobody is both in the queue and accepted rests on
  `Queue` and `Connected`, that a client shows something exactly when it is done on the
  invariant of the exchanges, and that the copy does not run past its lines on `CopySoFar`.

**Induction over data.** What is counted along the lines of a file (the level
counted, the names, the rooms) is proved for files of every length. The
induction theorems of the library take a predicate as parameter, which the
backends cannot instantiate; `Ranked_proofs!NatSets` states induction for a *set* of
natural numbers instead, from the well-foundedness of `<`, and each induction builds the
set of the numbers for which its statement holds.

**Only model-checked:** what needs fairness, which the provers do not reach:
`AbandonedEnds`, `EndsOrWaits`, `Terminates`, `EndsUnlessMisled`,
`HangsOnlyInDeadlock`, `HeldUpOnlyBySilence`, `HangsOnlyOnScript`.

## 6. Not modelled

- Sizes: the buffers of 64 and 128 bytes, `strcpy` into them and the 64 bytes
  that are sent of 128. The hazards name the lines; texts here have no length.
- `jobs_and_results.cpp`: no part calls it and no header declares it.
- `get_master_ip.cpp`: a program of its own whose output nobody reads.
- `parser-backup.cpp`, a former `parser.cpp`; `slave/test.cpp` and
  `slave/test_vector.cpp`, scratch programs.
- `initIdtoNameMap` and `printVector` of the parser: an inverse map and output.
- `addSlaveNodeToFile` of the discovery, called by nobody; `getJobString`, which
  reads a file into a text with no other effect.
- sqlite, nmap, python, mpstat and TCP beyond what the calls in `src/` observe;
  the table of slaves is *partly* modelled for that reason.
- More than one real slave at once: in `Cluster` the other hosts behave as in
  `Master`, which allows every behaviour of a slave.

## 7. Plan

The plan of the project, in its order of importance, is done: `SlaveCommand`, `SlaveDaemon`,
`SlaveContract`; `Master`, `LevelSchedule`; `Kmp`; `Cluster`; `FlowParser`;
`EchoService`, `ScriptExchange`, `SystemSpec`, `HostScan`; proofs of every safety property.
What could follow:

1. What the liveness properties rest on, as safety: that the table of `Kmp` is
   decreasing and the search has a measure that every step lowers; that a daemon
   with its port lost has one descriptor less after each round.
2. That the sets `Occurrences` in `FlowParser` are what `Kmp` finds, as a
   theorem over both modules instead of by the shape of their definitions.
3. A cluster of two real slaves, whose results compete for the one contact that
   `AtMostOneContact` leaves.
