---------------------------- MODULE SlaveCommand ----------------------------
(***************************************************************************)
(* What a slave does with one request of the master:                       *)
(* processRequestFromMaster of slave/parse_command.cpp.                    *)
(*                                                                         *)
(* The module is constant-level: Outcomes(c, st) is the set of everything  *)
(* that processing the request c may do to the store st of a slave.  The   *)
(* store is the part of the slave that outlives a request: the global      *)
(* new_job and the files the slave keeps in its working directory.         *)
(*                                                                         *)
(* A text is a sequence of words.  Only what the code tells apart is kept: *)
(* the header line, whether the three header lines are all there, and the  *)
(* remaining lines, each a sequence of words.                              *)
(***************************************************************************)
EXTENDS Naturals, Sequences

CONSTANTS
  Words,      \* the words a line may hold
  FileNames,  \* the file names in use in the slave's working directory
  PyFile,     \* PyFile[w] is the file name "<w>.py"
  Commands,   \* the requests that may arrive
  NoName,     \* new_job.file_name while no FILE request has set it
  Absent,     \* content of a file that does not exist
  Empty       \* content of a file (or output of a program) with no text

Headers == {"REQ", "RES", "JOB", "FILE", "unknown"}

Lines == Seq(Words)

Request == [header : Headers, complete : BOOLEAN, args : Seq(Lines)]

(* A FILE request names its file by the whole of its second line, which is *)
(* one word here, and the name is then one of FileNames.  An unknown       *)
(* header is executed as any type, so the same is asked of it.             *)
NamesAFile(c) ==
  c.header \in {"FILE", "unknown"} /\ Len(c.args) >= 2
    => /\ Len(c.args[2]) = 1
       /\ Head(c.args[2]) \in FileNames

ASSUME CommandAssumption ==
  /\ FileNames \subseteq Words
  /\ PyFile \in [Words -> FileNames]
  /\ Commands \subseteq Request
  /\ \A c \in Commands : NamesAFile(c)
  /\ NoName \notin Words
  /\ Absent \notin Words
  /\ Empty \notin Words
  /\ Absent # Empty

Contents == Words \cup {Absent, Empty}

(* file_name is new_job.file_name (module_id and result of new_job are     *)
(* assigned and never read); disk maps a file to its text; result is the   *)
(* file "result", identified with the program whose output it holds.       *)
Store == [file_name : FileNames \cup {NoName},
          disk      : [FileNames -> Contents],
          result    : Contents]

-----------------------------------------------------------------------------
(* The request functions of slave/execute_function.cpp, by name.           *)

FunctionID(line) ==
  CASE line = <<"getutilizations">> -> 1
    [] line = <<"getstaticparams">> -> 2
    [] line = <<"preparejobfile">>  -> 3
    [] OTHER                        -> 0

CallFunctionByID(id) ==
  CASE id = 1 -> "utilizations"
    [] id = 2 -> "staticparams"
    [] OTHER  -> "Null"

-----------------------------------------------------------------------------
(* command_type: 0 REQ, 1 RES, 2 FILE, 3 JOB.  An unknown header assigns   *)
(* nothing, so the type is whatever the stack held.                        *)

CommandTypes(header) ==
  CASE header = "REQ"  -> {0}
    [] header = "RES"  -> {1}
    [] header = "FILE" -> {2}
    [] header = "JOB"  -> {3}
    [] OTHER           -> 0..4

ResponseType(type) ==
  CASE type = 0 -> "RES"
    [] type = 1 -> ""
    [] type = 2 -> "RES"
    [] type = 3 -> "RESULT"
    [] OTHER    -> "Null"

ResultTexts == {"utilizations", "staticparams", "Null", "success", ""}

Responses == [type : {"RES", "", "RESULT", "Null"}, results : Seq(ResultTexts)]

NoResponse == [type |-> "", results |-> <<>>]

Answer(st, type, results) ==
  [throws |-> FALSE, store |-> st,
   response |-> [type |-> ResponseType(type), results |-> results]]

(* vector::at outside the vector: the exception is caught by nobody.       *)
Throw(st) == [throws |-> TRUE, store |-> st, response |-> NoResponse]

-----------------------------------------------------------------------------
(* Files.  An open may fail; opened for output, the file is truncated.     *)

CreateFile(disk, name) ==
  { [ok |-> TRUE, disk |-> [disk EXCEPT ![name] = Empty]],
    [ok |-> FALSE, disk |-> disk] }

(* The text goes to new_job.file_name, whatever file was just created.     *)
CopyJobToFile(disk, name, text) ==
  IF name = NoName
    THEN { disk }
    ELSE { disk, [disk EXCEPT ![name] = text] }

(* "python <file> > result": the shell truncates "result" before python    *)
(* looks for its script.  The status of system() is dropped, so when the   *)
(* shell does not run or cannot open "result", an older output stays.      *)
ExecuteJob(disk, result, name) ==
  { result,
    IF name = NoName \/ disk[name] \in {Absent, Empty}
      THEN Empty
      ELSE disk[name] }

-----------------------------------------------------------------------------
(* executeCommandFunctions, one operator per case of its switch.           *)

ExecuteREQ(args, st) ==
  { Answer(st, 0, [k \in DOMAIN args |-> CallFunctionByID(FunctionID(args[k]))]) }

(* Variant: the file is named by the first line, the module id.            *)
ExecuteFILEFirstLine(args, st) ==
  IF Len(args) < 2
    THEN { Throw(st) }
    ELSE { Answer([st EXCEPT !.file_name = Head(args[1]), !.disk = made.disk], 2,
                  IF made.ok THEN <<"success">> ELSE <<>>) :
             made \in CreateFile(st.disk, Head(args[1])) }

ExecuteFILE(args, st) ==
  IF Len(args) < 2
    THEN { Throw(st) }
    ELSE { Answer([st EXCEPT !.file_name = Head(args[2]), !.disk = made.disk], 2,
                  IF made.ok THEN <<"success">> ELSE <<>>) :
             made \in CreateFile(st.disk, Head(args[2])) }

(* Variant: the text goes to the file created for the job.                 *)
ExecuteJOBInItsFile(args, st) ==
  IF Len(args) = 0 \/ Len(args[1]) < 2
    THEN { Throw(st) }
    ELSE { Answer([st EXCEPT !.disk = copied], 3, <<"">>) :
             copied \in CopyJobToFile(st.disk, PyFile[args[1][1]], args[1][2]) }

(* The first word of the job line is the module id, the second is all that *)
(* is kept of the program.  Copying may fail and the job is executed all   *)
(* the same; the file the answer is read from is written by nobody.        *)
ExecuteJOB(args, st) ==
  IF Len(args) = 0 \/ Len(args[1]) < 2
    THEN { Throw(st) }
    ELSE UNION { UNION { { Answer([st EXCEPT !.disk = copied, !.result = output],
                                  3, <<"">>) :
                             output \in ExecuteJob(copied, st.result, st.file_name) } :
                           copied \in CopyJobToFile(made.disk, st.file_name, args[1][2]) } :
                 made \in CreateFile(st.disk, PyFile[args[1][1]]) }

Execute(type, args, st) ==
  CASE type = 0 -> ExecuteREQ(args, st)
    [] type = 2 -> ExecuteFILE(args, st)
    [] type = 3 -> ExecuteJOB(args, st)
    [] OTHER    -> { Answer(st, type, <<>>) }

(* processRequestFromMaster: parse, execute, build the response packet.    *)
(* The status of the parse is dropped.                                     *)
Outcomes(c, st) ==
  IF ~ c.complete
    THEN { Throw(st) }
    ELSE UNION { Execute(type, c.args, st) : type \in CommandTypes(c.header) }
=============================================================================
