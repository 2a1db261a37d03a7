--------------------------- MODULE ScriptExchange ---------------------------
(***************************************************************************)
(* Exchanges of a script for its output: the client TaskManager.c and the  *)
(* server Slave.c, each of which serves one exchange and ends.             *)
(*                                                                         *)
(* The servers of all exchanges run in one directory, on different ports   *)
(* or one after the other, and share the files PyScript.py and PyResult.   *)
(* The script of exchange e is e, and so is its output.  Outputs replace   *)
(* each other as a whole.                                                  *)
(***************************************************************************)
EXTENDS Naturals

CONSTANTS
  Exchanges,
  NoFile,  \* content of a file that does not exist
  Broken,  \* a script that python refuses
  Empty,   \* a file without bytes
  Old,     \* a result that was there before
  Nothing  \* no answer, nothing printed

ASSUME ScriptAssumption == Exchanges \cap {NoFile, Broken, Empty, Old, Nothing} = {}

Scripts == Exchanges \cup {NoFile, Broken}
Outputs == Exchanges \cup {NoFile, Empty, Old}

VARIABLES
  PyScript,    \* the content of PyScript.py
  PyResult,    \* the content of PyResult
  slave,       \* slave[e]: where the server of e is
  loaded,      \* loaded[e]: the script python runs for e
  answer,      \* answer[e]: what the server of e has sent
  asker,       \* asker[e]: where the client of e is
  printed,     \* printed[e]: what the client showed as "result of script"
  disturbed,   \* history: exchanges whose files another server wrote
  shellFailed  \* history: exchanges whose shell did not run

files == <<PyScript, PyResult>>
clientSide == <<asker, printed>>
scriptVars == <<files, slave, loaded, answer, clientSide, disturbed, shellFailed>>

Answers == Outputs \ {NoFile}

Shown == [what : {"result", "part", "script"}, of : Answers]

ScriptTypeOK ==
  /\ PyScript \in Scripts
  /\ PyResult \in Outputs
  /\ slave \in [Exchanges -> {"accept", "copy", "shell", "python", "running",
                              "send", "ended"}]
  /\ loaded \in [Exchanges -> Scripts]
  /\ answer \in [Exchanges -> Answers \cup {Nothing}]
  /\ asker \in [Exchanges -> {"start", "wait", "done"}]
  /\ \A e \in Exchanges :
       IF asker[e] = "done" THEN printed[e] \in Shown ELSE printed[e] = Nothing
  /\ disturbed \subseteq Exchanges
  /\ shellFailed \subseteq Exchanges

ScriptInit ==
  /\ PyScript \in {NoFile, Broken}
  /\ PyResult \in {NoFile, Empty, Old}
  /\ slave = [e \in Exchanges |-> "accept"]
  /\ loaded = [e \in Exchanges |-> NoFile]
  /\ answer = [e \in Exchanges |-> Nothing]
  /\ asker = [e \in Exchanges |-> "start"]
  /\ printed = [e \in Exchanges |-> Nothing]
  /\ disturbed = {}
  /\ shellFailed = {}

-----------------------------------------------------------------------------
(* The server.                                                             *)

Goes(e, from, to) ==
  /\ slave[e] = from
  /\ slave' = [slave EXCEPT ![e] = to]

(* Between the copy of its script and the end of its answer an exchange    *)
(* depends on what others do to the files.                                 *)
Disturb(e) ==
  disturbed' = disturbed \cup
    { d \in Exchanges \ {e} : slave[d] \in {"shell", "python", "running", "send"} }

Receive(e) ==
  /\ asker[e] # "start"
  /\ Goes(e, "accept", "copy")
  /\ UNCHANGED <<files, loaded, answer, clientSide, disturbed, shellFailed>>

(* The file is opened without O_CREAT and always gets 255 bytes, what the  *)
(* buffer holds beyond the script included, so python may refuse it.       *)
CopyScript(e) ==
  /\ PyScript # NoFile
  /\ Goes(e, "copy", "shell")
  /\ PyScript' \in {e, Broken}
  /\ Disturb(e)
  /\ UNCHANGED <<PyResult, loaded, answer, clientSide, shellFailed>>

(* Variant: the server waits for another script.                           *)
NoScriptFileWaits(e) ==
  /\ PyScript = NoFile
  /\ Goes(e, "copy", "accept")
  /\ UNCHANGED <<files, loaded, answer, clientSide, disturbed, shellFailed>>

NoScriptFile(e) ==
  /\ PyScript = NoFile
  /\ Goes(e, "copy", "ended")
  /\ UNCHANGED <<files, loaded, answer, clientSide, disturbed, shellFailed>>

(* Variant: the shell appends to the result.                               *)
ShellAppends(e) ==
  /\ Goes(e, "shell", "python")
  /\ PyResult' = IF PyResult = NoFile THEN Empty ELSE PyResult
  /\ Disturb(e)
  /\ UNCHANGED <<PyScript, loaded, answer, clientSide, shellFailed>>

ShellRuns(e) ==
  /\ Goes(e, "shell", "python")
  /\ PyResult' = Empty
  /\ Disturb(e)
  /\ UNCHANGED <<PyScript, loaded, answer, clientSide, shellFailed>>

(* The status of system() is dropped.                                      *)
ShellFails(e) ==
  /\ Goes(e, "shell", "send")
  /\ shellFailed' = shellFailed \cup {e}
  /\ UNCHANGED <<files, loaded, answer, clientSide, disturbed>>

Load(e) ==
  /\ Goes(e, "python", "running")
  /\ loaded' = [loaded EXCEPT ![e] = PyScript]
  /\ UNCHANGED <<files, answer, clientSide, disturbed, shellFailed>>

(* A script may write nothing, and one that python refuses does not run.   *)
Finish(e) ==
  /\ Goes(e, "running", "send")
  /\ \/ /\ loaded[e] \in Exchanges
        /\ PyResult' = loaded[e]
        /\ Disturb(e)
     \/ UNCHANGED <<PyResult, disturbed>>
  /\ UNCHANGED <<PyScript, loaded, answer, clientSide, shellFailed>>

(* Variant: that the file cannot be opened is not noticed.                 *)
SendResultBackUnchecked(e) ==
  /\ Goes(e, "send", "ended")
  /\ answer' = [answer EXCEPT ![e] = PyResult]
  /\ UNCHANGED <<files, loaded, clientSide, disturbed, shellFailed>>

SendResultBack(e) ==
  /\ PyResult # NoFile
  /\ Goes(e, "send", "ended")
  /\ answer' = [answer EXCEPT ![e] = PyResult]
  /\ UNCHANGED <<files, loaded, clientSide, disturbed, shellFailed>>

NoResultFile(e) ==
  /\ PyResult = NoFile
  /\ Goes(e, "send", "ended")
  /\ UNCHANGED <<files, loaded, answer, clientSide, disturbed, shellFailed>>

(* An interrupt, which system() ignores while it waits for the shell.      *)
Killed(e) ==
  /\ slave[e] \notin {"python", "running", "ended"}
  /\ slave' = [slave EXCEPT ![e] = "ended"]
  /\ UNCHANGED <<files, loaded, answer, clientSide, disturbed, shellFailed>>

(* Everything but the script itself, which may run for ever.               *)
SlaveStep(e) ==
  \/ Receive(e) \/ CopyScript(e) \/ NoScriptFile(e)
  \/ ShellRuns(e) \/ ShellFails(e) \/ Load(e)
  \/ SendResultBack(e) \/ NoResultFile(e)

-----------------------------------------------------------------------------
(* The client.                                                             *)

SendScript(e) ==
  /\ asker[e] = "start"
  /\ slave[e] = "accept"
  /\ asker' = [asker EXCEPT ![e] = "wait"]
  /\ UNCHANGED <<files, slave, loaded, answer, printed, disturbed, shellFailed>>

(* The answer is read into the buffer of the script.  One read may get a   *)
(* part of it, which the rest of the script then follows, and if the       *)
(* server has ended without an answer the script is all there is.          *)
ShowResult(e) ==
  /\ asker[e] = "wait"
  /\ slave[e] = "ended"
  /\ asker' = [asker EXCEPT ![e] = "done"]
  /\ \E what \in {"result", "part", "script"} :
       /\ what = "script" <=> answer[e] = Nothing
       /\ printed' = [printed EXCEPT ![e] =
            [what |-> what, of |-> IF what = "script" THEN e ELSE answer[e]]]
  /\ UNCHANGED <<files, slave, loaded, answer, disturbed, shellFailed>>

ScriptNext ==
  \E e \in Exchanges :
    SlaveStep(e) \/ Finish(e) \/ Killed(e) \/ SendScript(e) \/ ShowResult(e)

ScriptSpec == ScriptInit /\ [][ScriptNext]_scriptVars

(* The processes run; a script need not end.                               *)
ScriptFairness ==
  \A e \in Exchanges : WF_scriptVars(SlaveStep(e)) /\ WF_scriptVars(ShowResult(e))

-----------------------------------------------------------------------------
(* What is shown as "result of script" (TaskManager.c:63) and is not the   *)
(* output of that script has one of two causes: another server used the    *)
(* directory in the meantime, or the shell did not run and PyResult is the *)
(* one of an earlier exchange.                                             *)
ForeignResultHasACause ==
  \A e \in Exchanges :
    /\ asker[e] = "done"
    /\ printed[e].what # "script"
    /\ e \notin disturbed \cup shellFailed
    => printed[e].of \in {e, Empty}

(* A client hangs only on a script that does not end, whichever of the     *)
(* files is missing and whatever fails.                                    *)
HangsOnlyOnScript ==
  \A e \in Exchanges :
    <>[](asker[e] = "wait") => <>[](slave[e] = "running")
=============================================================================
