--------------------------- MODULE MCSlaveDaemon ---------------------------
(***************************************************************************)
(* A slave with few descriptors and a master that sends each kind of       *)
(* request the daemon tells apart.                                         *)
(***************************************************************************)
EXTENDS SlaveDaemon

MCFileNames == {"job.py", "1.py"}

MCWords == MCFileNames \cup {"getutilizations", "1", "text"}

MCPyFile == [w \in MCWords |-> "1.py"]

Req(header, args) == [header |-> header, complete |-> TRUE, args |-> args]

(* One request per path through parseCommandFromMaster and                 *)
(* executeCommandFunctions: executed, too short for the code that takes    *)
(* its lines or words, and with a header that is not known.                *)
MCCommands ==
  { [header |-> "REQ", complete |-> FALSE, args |-> <<>>],
    Req("REQ", << <<"getutilizations">> >>),
    Req("RES", <<>>),
    Req("FILE", << <<"1">> >>),
    Req("FILE", << <<"1">>, <<"job.py">> >>),
    Req("JOB", << <<"1">> >>),
    Req("JOB", << <<"1", "text">> >>),
    Req("unknown", << <<"1", "text">>, <<"job.py">> >>) }

(* The requests of the run with a helpful master: one of each of the kinds *)
(* the master has.                                                         *)
FewCommands ==
  { Req("REQ", << <<"getutilizations">> >>), Req("JOB", << <<"1">> >>) }
=============================================================================
