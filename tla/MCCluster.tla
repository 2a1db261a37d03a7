----------------------------- MODULE MCCluster -----------------------------
(***************************************************************************)
(* A slave behind another host, which answers as it likes, and an          *)
(* application of one job.                                                 *)
(***************************************************************************)
EXTENDS Cluster

MCHosts == <<"other", "slave">>

MCLevels == << <<"1">> >>

MCModules == {"1"}

MCFileNames == {"1.py"}

MCWords == MCFileNames \cup {"getutilizations", "getstaticparams", "1", "text"}

MCPyFile == [w \in MCWords |-> "1.py"]

MCJobString == [m \in MCModules |-> <<"text">>]

MCCommands ==
  { Req("REQ", << <<"getstaticparams">> >>), Req("REQ", << <<"getutilizations">> >>),
    Req("JOB", << <<"1", "text">> >>) }
=============================================================================
