---------------------------- MODULE MCStandalone ----------------------------
(***************************************************************************)
(* Small instances of the parts, and one initial state of those that a     *)
(* behaviour is not about.                                                 *)
(***************************************************************************)
EXTENDS Standalone

MCMachines == [sockets : 1..3, cores : {4, 10}, threads : {1, 2}]

MCMemories ==
  { [total |-> 900, free |-> f] : f \in {0, 700} }
    \cup { [total |-> 8192, free |-> f] : f \in {1023, 1024, 8192} }
    \cup { [total |-> 2048 * 1024, free |-> 1024] }

(* A total cut off below what is free, one below zero, and two that are    *)
(* larger than those of all memories.                                      *)
MCGarbage == {5, -5, 30, 3000}

MCReports == { <<>>, <<"a">>, <<"b", "a">>, <<"a", "b">>, <<"a", "b", "c">> }

OneRest ==
  /\ part # "script" => PyScript = NoFile /\ PyResult = NoFile
  /\ part # "system" => /\ cpu_util = Missing /\ usage = 0
                        /\ memory = [total |-> 900, free |-> 0]
                        /\ machine = [sockets |-> 1, cores |-> 4, threads |-> 1]

MCInit == Init /\ OneRest

MCSpec == MCInit /\ [][Next]_allVars /\ EchoFairness /\ ScriptFairness
=============================================================================
