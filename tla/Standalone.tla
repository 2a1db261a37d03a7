----------------------------- MODULE Standalone -----------------------------
(***************************************************************************)
(* The parts that meet the rest of the system only through files or not at *)
(* all, each by itself: part says which one this behaviour is about.       *)
(***************************************************************************)
EXTENDS EchoService, ScriptExchange, SystemSpec, HostScan

VARIABLE part

allVars == <<part, echoVars, scriptVars, systemVars, scanVars>>

Parts == {"echo", "script", "system", "scan"}

Init ==
  /\ part \in Parts
  /\ EchoInit /\ ScriptInit /\ SystemInit /\ ScanInit

(* The parts a behaviour is not about stay in one of their initial states. *)
Next ==
  \/ part = "echo" /\ EchoNext /\ UNCHANGED <<part, scriptVars, systemVars, scanVars>>
  \/ part = "script" /\ ScriptNext /\ UNCHANGED <<part, echoVars, systemVars, scanVars>>
  \/ part = "system" /\ SystemNext /\ UNCHANGED <<part, echoVars, scriptVars, scanVars>>
  \/ part = "scan" /\ ScanNext /\ UNCHANGED <<part, echoVars, scriptVars, systemVars>>

Spec == Init /\ [][Next]_allVars

(* Nothing a part is fair to is enabled in its initial state, so that the  *)
(* fairness of one asks nothing of a behaviour of another.                 *)
FairSpec == Spec /\ EchoFairness /\ ScriptFairness

(* Every variable of every part has its type: in the queue of the echo     *)
(* server is nobody it has accepted (server.c), a client shows something   *)
(* only when it is done (TaskManager.c), a processor is never used by more *)
(* than a hundred per cent (system_spec.cpp), and the copy of a scan does  *)
(* not run past its lines (discover_hosts.cpp).                            *)
TypeOK == EchoTypeOK /\ ScriptTypeOK /\ SystemTypeOK /\ ScanTypeOK
=============================================================================
