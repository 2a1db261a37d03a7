------------------------------ MODULE HostScan ------------------------------
(***************************************************************************)
(* discover_hosts.cpp: a scan by nmap into discovered_hosts.tmp, whose     *)
(* lines that are no comments are cut into discovered_hosts.               *)
(*                                                                         *)
(* Both files stay when the master ends, and a later master starts with    *)
(* them; neither need be one that can be opened.  nmap is external and its *)
(* status is dropped.  A line is a comment or stands for the address       *)
(* between its columns 6 and "(".                                          *)
(***************************************************************************)
EXTENDS Naturals, Sequences

CONSTANTS
  Addresses,
  Reports,  \* what scans may find: lists of addresses
  Comment   \* a line that begins with #

ASSUME ScanAssumption ==
  /\ Comment \notin Addresses
  /\ Reports \subseteq Seq(Addresses)

VARIABLES
  scanning,  \* where the master is
  tmp,       \* the lines of discovered_hosts.tmp
  hosts,     \* the lines of discovered_hosts
  line,      \* the line of tmp that is read next
  input,     \* the stream on tmp has been opened
  output,    \* the stream on discovered_hosts has been opened
  scanned,   \* history: what the last scan that wrote its file has found
  source     \* history: the scan that was there when hosts was emptied

scanVars == <<scanning, tmp, hosts, line, input, output, scanned, source>>

ScanTypeOK ==
  /\ scanning \in {"scan", "open", "copy", "done", "ended"}
  /\ tmp \in Seq(Addresses \cup {Comment})
  /\ hosts \in Seq(Addresses)
  /\ line \in Nat \ {0}
  /\ scanning = "copy" => line <= Len(tmp) + 1
  /\ {input, output} \subseteq BOOLEAN
  /\ {scanned, source} \subseteq Seq(Addresses)

(* A file that does not exist yet has no lines.                            *)
ScanInit ==
  /\ scanning = "scan"
  /\ tmp = <<>>
  /\ hosts = <<>>
  /\ line = 1
  /\ input = FALSE
  /\ output = FALSE
  /\ scanned = <<>>
  /\ source = <<>>

-----------------------------------------------------------------------------
(* The system call.  A scan may be cut off before its last line, or leave  *)
(* the file as it was: no nmap, no permission.                             *)
Scan ==
  /\ scanning = "scan"
  /\ scanning' = "open"
  /\ scanned' \in Reports
  /\ \E tail \in {<<>>, <<Comment>>} : tmp' = <<Comment>> \o scanned' \o tail
  /\ UNCHANGED <<hosts, line, input, output, source>>

ScanFails ==
  /\ scanning = "scan"
  /\ scanning' = "open"
  /\ UNCHANGED <<tmp, hosts, line, input, output, scanned, source>>

(* The two streams are opened, or not.                                     *)
Opens ==
  /\ input' \in BOOLEAN
  /\ output' \in BOOLEAN
  /\ source' = IF output' THEN scanned ELSE source

(* Variant: the hosts are added to those of former scans.                  *)
OpenFilesToAppend ==
  /\ scanning = "open"
  /\ Opens
  /\ scanning' = IF input' THEN "copy" ELSE "done"
  /\ line' = 1
  /\ UNCHANGED <<tmp, hosts, scanned>>

(* The output is emptied before a line is read, and whether there is an    *)
(* input or not; without an input that is all.                             *)
OpenFiles ==
  /\ scanning = "open"
  /\ Opens
  /\ scanning' = IF input' THEN "copy" ELSE "done"
  /\ hosts' = IF output' THEN <<>> ELSE hosts
  /\ line' = 1
  /\ UNCHANGED <<tmp, scanned>>

(* Without an output the line is read all the same.                        *)
CopyLine ==
  /\ scanning = "copy"
  /\ line <= Len(tmp)
  /\ hosts' = IF tmp[line] = Comment \/ ~ output THEN hosts ELSE Append(hosts, tmp[line])
  /\ line' = line + 1
  /\ UNCHANGED <<scanning, tmp, input, output, scanned, source>>

FileRead ==
  /\ scanning = "copy"
  /\ line > Len(tmp)
  /\ scanning' = "done"
  /\ UNCHANGED <<tmp, hosts, line, input, output, scanned, source>>

(* The master ends, in the middle of a scan or later.                      *)
Interrupted ==
  /\ scanning # "ended"
  /\ scanning' = "ended"
  /\ UNCHANGED <<tmp, hosts, line, input, output, scanned, source>>

Restart ==
  /\ scanning = "ended"
  /\ scanning' = "scan"
  /\ UNCHANGED <<tmp, hosts, line, input, output, scanned, source>>

ScanNext ==
  \/ Scan \/ ScanFails \/ OpenFiles \/ CopyLine \/ FileRead
  \/ Interrupted \/ Restart

ScanSpec == ScanInit /\ [][ScanNext]_scanVars

-----------------------------------------------------------------------------
(* The list the master goes on with is the beginning of one scan, never a  *)
(* mixture of two, whichever runs failed, could not open a file or ended   *)
(* in the middle before; and it is all of the last scan that wrote its     *)
(* file, if both files can be opened.  If they cannot, discover_hosts.cpp  *)
(* goes on with an empty list or with that of an earlier run.              *)
HostsOfOneScan ==
  /\ \E k \in 0..Len(source) : hosts = SubSeq(source, 1, k)
  /\ scanning = "done" /\ input /\ output => hosts = scanned
=============================================================================
