----------------------------- MODULE SystemSpec -----------------------------
(***************************************************************************)
(* What a slave says of its machine (system_spec.cpp), and what the master *)
(* takes from it.                                                          *)
(*                                                                         *)
(* The machine is external: its cores, its memory, mpstat and the files in *)
(* the working directory.  A measurement opens cpu_util, runs the script   *)
(* that writes it, and then reads the stream it has opened before.         *)
(***************************************************************************)
EXTENDS Integers

CONSTANTS
  Machines,  \* records [sockets, cores, threads]: cores a socket, threads a core
  Memories,  \* records [total, free]: the first lines of /proc/meminfo, in kB
  Garbage,   \* totals that what follows the digits in memory may make of them
  Precision, \* what the last digit of a printed number is worth: 1 / Precision
  Usages,    \* percentages of the processor in use
  Missing,   \* cpu_util does not exist
  NoValue,   \* cpu_util is empty
  NotANumber

ASSUME SystemAssumption ==
  /\ Machines \subseteq [sockets : Nat \ {0}, cores : Nat \ {0}, threads : {1, 2}]
  /\ \A m \in Memories : m.total \in Nat /\ m.free \in 0..m.total
  /\ Garbage \subseteq Int
  /\ Precision \in Nat \ {0}
  /\ Usages \subseteq 0..100

VARIABLES
  measuring,    \* where getUtilizations is
  cpu_util,     \* the content of that file
  opened,       \* the stream on it is open
  usage,        \* the processor in use
  memory,       \* the lines of /proc/meminfo
  machine,      \* the cores of the machine
  specs,        \* the global specs, as prepareSystemSpecDS left it
  utilization,  \* what getCpuUtilization has returned
  total_memory, \* the total it was computed with
  memory_util,  \* what getMemoryUtilization has returned, as it is printed
  scriptRan     \* history: the script of this measurement wrote a value

systemVars == <<measuring, cpu_util, opened, usage, memory, machine, specs,
              utilization, total_memory, memory_util, scriptRan>>

SystemTypeOK ==
  /\ measuring \in {"idle", "open", "script", "read"}
  /\ cpu_util \in Usages \cup {Missing, NoValue}
  /\ opened \in BOOLEAN
  /\ usage \in Usages
  /\ memory \in Memories
  /\ machine \in Machines
  /\ specs \in [is_hyperthreaded : BOOLEAN, number_of_cores : Nat, total_memory : Int]
  /\ utilization \in 0..100
  /\ total_memory \in Int
  /\ memory_util \in Int \cup {NotANumber}
  /\ scriptRan \in BOOLEAN

SystemInit ==
  /\ measuring = "idle"
  /\ cpu_util \in {Missing, NoValue}
  /\ opened = FALSE
  /\ usage \in Usages
  /\ memory \in Memories
  /\ machine \in Machines
  /\ specs = [is_hyperthreaded |-> FALSE, number_of_cores |-> 0, total_memory |-> 0]
  /\ utilization = 0
  /\ total_memory = 0
  /\ memory_util = 0
  /\ scriptRan = FALSE

-----------------------------------------------------------------------------
(* The static parameters.                                                  *)

hardware_concurrency(m) == m.sockets * m.cores * m.threads

(* Variant: the number is taken from the line "siblings".                  *)
Siblings(m) == (m.cores * m.threads) % 10

(* The last character of the line "cpu cores" of /proc/cpuinfo.            *)
PhysicalCores(m) == m.cores % 10

is_hyperthreaded(m) == hardware_concurrency(m) = 2 * PhysicalCores(m)

(* The digits are stored past the end of an empty string: what else is     *)
(* there may be taken for digits, too, and a number of so many digits may  *)
(* come out as any integer.                                                *)
TotalMemory(total) == { total \div 1024 } \cup Garbage

PrepareSystemSpecDS ==
  /\ measuring = "idle"
  /\ specs' \in [is_hyperthreaded : {is_hyperthreaded(machine)},
                 number_of_cores : {hardware_concurrency(machine)},
                 total_memory : TotalMemory(memory.total)]
  /\ UNCHANGED <<measuring, cpu_util, opened, usage, memory, machine,
                 utilization, total_memory, memory_util, scriptRan>>

-----------------------------------------------------------------------------
(* The utilizations.                                                       *)

(* Variant: the ratio is one of integers.                                  *)
RatioOfIntegers(free_mem, total) ==
  IF total = 0 THEN {NotANumber} ELSE {Precision * (1 - free_mem \div total)}

(* The integers nearest to n / d: there are two if it is half-way.         *)
Rounded(n, d) == { k \in {n \div d, n \div d + 1} : 2 * (n - k * d) \in -d..d }

(* 1 - free / total, rounded as to_string writes it.                       *)
Ratio(free_mem, total) ==
  IF total = 0 THEN {NotANumber}
  ELSE IF total > 0 THEN Rounded(Precision * (total - free_mem), total)
  ELSE Rounded(Precision * (free_mem - total), -total)

GetMemoryUtilization ==
  /\ measuring = "idle"
  /\ measuring' = "open"
  /\ total_memory' \in TotalMemory(memory.total)
  /\ memory_util' \in Ratio(memory.free \div 1024, total_memory')
  /\ UNCHANGED <<cpu_util, opened, usage, memory, machine, specs, utilization,
                 scriptRan>>

OpenCpuUtil ==
  /\ measuring = "open"
  /\ measuring' = "script"
  /\ opened' = (cpu_util # Missing)
  /\ UNCHANGED <<cpu_util, usage, memory, machine, specs, utilization,
                 total_memory, memory_util, scriptRan>>

(* Variant: the value is written once the stream has been read.            *)
ScriptWritesLate ==
  /\ measuring = "script"
  /\ measuring' = "read"
  /\ cpu_util' = IF cpu_util = Missing THEN usage ELSE cpu_util
  /\ scriptRan' = TRUE
  /\ UNCHANGED <<opened, usage, memory, machine, specs, utilization,
                 total_memory, memory_util>>

(* The script is in the working directory and mpstat is installed.         *)
ScriptWrites ==
  /\ measuring = "script"
  /\ measuring' = "read"
  /\ cpu_util' = usage
  /\ scriptRan' = TRUE
  /\ UNCHANGED <<opened, usage, memory, machine, specs, utilization,
                 total_memory, memory_util>>

(* The file is truncated, and there is no mpstat to fill it.               *)
ScriptEmpties ==
  /\ measuring = "script"
  /\ measuring' = "read"
  /\ cpu_util' = NoValue
  /\ scriptRan' = FALSE
  /\ UNCHANGED <<opened, usage, memory, machine, specs, utilization,
                 total_memory, memory_util>>

(* The shell finds no script; its status is dropped.                       *)
ScriptMissing ==
  /\ measuring = "script"
  /\ measuring' = "read"
  /\ scriptRan' = FALSE
  /\ UNCHANGED <<cpu_util, opened, usage, memory, machine, specs, utilization,
                 total_memory, memory_util>>

(* atoi of the first line, which is empty if there is no stream.           *)
ReadCpuUtil ==
  /\ measuring = "read"
  /\ measuring' = "idle"
  /\ utilization' = IF opened /\ cpu_util \in Usages THEN cpu_util ELSE 0
  /\ opened' = FALSE
  /\ UNCHANGED <<cpu_util, usage, memory, machine, specs, total_memory,
                 memory_util, scriptRan>>

(* The machine goes on between two measurements.                           *)
Work ==
  /\ measuring = "idle"
  /\ usage' \in Usages
  /\ memory' \in Memories
  /\ UNCHANGED <<measuring, cpu_util, opened, machine, specs, utilization,
                 total_memory, memory_util, scriptRan>>

SystemNext ==
  \/ PrepareSystemSpecDS
  \/ GetMemoryUtilization \/ OpenCpuUtil
  \/ ScriptWrites \/ ScriptEmpties \/ ScriptMissing
  \/ ReadCpuUtil \/ Work

SystemSpecification == SystemInit /\ [][SystemNext]_systemVars

-----------------------------------------------------------------------------
(* atoi of the text of a utilization, as parseResponse takes LM: what is   *)
(* behind the point is cut off.                                            *)
LM(util) ==
  IF util = NotANumber THEN 0
  ELSE IF util >= 0 THEN util \div Precision
  ELSE - (- util \div Precision)

(* Hyperthreading is recognised on a machine of one socket with fewer than *)
(* ten cores.  It is never recognised on a larger machine, where one digit *)
(* is not the number of the cores, and two small sockets are taken for it. *)
HyperthreadingSeen ==
  specs.number_of_cores > 0 =>
    (specs.is_hyperthreaded <=>
       machine.cores < 10 /\ (IF machine.threads = 2 THEN machine.sockets = 1
                              ELSE machine.sockets = 2))

(* A measurement that ends with the script having run returns the present  *)
(* value, although the stream was opened before the script wrote it; one   *)
(* that finds no file to open returns zero.                                *)
MeasuresThePresent ==
  [][ measuring = "read" /\ measuring' = "idle" /\ scriptRan
        => utilization' = (IF opened THEN usage ELSE 0) ]_systemVars

(* The memory in use is a fraction, so that the integer the master takes   *)
(* of it is zero for every host that has a megabyte left: the hosts it     *)
(* compares differ by the processor only, or not at all.  It is so unless  *)
(* what stands behind the digits has made the total less than what is      *)
(* free, or so much more that the fraction is printed as a one             *)
(* (getTotalMemory, getMemoryUtilization, getUtilizations).                *)
MemoryIsLostOnTheWay ==
  [][ measuring = "idle" /\ measuring' = "open" /\ memory.free >= 1024
        => LET free_mem == memory.free \div 1024
           IN  \/ LM(memory_util') = 0
               \/ total_memory' < free_mem
               \/ 2 * Precision * free_mem <= total_memory' ]_systemVars
=============================================================================
