--------------------------- MODULE LevelSchedule ---------------------------
(***************************************************************************)
(* The schedule a master follows: the levels of the application in order,  *)
(* every job of a level attempted once and in order, then as many polls    *)
(* for results as the level has jobs, then the next level.  The run may    *)
(* stop anywhere.                                                          *)
(***************************************************************************)
EXTENDS Naturals, Sequences

CONSTANT Levels  \* the modules of each level of the application

VARIABLES
  level,    \* the level being run
  tried,    \* the jobs of the level that have been attempted
  polls,    \* the polls for results that have been made for the level
  running   \* the run has not stopped

vars == <<level, tried, polls, running>>

Init ==
  /\ level = 1
  /\ tried = 0
  /\ polls = 0
  /\ running = TRUE

InLevel == running /\ level <= Len(Levels)

Attempt ==
  /\ InLevel
  /\ tried < Len(Levels[level])
  /\ tried' = tried + 1
  /\ UNCHANGED <<level, polls, running>>

Poll ==
  /\ InLevel
  /\ tried = Len(Levels[level])
  /\ polls < Len(Levels[level])
  /\ polls' = polls + 1
  /\ UNCHANGED <<level, tried, running>>

Advance ==
  /\ InLevel
  /\ tried = Len(Levels[level])
  /\ polls = Len(Levels[level])
  /\ level' = level + 1
  /\ tried' = 0
  /\ polls' = 0
  /\ UNCHANGED running

Stop ==
  /\ running
  /\ running' = FALSE
  /\ UNCHANGED <<level, tried, polls>>

Next == Attempt \/ Poll \/ Advance \/ Stop

Spec == Init /\ [][Next]_vars
=============================================================================
