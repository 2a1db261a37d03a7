----------------------------- MODULE FlowParser -----------------------------
(***************************************************************************)
(* parser/parser.cpp, task_manager/node.cpp and the overload of kmpSearch  *)
(* that reads dependencies: from the lines of a flow file to task_vector.  *)
(* A function that only computes from the lines is an operator of its      *)
(* name; the steps that may leave an array are actions, and so is each     *)
(* turn of the last search, which runs over a table that nobody fills.     *)
(*                                                                         *)
(* Text is a sequence of characters, of which the keywords take as few as  *)
(* matter: one for "level", two for "module", so that a match may fail     *)
(* half-way.  What the other overloads of kmpSearch return is the set      *)
(* Occurrences, as module Kmp establishes.  A line comes with what its     *)
(* writer means by it, which only the properties look at.                  *)
(***************************************************************************)
EXTENDS Ranked, Sequences

CONSTANTS
  Lines,       \* the lines a flow file may have
  Files,       \* the flow files
  StraySizes,  \* what may stand behind the array of the sizes of the levels
  MaxMatches   \* bound: matches counted on one line

LevelWord == <<"level">>
ModuleWord == <<"mod", "ule">>
Space == " "
Arrow == ">"
Comma == ","

(* Where the pattern begins in the text, counted from 0.                   *)
Occurrences(text, pattern) ==
  { s \in 0..Len(text) - Len(pattern) :
      SubSeq(text, s + 1, s + Len(pattern)) = pattern }

(* The text behind its first s characters, up to the character stop.       *)
UpTo(text, s, stop) ==
  LET before == { e \in s + 1..Len(text) : \A c \in s + 1..e : text[c] # stop }
  IN  SubSeq(text, s + 1, s + Cardinality(before))

Characters == UNION { { l.text[c] : c \in DOMAIN l.text } : l \in Lines }

(* The name stands behind the first s characters of the text, on its own.  *)
StandsAt(name, text, s, inside, behind) ==
  /\ s \in Occurrences(text, name)
  /\ \A c \in DOMAIN name : name[c] \notin inside \cup behind
  /\ \E e \in s + Len(name)..Len(text) :
       /\ \A c \in s + Len(name) + 1..e : text[c] \in inside
       /\ e < Len(text) => text[e + 1] \in behind

(* A line that declares a module begins its name, and the name of each     *)
(* module it depends on, with the keyword, and has it nowhere else: the    *)
(* module's own up to a ">", and the others up to a ",".                   *)
Declares(l) ==
  LET starts == Occurrences(l.text, ModuleWord)
  IN  /\ Occurrences(l.text, LevelWord) = {}
      /\ Cardinality(starts) \in 1..MaxMatches
      /\ l.name \in Seq(Characters) /\ l.depends \in Seq(Seq(Characters))
      /\ StandsAt(l.name, l.text, Nth(starts, 1), {Space}, {Arrow})
      /\ Comma \notin { l.name[c] : c \in DOMAIN l.name }
      /\ Len(l.depends) = Cardinality(starts) - 1
      /\ \A d \in DOMAIN l.depends :
           StandsAt(l.depends[d], l.text, Nth(starts, d + 1), {}, {Comma})

ASSUME FlowAssumption ==
  /\ Files \subseteq Seq(Lines)
  /\ StraySizes \subseteq Nat
  /\ MaxMatches \in Nat
  /\ \A l \in Lines :
       /\ l.text \in Seq(Characters)
       /\ l.kind \in {"level", "module", "other"}
       /\ l.kind = "level" => /\ Occurrences(l.text, LevelWord) # {}
                              /\ Occurrences(l.text, ModuleWord) = {}
       /\ l.kind = "module" => Declares(l)

VARIABLES
  pc,                \* what comes next, or how it ended
  file,              \* lines_from_file
  module_names, module_level,
  task_vector,
  depend_modules,    \* a text for each module and each of its dependencies
  line,              \* the line searched for dependencies
  entry,             \* iterator2: the module the line is taken for
  index_text, index_pattern,
  counter_for_line,
  table,             \* the entries of the table that have been read
  stray,             \* history: an array was left at one of its ends
  misled             \* history: an entry of the table was not zero

loop == <<index_text, index_pattern, counter_for_line, table>>
search == <<line, entry, loop, misled>>
modules == <<file, module_names, module_level>>
vars == <<pc, modules, task_vector, depend_modules, search, stray>>

Final == {"done", "aborted"}

EmptyNode == [module_id |-> 0, level |-> 0, num_dependencies |-> 0, dep_id |-> <<>>]

NoEntries == [p \in {} |-> 0]

Init ==
  /\ pc = "read"
  /\ file \in Files
  /\ module_names = <<>>
  /\ module_level = <<>>
  /\ task_vector = <<>>
  /\ depend_modules = <<>>
  /\ line = 1
  /\ entry = 1
  /\ index_text = 0
  /\ index_pattern = 0
  /\ counter_for_line = 0
  /\ table = NoEntries
  /\ stray = FALSE
  /\ misled = FALSE

-----------------------------------------------------------------------------
(* What is computed from the lines.                                        *)

LinesWith(pattern) == { k \in DOMAIN file : Occurrences(file[k].text, pattern) # {} }

Places(pattern) == UNION { {k} \X Occurrences(file[k].text, pattern) : k \in DOMAIN file }

(* The matches of kmpSearch on all lines: with flag 0 or 1 it stops at the *)
(* first of a line.                                                        *)
InAllLines(pattern, flag) ==
  IF flag \in {0, 1} THEN Cardinality(LinesWith(pattern)) ELSE Cardinality(Places(pattern))

level_count == InAllLines(LevelWord, 0)

module_count == InAllLines(ModuleWord, 1)

(* The line of module m, and where the keyword begins on line k.           *)
LineOf(m) == Nth(LinesWith(ModuleWord), m)
Keywords(k) == Occurrences(file[k].text, ModuleWord)

WithoutSpaces(text) ==
  LET kept_chars == { c \in DOMAIN text : text[c] # Space }
  IN  [c \in 1..Cardinality(kept_chars) |-> text[Nth(kept_chars, c)]]

(* From the first keyword on, up to a ">", without the spaces.             *)
NameOn(k) == WithoutSpaces(UpTo(file[k].text, Nth(Keywords(k), 1), Arrow))

(* Every line without the keyword, whatever it is, raises the level.       *)
LevelOf(k) == Cardinality({ n \in 1..k : Keywords(n) = {} }) - 1

(* The level counted, iterator2, after m modules: it rises by one, however *)
(* far the next module's is.                                               *)
LevelCounted[m \in 0..Len(module_level)] ==
  IF m = 0 THEN 0
  ELSE IF module_level[m] > LevelCounted[m - 1] THEN LevelCounted[m - 1] + 1
  ELSE LevelCounted[m - 1]

(* Variant: the module that opens a level is not counted in it.            *)
SizesFromZero ==
  [l \in 1..LevelCounted[Len(module_level)] + 1 |->
     Cardinality({ m \in DOMAIN module_level : module_level[m] = LevelCounted[m - 1]
                                            /\ LevelCounted[m] = l - 1 })]

(* A module is counted unless its level is below the one counted.          *)
num_modules_in_level ==
  [l \in 1..LevelCounted[Len(module_level)] + 1 |->
     Cardinality({ m \in DOMAIN module_level : module_level[m] >= LevelCounted[m]
                                            /\ LevelCounted[m] = l - 1 })]

(* modulename_to_moduleid_map: the last module of a name has it, and a map *)
(* of names to numbers gives 0 for a name it does not hold.                *)
IdOf(name) ==
  LET at == { m \in DOMAIN module_names : module_names[m] = name }
  IN  IF at = {} THEN 0 ELSE Nth(at, Cardinality(at)) - 1

(* How often the name stands in the file, less one: this overload does not *)
(* stop at a match, whatever KMP_FLAG is.                                  *)
number_of_dependencies(name) == InAllLines(name, 3) - 1

(* Variant: the array has one entry for each module.                       *)
SizeByModules == module_count

(* The entries of temp_array.                                              *)
required_size == module_count + level_count

(* It is indexed by lines: the keywords of each, less one; entries without *)
(* a line keep the 0 of calloc.                                            *)
temp_array ==
  [k \in 1..required_size |-> IF k <= Len(file) THEN Cardinality(Keywords(k)) - 1 ELSE 0]

(* Variant: the mark of a line without a keyword is kept.                  *)
AllKept == 1..required_size

(* What is not -1 is kept, in order.                                       *)
kept == { k \in 1..required_size : temp_array[k] # -1 }

(* num_depends has one entry for each module.                              *)
num_deps ==
  [m \in 1..module_count |-> IF m <= Cardinality(kept) THEN temp_array[Nth(kept, m)] ELSE 0]

-----------------------------------------------------------------------------
GetModuleNamesAndLevels ==
  /\ pc = "read"
  /\ pc' = "declare"
  /\ module_names' = [m \in 1..module_count |-> NameOn(LineOf(m))]
  /\ module_level' = [m \in 1..module_count |-> LevelOf(LineOf(m))]
  /\ UNCHANGED <<file, task_vector, depend_modules, search, stray>>

(* declareVector.  With more levels than sizes the rest is read behind the *)
(* array, and a size that cannot be had ends the program.                  *)
DeclareVector ==
  /\ pc = "declare"
  /\ LET read == Len(num_modules_in_level)
     IN  /\ \E behind \in [read + 1..level_count -> StraySizes] :
              task_vector' = [l \in 1..level_count |->
                [x \in 1..(IF l <= read THEN num_modules_in_level[l] ELSE behind[l]) |->
                   EmptyNode]]
         /\ stray' = (level_count > read)
         /\ pc' \in IF stray' THEN {"depends", "aborted"} ELSE {"depends"}
  /\ UNCHANGED <<modules, depend_modules, search>>

(* getNumberOfDepends, and the texts: one for the module itself and one    *)
(* for each dependency.                                                    *)
GetNumberOfDepends ==
  /\ pc = "depends"
  /\ LET outside == Len(file) > required_size \/ Cardinality(kept) > module_count
     IN  /\ stray' = (stray \/ outside)
         /\ pc' \in IF outside THEN {"search", "aborted"} ELSE {"search"}
  /\ depend_modules' = [m \in 1..module_count |-> [d \in 1..num_deps[m] + 1 |-> <<>>]]
  /\ UNCHANGED <<modules, task_vector, search>>

-----------------------------------------------------------------------------
(* getDependsModuleNames: the search with an uninitialised table.  Index   *)
(* M + 1 stands for every index of the pattern past its end.               *)

M == Len(ModuleWord)
Text == file[line].text
N == Len(Text)

(* Whether pattern[p] = text[t] may hold: the pattern ends with a 0, and   *)
(* nobody knows what is behind it.                                         *)
Agrees(p, t) ==
  IF p < M THEN {ModuleWord[p + 1] = Text[t + 1]}
  ELSE IF p = M THEN {FALSE}
  ELSE BOOLEAN

(* longest_proper_prefix[p - 1] of this line; a value read once stays.     *)
Entries(p) == IF p \in DOMAIN table THEN {table[p]} ELSE 0..M + 1

FallTo(p) ==
  \E value \in Entries(p) :
    /\ index_pattern' = value
    /\ table' = IF p > M THEN table
                         ELSE [x \in DOMAIN table \cup {p} |->
                                 IF x = p THEN value ELSE table[x]]
    /\ misled' = (misled \/ value # 0)

(* Variant: every name ends at a ">".                                      *)
MatchedNameToMark(t) == IF t < M THEN <<>> ELSE UpTo(Text, t - M, Arrow)

(* The name at a match: the first on the line ends at ">", another at ",". *)
(* An index below 0 is not less than the size of the text.                 *)
MatchedName(t) ==
  IF t < M THEN <<>> ELSE UpTo(Text, t - M, IF counter_for_line = 0 THEN Arrow ELSE Comma)

Inside(n) == entry <= module_count /\ n <= Len(depend_modules[entry])

CountMatch ==
  counter_for_line' = IF counter_for_line < MaxMatches THEN counter_for_line + 1
                                                       ELSE MaxMatches

Match(p, t) ==
  /\ p = M
  /\ MatchedName(t) = <<>> \/ Inside(counter_for_line + 1)
  /\ depend_modules' =
       IF MatchedName(t) = <<>> THEN depend_modules
       ELSE [depend_modules EXCEPT ![entry][counter_for_line + 1] = @ \o MatchedName(t)]
  /\ CountMatch
  /\ FallTo(p)
  /\ index_text' = t
  /\ UNCHANGED <<pc, stray>>

(* More names than num_depends made room for.                              *)
MatchOutside(p, t) ==
  /\ p = M
  /\ MatchedName(t) # <<>>
  /\ ~ Inside(counter_for_line + 1)
  /\ CountMatch
  /\ FallTo(p)
  /\ index_text' = t
  /\ stray' = TRUE
  /\ pc' \in {pc, "aborted"}
  /\ UNCHANGED depend_modules

Mismatch(p, t) == p # M /\ t < N /\ FALSE \in Agrees(p, t)

Fallback(p, t) ==
  /\ Mismatch(p, t)
  /\ p # 0
  /\ FallTo(p)
  /\ index_text' = t
  /\ stray' = (stray \/ p > M)
  /\ pc' \in IF p > M THEN {pc, "aborted"} ELSE {pc}
  /\ UNCHANGED <<depend_modules, counter_for_line>>

(* Variant: the text is not moved.                                         *)
SkipNothing(p, t) ==
  /\ Mismatch(p, t)
  /\ p = 0
  /\ index_text' = t
  /\ index_pattern' = p
  /\ UNCHANGED <<pc, depend_modules, counter_for_line, table, misled, stray>>

Skip(p, t) ==
  /\ Mismatch(p, t)
  /\ p = 0
  /\ index_text' = t + 1
  /\ index_pattern' = p
  /\ UNCHANGED <<pc, depend_modules, counter_for_line, table, misled, stray>>

(* The next characters agree, too, or the text is at its end.              *)
Proceed(p, t) ==
  /\ p # M
  /\ t < N => TRUE \in Agrees(p, t)
  /\ index_text' = t
  /\ index_pattern' = p
  /\ stray' = (stray \/ p > M)
  /\ UNCHANGED <<pc, depend_modules, counter_for_line, table, misled>>

(* One turn of the loop; its second half looks at the moved indices.       *)
SearchTurn ==
  /\ pc = "search"
  /\ line <= Len(file)
  /\ index_text < N
  /\ \E agree \in Agrees(index_pattern, index_text) :
       LET p == IF agree /\ index_pattern < M THEN index_pattern + 1 ELSE index_pattern
           t == IF agree THEN index_text + 1 ELSE index_text
       IN  \/ Match(p, t) \/ MatchOutside(p, t)
           \/ Fallback(p, t) \/ Skip(p, t) \/ Proceed(p, t)
  /\ UNCHANGED <<modules, task_vector, line, entry>>

(* A line with a match has used up its module; each line has a new table.  *)
NextLine ==
  /\ pc = "search"
  /\ line <= Len(file)
  /\ index_text >= N
  /\ line' = line + 1
  /\ entry' = IF counter_for_line > 0 THEN entry + 1 ELSE entry
  /\ index_text' = 0
  /\ index_pattern' = 0
  /\ counter_for_line' = 0
  /\ table' = NoEntries
  /\ UNCHANGED <<pc, modules, task_vector, depend_modules, stray, misled>>

SearchDone ==
  /\ pc = "search"
  /\ line > Len(file)
  /\ pc' = "fill"
  /\ UNCHANGED <<modules, task_vector, depend_modules, search, stray>>

-----------------------------------------------------------------------------
(* fillidVector: the ids of the texts found for module m.                  *)
IdsFound(m) == [d \in DOMAIN depend_modules[m] |-> IdOf(depend_modules[m][d])]

(* The first text is the module's own.                                     *)
getDependentModuleIds(m) == IF Len(IdsFound(m)) = 1 THEN <<-1>> ELSE Tail(IdsFound(m))

NodeOf(m) ==
  IF m \in DOMAIN module_names
    THEN [module_id        |-> IdOf(module_names[m]),
          level            |-> module_level[m],
          num_dependencies |-> number_of_dependencies(module_names[m]),
          dep_id           |-> getDependentModuleIds(m)]
    ELSE EmptyNode

Slots(l) == UNION { {k} \X DOMAIN task_vector[k] : k \in 1..l }

RoomUpTo(l) == Cardinality(Slots(l))

(* The modules are laid into the levels in the order of the file.  With    *)
(* more room than modules, names behind the array are read.                *)
FillVector ==
  /\ pc = "fill"
  /\ LET outside == RoomUpTo(Len(task_vector)) > Len(module_names)
     IN  /\ stray' = (stray \/ outside)
         /\ pc' \in IF outside THEN {"done", "aborted"} ELSE {"done"}
  /\ task_vector' = [l \in DOMAIN task_vector |->
                       [x \in DOMAIN task_vector[l] |-> NodeOf(RoomUpTo(l - 1) + x)]]
  /\ UNCHANGED <<modules, depend_modules, search>>

-----------------------------------------------------------------------------
Next ==
  \/ GetModuleNamesAndLevels \/ DeclareVector \/ GetNumberOfDepends
  \/ SearchTurn \/ NextLine \/ SearchDone
  \/ FillVector

Spec == Init /\ [][Next]_vars

FairSpec == Spec /\ WF_vars(Next)

-----------------------------------------------------------------------------
TypeOK ==
  /\ pc \in {"read", "declare", "depends", "search", "fill"} \cup Final
  /\ file \in Seq(Lines)
  /\ \A l \in DOMAIN task_vector : \A x \in DOMAIN task_vector[l] :
       DOMAIN task_vector[l][x] = DOMAIN EmptyNode
  /\ \A m \in DOMAIN depend_modules : depend_modules[m] # <<>>
  /\ index_pattern \in 0..M + 1
  /\ counter_for_line \in 0..MaxMatches
  /\ table \in [DOMAIN table -> 0..M + 1]
  /\ {stray, misled} \subseteq BOOLEAN

(* What the writer of a flow file may expect.                              *)

(* Levels that are not empty, one module to a line, no name twice.         *)
Regular ==
  /\ file # <<>>
  /\ file[1].kind = "level"
  /\ \A k \in DOMAIN file :
       /\ file[k].kind \in {"level", "module"}
       /\ file[k].kind = "level" => k < Len(file) /\ file[k + 1].kind = "module"
  /\ \A k, n \in DOMAIN file :
       file[k].kind = "module" /\ file[n].kind = "module" /\ k # n
         => file[k].name # file[n].name

Declared == { k \in DOMAIN file : file[k].kind = "module" }

LevelLines == { k \in DOMAIN file : file[k].kind = "level" }

(* The lines of the modules that level l has, and the module meant to be   *)
(* its x-th.                                                               *)
MeantAt(l) == { k \in Declared : Rank(LevelLines, k) = l }
Meant(l, x) == file[Nth(MeantAt(l), x)]

MeantId(name) ==
  LET at == { k \in Declared : file[k].name = name }
  IN  IF at = {} THEN 0 ELSE Rank(Declared, Nth(at, 1)) - 1

(* A regular file, read to the end and inside the arrays.                  *)
ReadWell == Regular /\ pc = "done" /\ ~ stray

Nodes == Slots(Len(task_vector))

(* Every module of a regular file is in the task vector once, in order, at *)
(* its level, with its id and with room for as many dependencies as its    *)
(* line names, even if the uninitialised table has misled the last search, *)
(* so long as it has not led out of an array (declareVector, fillVector).  *)
EveryModuleOnce ==
  ReadWell =>
    /\ Len(task_vector) = Cardinality(LevelLines)
    /\ \A l \in DOMAIN task_vector : Len(task_vector[l]) = Cardinality(MeantAt(l))
    /\ \A at \in Nodes :
         LET node == task_vector[at[1]][at[2]]
             meant == Meant(at[1], at[2])
         IN  /\ node.level = at[1] - 1
             /\ node.module_id = MeantId(meant.name)
             /\ Len(node.dep_id) = IF meant.depends = <<>> THEN 1 ELSE Len(meant.depends)

(* The ids of the dependencies are those of the modules named on the line, *)
(* unless an entry of the uninitialised table that was not zero has been   *)
(* used.  A name that no line declares passes for module 0                 *)
(* (getDependsModuleNames, fillidVector).                                  *)
DependenciesRight ==
  ReadWell /\ ~ misled =>
    \A at \in Nodes :
      LET meant == Meant(at[1], at[2])
      IN  task_vector[at[1]][at[2]].dep_id =
            IF meant.depends = <<>> THEN <<-1>>
            ELSE [d \in DOMAIN meant.depends |-> MeantId(meant.depends[d])]

(* Arrays are left, and the program aborts, only on a file that is not     *)
(* regular or in a search that was misled (getNumberOfDepends and          *)
(* declareVector index by lines and levels what is sized by modules).      *)
StaysInside == Regular /\ ~ misled => ~ stray /\ pc # "aborted"

(* Every name that a line of the file declares or mentions.                *)
Mentioned ==
  UNION { {file[k].name} \cup { file[k].depends[d] : d \in DOMAIN file[k].depends } :
            k \in Declared }

(* Where a name is mentioned as one depended on.                           *)
Mentions(name) ==
  UNION { {k} \X { d \in DOMAIN file[k].depends : file[k].depends[d] = name } :
            k \in Declared }

(* Parsing ends on every file, unless the last search, misled by its       *)
(* table, goes round for ever.                                             *)
EndsUnlessMisled == <>(pc \in Final) \/ <>[](pc = "search" /\ misled)

(* What num_dependencies is instead of what it is called: it counts the    *)
(* places that depend on the module, and more when its name is part of     *)
(* another (getDependsOnModulesNumber).                                    *)
CountsDependents ==
  ReadWell =>
    \A at \in Nodes :
      LET node == task_vector[at[1]][at[2]]
          meant == Meant(at[1], at[2])
      IN  /\ node.num_dependencies >= Cardinality(Mentions(meant.name))
          /\ (\A n \in Mentioned \ {meant.name} : Occurrences(n, meant.name) = {})
               => node.num_dependencies = Cardinality(Mentions(meant.name))

-----------------------------------------------------------------------------
(* What a comment of the code says of the parser, and it does not do.      *)

(* parser.cpp:98, "The function getDependsOnModulesNumber() obtains the    *)
(* number of modules a perticular module x is dependent on".               *)
CountsDependencies ==
  ReadWell =>
    \A at \in Nodes :
      task_vector[at[1]][at[2]].num_dependencies = Len(Meant(at[1], at[2]).depends)
=============================================================================
