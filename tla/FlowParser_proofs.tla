-------------------------- MODULE FlowParser_proofs --------------------------
(***************************************************************************)
(* The parser of flow files: its type invariant, that it stays inside its  *)
(* arrays and that the task vector holds what the file says.               *)
(***************************************************************************)
EXTENDS FlowLines_proofs

(***************************************************************************)
(* The inductive invariant.                                                *)
(***************************************************************************)

Numbers ==
  /\ pc \in {"read", "declare", "depends", "search", "fill", "done", "aborted"}
  /\ file \in Files
  /\ line \in Nat \ {0}
  /\ entry \in Nat \ {0}
  /\ index_text \in Nat
  /\ index_pattern \in 0..3
  /\ counter_for_line \in 0..MaxMatches
  /\ table \in [DOMAIN table -> 0..3]
  /\ stray \in BOOLEAN
  /\ misled \in BOOLEAN

(* What the first step has read stays.                                     *)
NamesKnown == pc # "read" => NamesRead /\ LevelsRead

(* The task vector of a regular file has the sizes counted.                *)
Vector ==
  /\ \A l \in DOMAIN task_vector : \A x \in DOMAIN task_vector[l] :
       DOMAIN task_vector[l][x] = DOMAIN EmptyNode
  /\ pc \notin {"read", "declare"} /\ Regular => Sized

(* A text for each module and for each of its dependencies.                *)
Shaped ==
  /\ DOMAIN depend_modules = 1..module_count
  /\ \A m \in 1..module_count : DOMAIN depend_modules[m] = 1..num_deps[m] + 1

Room ==
  /\ depend_modules = <<>> \/ Shaped
  /\ pc \in {"search", "fill", "done"} => Shaped

(* Before the search its variables are as it expects them.                 *)
Waiting ==
  pc \in {"read", "declare", "depends"} =>
    /\ line = 1 /\ entry = 1
    /\ index_text = 0 /\ index_pattern = 0 /\ counter_for_line = 0
    /\ (Regular => ~ stray)

(* The text that belongs to dependency d - 1 of module m.                  *)
TextAt(m, d) ==
  UpTo(file[LineOf(m)].text, Nth(Keywords(LineOf(m)), d), IF d = 1 THEN Arrow ELSE Comma)

(* Whether the search has come to it, on line k, behind c keywords.        *)
Reached(m, d, k, c) == LineOf(m) < k \/ (LineOf(m) = k /\ d <= c)

TextsReached(texts, k, c) ==
  \A m \in 1..module_count : \A d \in 1..num_deps[m] + 1 :
    texts[m][d] = IF Reached(m, d, k, c) THEN TextAt(m, d) ELSE <<>>

(* How the search stands on line k, at character t, p characters of the    *)
(* keyword matched and c keywords behind it.                               *)
OnLine(k, t, p, c) ==
  k <= Len(file) =>
    /\ t <= Len(file[k].text)
    /\ c = Rank(Keywords(k), t - 2)
    /\ p = 0 => t - 1 \notin Keywords(k)
    /\ p = 1 => t # 0 /\ file[k].text[t] = "mod"

OnEntry(k, e) == k <= Len(file) + 1 /\ e = Rank(Declared, k - 1) + 1

(* On a regular file a search that is not misled finds each keyword.       *)
Search ==
  Regular /\ ~ misled =>
    /\ ~ stray
    /\ pc # "aborted"
    /\ pc = "search" =>
         /\ index_pattern \in {0, 1}
         /\ OnEntry(line, entry)
         /\ OnLine(line, index_text, index_pattern, counter_for_line)
         /\ TextsReached(depend_modules, line, counter_for_line)
    /\ pc \in {"fill", "done"} => TextsReached(depend_modules, Len(file) + 1, 0)

(* The modules are laid out in order.                                      *)
Filled ==
  pc = "done" /\ Regular /\ ~ stray =>
    \A l \in 1..level_count : \A x \in 1..num_modules_in_level[l] :
      task_vector[l][x] = NodeOf(RoomUpTo(l - 1) + x)

Inv ==
  /\ Numbers
  /\ NamesKnown
  /\ Vector
  /\ Room
  /\ Waiting
  /\ Search
  /\ Filled

(***************************************************************************)
(* Text.                                                                   *)
(***************************************************************************)

LEMMA KeywordLength == Len(ModuleWord) = 2 /\ M = 2 /\ ModuleWord[1] = "mod" /\ ModuleWord[2] = "ule"
  BY DEF ModuleWord, M

LEMMA UpToIsText ==
  ASSUME NEW text \in Seq(Characters), NEW s \in Nat, s <= Len(text), NEW stop
  PROVE  UpTo(text, s, stop) \in Seq(Characters)
<1> DEFINE before == { e \in s + 1..Len(text) : \A c \in s + 1..e : text[c] # stop }
<1>1. Len(text) \in Nat
  OBVIOUS
<1>2. /\ IsFiniteSet(s + 1..Len(text))
      /\ Cardinality(s + 1..Len(text))
           = IF s + 1 > Len(text) THEN 0 ELSE Len(text) - (s + 1) + 1
  <2>1. s + 1 \in Int /\ Len(text) \in Int
    BY <1>1
  <2> QED
    BY <2>1, FS_Interval
<1>3. before \in SUBSET (s + 1..Len(text))
  OBVIOUS
<1> HIDE DEF before
<1>4. IsFiniteSet(before) /\ Cardinality(before) <= Cardinality(s + 1..Len(text))
  BY <1>2, <1>3, FS_Subset
<1>5. Cardinality(before) \in Nat
  BY <1>4, FS_CardinalityType
<1> DEFINE n == Cardinality(before)
<1>6. n \in Nat /\ s + n <= Len(text)
  <2>1. Cardinality(s + 1..Len(text)) = Len(text) - s
    BY <1>1, <1>2
  <2>2. n <= Len(text) - s /\ n \in Nat
    BY <1>4, <1>5, <2>1
  <2> HIDE DEF n
  <2> QED
    BY <1>1, <2>2
<1> HIDE DEF n
<1>7. \A i \in s + 1..s + n : text[i] \in Characters
  BY <1>1, <1>6
<1>8. SubSeq(text, s + 1, s + n) \in Seq(Characters)
  BY <1>6, <1>7, SubSeqProperties
<1> QED
  BY <1>8 DEF UpTo, n, before

LEMMA NothingBefore ==
  ASSUME NEW t \in Seq(Characters)
  PROVE  <<>> \o t = t
  BY ConcatEmptySeq

(* How the search stands depends on the lines alone.                       *)
LEMMA SameSearch ==
  ASSUME file' = file
  PROVE  /\ \A k, t, p, c : OnLine(k, t, p, c)' <=> OnLine(k, t, p, c)
         /\ \A k, e : OnEntry(k, e)' <=> OnEntry(k, e)
         /\ \A texts, k, c : TextsReached(texts, k, c)' <=> TextsReached(texts, k, c)
<1>1. \A k, t, p, c : OnLine(k, t, p, c)' <=> OnLine(k, t, p, c)
  BY SameLines DEF OnLine
<1>2. Declared' = Declared
  BY DEF Declared
<1>3. \A k, e : OnEntry(k, e)' <=> OnEntry(k, e)
  BY <1>2 DEF OnEntry
<1>4. \A m, d : TextAt(m, d)' = TextAt(m, d)
  BY SameLines DEF TextAt
<1>5. \A m, d, k, c : Reached(m, d, k, c)' <=> Reached(m, d, k, c)
  BY SameLines DEF Reached
<1>6. \A texts, k, c : TextsReached(texts, k, c)' <=> TextsReached(texts, k, c)
  BY <1>4, <1>5, SameLines DEF TextsReached
<1> QED
  BY <1>1, <1>3, <1>6

LEMMA SearchPrimed ==
  ASSUME file' = file,
         Regular /\ ~ misled' =>
           /\ ~ stray'
           /\ pc' # "aborted"
           /\ pc' = "search" =>
                /\ index_pattern' \in {0, 1}
                /\ OnEntry(line', entry')
                /\ OnLine(line', index_text', index_pattern', counter_for_line')
                /\ TextsReached(depend_modules', line', counter_for_line')
           /\ pc' \in {"fill", "done"} => TextsReached(depend_modules', Len(file) + 1, 0)
  PROVE  Search'
BY SameSearch, SameLines DEF Search

(***************************************************************************)
(* The steps before and after the search.                                  *)
(***************************************************************************)

LEMMA InitInv ==
  ASSUME Init
  PROVE  Inv
<1>1. MaxMatches \in Nat
  BY FlowAssumption
<1>2. NoEntries \in [DOMAIN NoEntries -> 0..3]
  BY DEF NoEntries
<1>3. 0 \in 0..MaxMatches
  BY <1>1
<1>4. Numbers
  <2>1. table \in [DOMAIN table -> 0..3]
    BY <1>2 DEF Init
  <2>2. counter_for_line \in 0..MaxMatches
    BY <1>3 DEF Init
  <2>3. /\ pc = "read" /\ file \in Files /\ line = 1 /\ entry = 1
        /\ index_text = 0 /\ index_pattern = 0 /\ stray = FALSE /\ misled = FALSE
    BY DEF Init
  <2>4. 1 \in Nat \ {0} /\ 0 \in Nat /\ 0 \in 0..3
    OBVIOUS
  <2> QED
    BY <2>1, <2>2, <2>3, <2>4 DEF Numbers
<1>5. NamesKnown /\ Vector /\ Room /\ Waiting /\ Search /\ Filled
  BY DEF Init, NamesKnown, Vector, Room, Waiting, Search, Filled
<1> QED
  BY <1>4, <1>5 DEF Inv

LEMMA ReadInv ==
  ASSUME Inv, GetModuleNamesAndLevels
  PROVE  Inv'
<1> USE DEF Inv, GetModuleNamesAndLevels, search, loop
<1>1. file' = file
  OBVIOUS
<1>2. Numbers'
  BY DEF Numbers
<1>3. NamesKnown'
  BY <1>1, SameLines DEF NamesKnown, NamesRead, LevelsRead
<1>4. Vector'
  BY DEF Vector
<1>5. Room'
  BY <1>1, SameLines DEF Room, Shaped
<1>6. Waiting'
  BY <1>1, SameLines DEF Waiting
<1>7. Search'
  BY <1>1, SameLines DEF Search, Waiting
<1>8. Filled'
  BY DEF Filled
<1> QED
  BY <1>2, <1>3, <1>4, <1>5, <1>6, <1>7, <1>8

LEMMA DeclareInv ==
  ASSUME Inv, DeclareVector
  PROVE  Inv'
<1> USE DEF Inv, search, loop, modules
<1>1. /\ file' = file /\ file \in Files /\ pc = "declare"
      /\ UNCHANGED <<file, module_names, module_level, depend_modules>>
      /\ UNCHANGED <<line, entry, index_text, index_pattern, counter_for_line, table, misled>>
  BY DEF DeclareVector, Numbers
<1>2. /\ stray' = (level_count > Len(num_modules_in_level))
      /\ pc' \in IF stray' THEN {"depends", "aborted"} ELSE {"depends"}
  BY DEF DeclareVector
<1>3. PICK behind \in [Len(num_modules_in_level) + 1..level_count -> StraySizes] :
        task_vector' = [l \in 1..level_count |->
          [x \in 1..(IF l <= Len(num_modules_in_level) THEN num_modules_in_level[l] ELSE behind[l]) |->
             EmptyNode]]
  BY DEF DeclareVector
<1>4. NamesRead /\ LevelsRead
  BY <1>1 DEF NamesKnown
<1>5. ASSUME Regular
      PROVE  stray' = FALSE /\ pc' = "depends" /\ Sized'
  <2>1. level_count \in Nat /\ Len(num_modules_in_level) = level_count
    BY <1>1, <1>4, <1>5, RegularLevelSizes
  <2>2. \A l \in 1..level_count : DOMAIN task_vector'[l] = 1..num_modules_in_level[l]
    BY <1>3, <2>1
  <2>3. DOMAIN task_vector' = 1..level_count
    BY <1>3
  <2>4. num_modules_in_level' = num_modules_in_level
    BY <1>1 DEF num_modules_in_level, LevelCounted
  <2>5. level_count' = level_count
    BY <1>1, SameLines
  <2>6. Sized'
    BY <2>2, <2>3, <2>4, <2>5 DEF Sized
  <2>7. stray' = FALSE
    <3>1. (level_count > Len(num_modules_in_level)) = FALSE
      BY <2>1
    <3> QED
      BY <1>2, <3>1, Zenon
  <2> QED
    BY <1>2, <2>6, <2>7
<1>6. Numbers'
  BY <1>1, <1>2 DEF Numbers
<1>7. NamesKnown'
  BY <1>1, <1>4, SameLines DEF NamesKnown, NamesRead, LevelsRead
<1>8. Vector'
  <2>1. \A l \in DOMAIN task_vector' : \A x \in DOMAIN task_vector'[l] :
          task_vector'[l][x] = EmptyNode
    BY <1>3
  <2>2. EmptyNode' = EmptyNode
    BY DEF EmptyNode
  <2>3. Regular' => Sized'
    BY <1>1, <1>5, SameLines
  <2> QED
    BY <2>1, <2>2, <2>3 DEF Vector
<1>9. Room'
  BY <1>1, <1>2, SameLines DEF Room, Shaped
<1>10. Waiting'
  BY <1>1, <1>5, SameLines DEF Waiting
<1>11. Search'
  BY <1>1, <1>5, SameLines DEF Search
<1>12. Filled'
  BY <1>2 DEF Filled
<1> QED
  BY <1>6, <1>7, <1>8, <1>9, <1>10, <1>11, <1>12

(* The search begins a line with nothing matched.                          *)
LEMMA FirstOnLine ==
  ASSUME file \in Files, NEW k \in Nat \ {0}
  PROVE  OnLine(k, 0, 0, 0)
<1> SUFFICES ASSUME k <= Len(file)
             PROVE  0 <= Len(file[k].text) /\ 0 = Rank(Keywords(k), 0 - 2) /\ 0 - 1 \notin Keywords(k)
  BY DEF OnLine
<1>1. k \in DOMAIN file
  BY LinesType
<1>2. Len(file[k].text) \in Nat
  BY <1>1, LinesType
<1>3. Keywords(k) \subseteq Nat
  BY <1>1, KeywordPlaces, PlacesFinite
<1>4. \A s \in Keywords(k) : ~ (s <= 0 - 2)
  BY <1>3
<1> QED
  BY <1>2, <1>3, <1>4, RankNone

LEMMA BeginInv ==
  ASSUME Inv, GetNumberOfDepends
  PROVE  Inv'
<1> USE DEF Inv, search, loop, modules
<1>1. /\ file' = file /\ file \in Files /\ pc = "depends"
      /\ UNCHANGED <<file, module_names, module_level, task_vector>>
      /\ UNCHANGED <<line, entry, index_text, index_pattern, counter_for_line, table, misled>>
      /\ line = 1 /\ entry = 1 /\ index_text = 0 /\ index_pattern = 0 /\ counter_for_line = 0
  BY DEF GetNumberOfDepends, Numbers, Waiting
<1> DEFINE outside == Len(file) > required_size \/ Cardinality(kept) > module_count
<1>2. /\ stray' = (stray \/ outside)
      /\ pc' \in IF outside THEN {"search", "aborted"} ELSE {"search"}
  BY DEF GetNumberOfDepends
<1>3. depend_modules' = [m \in 1..module_count |-> [d \in 1..num_deps[m] + 1 |-> <<>>]]
  BY DEF GetNumberOfDepends
<1>4. NamesRead /\ LevelsRead
  BY <1>1 DEF NamesKnown
<1>5. ASSUME Regular
      PROVE  stray' = FALSE /\ pc' = "search"
  <2>1. /\ required_size = Len(file) /\ Cardinality(kept) = module_count
        /\ module_count \in Nat /\ Len(file) \in Nat
    BY <1>1, <1>5, RegularSizes, CountsType, LinesType
  <2>2. ~ outside
    BY <2>1
  <2>3. ~ stray
    BY <1>1, <1>5 DEF Waiting
  <2> QED
    BY <1>2, <2>2, <2>3
<1> HIDE DEF outside
<1>6. Numbers'
  BY <1>1, <1>2 DEF Numbers
<1>7. NamesKnown'
  BY <1>1, <1>4, SameLines DEF NamesKnown, NamesRead, LevelsRead
<1>8. Vector'
  <2>1. num_modules_in_level' = num_modules_in_level
    BY <1>1 DEF num_modules_in_level, LevelCounted
  <2>2. EmptyNode' = EmptyNode
    BY DEF EmptyNode
  <2>3. Regular' => Sized'
    BY <1>1, <2>1, SameLines DEF Vector, Sized
  <2> QED
    BY <1>1, <2>2, <2>3 DEF Vector
<1>9. Room'
  BY <1>1, <1>3, SameLines DEF Room, Shaped
<1>10. Waiting'
  BY <1>2 DEF Waiting
<1>11. Search'
  <2>1. SUFFICES ASSUME Regular
                 PROVE  OnEntry(1, 1) /\ OnLine(1, 0, 0, 0) /\ TextsReached(depend_modules', 1, 0)
    BY <1>1, <1>5, SearchPrimed
  <2>2. OnLine(1, 0, 0, 0)
    BY <1>1, FirstOnLine
  <2>3. OnEntry(1, 1)
    <3>1. Declared \subseteq Nat /\ 0 \notin Declared
      BY <1>1, KindsArePlaces, PlacesFinite, LinesType
    <3>2. \A k \in Declared : ~ (k <= 0)
      BY <3>1
    <3>3. Rank(Declared, 1 - 1) = 0
      BY <3>2, RankNone
    <3> QED
      BY <1>1, <3>3, LinesType DEF OnEntry
  <2>4. TextsReached(depend_modules', 1, 0)
    <3>1. \A m \in 1..module_count : LineOf(m) \in Nat /\ LineOf(m) >= 1
      BY <1>1, LineOfModule, LinesType
    <3>2. \A m \in 1..module_count : \A d \in 1..num_deps[m] + 1 : depend_modules'[m][d] = <<>>
      BY <1>3
    <3>3. \A m \in 1..module_count : \A d \in 1..num_deps[m] + 1 : ~ Reached(m, d, 1, 0)
      BY <1>1, <3>1, NumDepsType DEF Reached
    <3> QED
      BY <3>2, <3>3 DEF TextsReached
  <2> QED
    BY <2>2, <2>3, <2>4
<1>12. Filled'
  BY <1>2 DEF Filled
<1> QED
  BY <1>6, <1>7, <1>8, <1>9, <1>10, <1>11, <1>12

(* A step that touches neither the vector nor the texts keeps what is said *)
(* of them.                                                                *)
LEMMA VectorKept ==
  ASSUME Inv, UNCHANGED <<modules, task_vector>>,
         pc \notin {"read", "declare"}
  PROVE  Vector' /\ num_modules_in_level' = num_modules_in_level
<1>1. num_modules_in_level' = num_modules_in_level
  BY DEF num_modules_in_level, LevelCounted, modules
<1>2. EmptyNode' = EmptyNode
  BY DEF EmptyNode
<1>3. Regular' => Sized'
  BY <1>1, SameLines DEF Inv, Vector, Sized, modules
<1> QED
  BY <1>1, <1>2, <1>3 DEF Inv, Vector, modules

LEMMA NextLineInv ==
  ASSUME Inv, NextLine
  PROVE  Inv'
<1> USE DEF Inv, search, loop, modules
<1>1. /\ file' = file /\ file \in Files /\ pc = "search" /\ pc' = "search"
      /\ UNCHANGED <<file, module_names, module_level, task_vector, depend_modules, stray, misled>>
      /\ line \in Nat \ {0} /\ entry \in Nat \ {0} /\ line <= Len(file) /\ index_text >= N
      /\ line' = line + 1
      /\ entry' = IF counter_for_line > 0 THEN entry + 1 ELSE entry
      /\ index_text' = 0 /\ index_pattern' = 0 /\ counter_for_line' = 0
      /\ table' = NoEntries
      /\ index_text \in Nat /\ Len(file) \in Nat /\ line \in DOMAIN file
  BY LinesType DEF NextLine, Numbers
<1>2. Numbers'
  <2>1. table' \in [DOMAIN table' -> 0..3]
    BY <1>1 DEF NoEntries
  <2>2. 0 \in 0..MaxMatches
    BY FlowAssumption
  <2>3. line' \in Nat \ {0} /\ entry' \in Nat \ {0}
    BY <1>1
  <2>4. pc' = "search" /\ file' \in Files /\ index_text' \in Nat /\ index_pattern' \in 0..3
        /\ counter_for_line' \in 0..MaxMatches
    BY <1>1, <2>2
  <2>5. stray' \in BOOLEAN /\ misled' \in BOOLEAN
    BY <1>1 DEF Numbers
  <2> QED
    BY <2>1, <2>3, <2>4, <2>5 DEF Numbers
<1>3. NamesKnown'
  BY <1>1, SameLines DEF NamesKnown, NamesRead, LevelsRead
<1>4. Vector'
  BY <1>1, VectorKept
<1>5. Room'
  BY <1>1, SameLines DEF Room, Shaped
<1>6. Waiting'
  BY <1>1 DEF Waiting
<1>7. Filled'
  BY <1>1 DEF Filled
<1>8. Search'
  <2>1. SUFFICES ASSUME Regular, ~ misled
                 PROVE  /\ OnEntry(line + 1, entry')
                        /\ OnLine(line + 1, 0, 0, 0)
                        /\ TextsReached(depend_modules, line + 1, 0)
    BY <1>1, SearchPrimed DEF Search
  <2>2. /\ OnEntry(line, entry)
        /\ OnLine(line, index_text, index_pattern, counter_for_line)
        /\ TextsReached(depend_modules, line, counter_for_line)
    BY <1>1, <2>1 DEF Search
  <2>3. /\ IsPlaces(Keywords(line)) /\ Keywords(line) \subseteq Nat
        /\ Cardinality(Keywords(line)) \in Nat /\ IsFiniteSet(Keywords(line))
        /\ N \in Nat /\ N = Len(file[line].text)
    BY <1>1, KeywordPlaces, PlacesFinite, LinesType DEF N, Text
  <2>4. index_text = N
    BY <1>1, <2>2, <2>3 DEF OnLine
  <2>5. counter_for_line = Cardinality(Keywords(line))
    <3>1. Keywords(line) \subseteq 0..N - 2
      BY <2>3, KeywordLength DEF Keywords, Occurrences
    <3>2. \A s \in Keywords(line) : s <= index_text - 2
      BY <2>3, <2>4, <3>1
    <3>3. counter_for_line = Rank(Keywords(line), index_text - 2)
      BY <1>1, <2>2 DEF OnLine
    <3> QED
      BY <3>2, <3>3, RankAll
  <2>6. line \in Declared <=> counter_for_line > 0
    <3>1. line \in Declared <=> Keywords(line) # {}
      BY <1>1, <2>1, RegularKinds DEF LinesWith, Keywords
    <3>2. Keywords(line) = {} <=> Cardinality(Keywords(line)) = 0
      BY <2>3, FS_EmptySet
    <3> QED
      BY <2>3, <2>5, <3>1, <3>2
  <2>7. OnEntry(line + 1, entry')
    <3>1. Declared \subseteq Int /\ IsFiniteSet(Declared)
      BY <1>1, KindsArePlaces, PlacesFinite
    <3>2. \A k \in Int : Rank(Declared, k) = Rank(Declared, k - 1)
                                              + (IF k \in Declared THEN 1 ELSE 0)
      BY <3>1, RankStep
    <3>3. line \in Int /\ (line + 1) - 1 = line
      BY <1>1
    <3>4. Rank(Declared, line) = Rank(Declared, line - 1) + (IF line \in Declared THEN 1 ELSE 0)
      BY <3>2, <3>3
    <3>5. entry = Rank(Declared, line - 1) + 1 /\ Rank(Declared, line - 1) \in Nat
      BY <2>2, <3>1, RankType DEF OnEntry
    <3>6. entry' = Rank(Declared, line) + 1
      BY <1>1, <2>6, <3>4, <3>5
    <3> QED
      BY <1>1, <3>3, <3>6 DEF OnEntry
  <2>8. OnLine(line + 1, 0, 0, 0)
    <3>1. line + 1 \in Nat \ {0}
      BY <1>1
    <3> QED
      BY <1>1, <3>1, FirstOnLine
  <2>9. TextsReached(depend_modules, line + 1, 0)
    <3>1. \A m \in 1..module_count : LineOf(m) \in Nat
      BY <1>1, LineOfModule, LinesType
    <3>2. \A m \in 1..module_count : \A d \in 1..num_deps[m] + 1 :
            Reached(m, d, line + 1, 0) <=> Reached(m, d, line, counter_for_line)
      <4> TAKE m \in 1..module_count
      <4> TAKE d \in 1..num_deps[m] + 1
      <4>1. /\ LineOf(m) \in Nat /\ num_deps[m] \in Nat /\ d \in Nat \ {0}
            /\ num_deps[m] + 1 = Cardinality(Keywords(LineOf(m)))
        BY <1>1, <2>1, <3>1, NumDepsType, RegularNumDeps
      <4>2. LineOf(m) = line => d <= counter_for_line
        BY <2>3, <2>5, <4>1
      <4>3. LineOf(m) < line + 1 <=> LineOf(m) < line \/ LineOf(m) = line
        BY <1>1, <4>1
      <4>4. ~ (d <= 0)
        BY <4>1
      <4> QED
        BY <4>2, <4>3, <4>4 DEF Reached
    <3> QED
      BY <2>2, <3>2 DEF TextsReached
  <2> QED
    BY <2>7, <2>8, <2>9
<1> QED
  BY <1>2, <1>3, <1>4, <1>5, <1>6, <1>7, <1>8

LEMMA SearchDoneInv ==
  ASSUME Inv, SearchDone
  PROVE  Inv'
<1> USE DEF Inv, search, loop, modules
<1>1. /\ file' = file /\ file \in Files /\ pc = "search" /\ pc' = "fill"
      /\ UNCHANGED <<file, module_names, module_level, task_vector, depend_modules, stray, misled>>
      /\ UNCHANGED <<line, entry, index_text, index_pattern, counter_for_line, table>>
      /\ line > Len(file) /\ line \in Nat \ {0} /\ Len(file) \in Nat
  BY LinesType DEF SearchDone, Numbers
<1>2. Numbers'
  BY <1>1 DEF Numbers
<1>3. NamesKnown'
  BY <1>1, SameLines DEF NamesKnown, NamesRead, LevelsRead
<1>4. Vector'
  BY <1>1, VectorKept
<1>5. Room'
  BY <1>1, SameLines DEF Room, Shaped
<1>6. Waiting'
  BY <1>1 DEF Waiting
<1>7. Filled'
  BY <1>1 DEF Filled
<1>8. Search'
  <2>1. SUFFICES ASSUME Regular, ~ misled
                 PROVE  TextsReached(depend_modules, Len(file) + 1, 0)
    BY <1>1, SearchPrimed DEF Search
  <2>2. TextsReached(depend_modules, line, counter_for_line)
    BY <1>1, <2>1 DEF Search
  <2>3. \A m \in 1..module_count : LineOf(m) < line /\ LineOf(m) < Len(file) + 1
    BY <1>1, LineOfModule, LinesType
  <2> QED
    BY <2>2, <2>3 DEF TextsReached, Reached
<1> QED
  BY <1>2, <1>3, <1>4, <1>5, <1>6, <1>7, <1>8

LEMMA FillInv ==
  ASSUME Inv, FillVector
  PROVE  Inv'
<1> USE DEF Inv, search, loop, modules
<1> DEFINE outside == RoomUpTo(Len(task_vector)) > Len(module_names)
<1>1. /\ file' = file /\ file \in Files /\ pc = "fill" /\ pc' \in {"done", "aborted"}
      /\ UNCHANGED <<file, module_names, module_level, depend_modules>>
      /\ UNCHANGED <<line, entry, index_text, index_pattern, counter_for_line, table, misled>>
      /\ NamesRead /\ LevelsRead
  BY DEF FillVector, Numbers, NamesKnown
<1>2. /\ stray' = (stray \/ outside)
      /\ pc' \in IF outside THEN {"done", "aborted"} ELSE {"done"}
  BY DEF FillVector
<1>3. task_vector' = [l \in DOMAIN task_vector |->
                        [x \in DOMAIN task_vector[l] |-> NodeOf(RoomUpTo(l - 1) + x)]]
  BY DEF FillVector
<1>4. /\ DOMAIN task_vector' = DOMAIN task_vector
      /\ \A l \in DOMAIN task_vector : DOMAIN task_vector'[l] = DOMAIN task_vector[l]
  BY <1>3
<1>5. num_modules_in_level' = num_modules_in_level /\ level_count' = level_count
  BY <1>1, SameLines DEF num_modules_in_level, LevelCounted
<1>6. Regular => Sized
  BY <1>1 DEF Vector
<1>7. Regular => Sized'
  BY <1>4, <1>5, <1>6 DEF Sized
<1>8. ASSUME Regular
      PROVE  ~ outside
  <2>1. level_count \in Nat /\ module_count \in Nat
    BY <1>1, CountsType
  <2>2. Len(task_vector) = level_count
    BY <1>6, <1>8, <2>1 DEF Sized
  <2>3. RoomUpTo(level_count) = module_count
    BY <1>1, <1>6, <1>8, AllRooms
  <2>4. Len(module_names) = module_count
    BY <1>1, <2>1 DEF NamesRead
  <2> QED
    BY <2>1, <2>2, <2>3, <2>4
<1> HIDE DEF outside
<1>9. Numbers'
  <2>1. stray' \in BOOLEAN
    BY <1>2
  <2> QED
    BY <1>1, <2>1 DEF Numbers
<1>10. NamesKnown'
  BY <1>1, SameLines DEF NamesKnown, NamesRead, LevelsRead
<1>11. Vector'
  <2>1. \A m : DOMAIN NodeOf(m) = DOMAIN EmptyNode
    BY DEF NodeOf, EmptyNode
  <2>2. \A l \in DOMAIN task_vector' : \A x \in DOMAIN task_vector'[l] :
          DOMAIN task_vector'[l][x] = DOMAIN EmptyNode
    BY <1>3, <2>1
  <2>3. EmptyNode' = EmptyNode
    BY DEF EmptyNode
  <2>4. Regular' => Sized'
    BY <1>1, <1>7, SameLines
  <2> QED
    BY <2>2, <2>3, <2>4 DEF Vector
<1>12. Room'
  BY <1>1, SameLines DEF Room, Shaped
<1>13. Waiting'
  BY <1>1 DEF Waiting
<1>14. Search'
  <2>1. ASSUME Regular, ~ misled
        PROVE  ~ stray' /\ pc' = "done" /\ TextsReached(depend_modules, Len(file) + 1, 0)
    BY <1>1, <1>2, <1>8, <2>1 DEF Search
  <2> QED
    BY <1>1, <2>1, SearchPrimed
<1>15. Filled'
  <2>1. SUFFICES ASSUME Regular
                 PROVE  \A l \in 1..level_count : \A x \in 1..num_modules_in_level[l] :
                          task_vector'[l][x] = (NodeOf(RoomUpTo(l - 1) + x))'
    BY <1>1, <1>5, SameLines DEF Filled
  <2>2. \A l \in 1..level_count : \A x \in 1..num_modules_in_level[l] :
          task_vector'[l][x] = NodeOf(RoomUpTo(l - 1) + x)
    BY <1>3, <1>6, <2>1 DEF Sized
  <2>3. \A l \in 1..level_count : RoomUpTo(l - 1)' = RoomUpTo(l - 1)
    <3> TAKE l \in 1..level_count
    <3>1. \A k \in 1..l - 1 : DOMAIN task_vector'[k] = DOMAIN task_vector[k]
      <4>1. \A k \in 1..l - 1 : k \in DOMAIN task_vector
        BY <1>1, <1>6, <2>1, CountsType DEF Sized
      <4> QED
        BY <1>4, <4>1
    <3> QED
      BY <3>1 DEF RoomUpTo, Slots
  <2>4. \A m : NodeOf(m)' = NodeOf(m)
    <3>1. \A name : number_of_dependencies(name)' = number_of_dependencies(name)
      BY <1>1, SameLines DEF number_of_dependencies, InAllLines
    <3>2. \A m : getDependentModuleIds(m)' = getDependentModuleIds(m)
      BY <1>1 DEF getDependentModuleIds, IdsFound, IdOf
    <3>3. \A name : IdOf(name)' = IdOf(name)
      BY <1>1 DEF IdOf
    <3> QED
      BY <1>1, <3>1, <3>2, <3>3 DEF NodeOf, EmptyNode
  <2> QED
    BY <2>2, <2>3, <2>4
<1> QED
  BY <1>9, <1>10, <1>11, <1>12, <1>13, <1>14, <1>15

(***************************************************************************)
(* A turn of the search.                                                   *)
(***************************************************************************)

LEMMA FallToReads ==
  ASSUME NEW p \in 0..3, table \in [DOMAIN table -> 0..3], misled \in BOOLEAN, FallTo(p)
  PROVE  /\ index_pattern' \in 0..3
         /\ table' \in [DOMAIN table' -> 0..3]
         /\ misled' \in BOOLEAN
         /\ ~ misled' => ~ misled /\ index_pattern' = 0
<1>1. M = 2 /\ M + 1 = 3
  BY KeywordLength
<1>2. PICK value \in Entries(p) :
        /\ index_pattern' = value
        /\ table' = IF p > M THEN table
                    ELSE [x \in DOMAIN table \cup {p} |-> IF x = p THEN value ELSE table[x]]
        /\ misled' = (misled \/ value # 0)
  BY DEF FallTo
<1>3. value \in 0..3
  BY <1>1 DEF Entries
<1>4. table' \in [DOMAIN table' -> 0..3]
  <2>1. CASE p > M
    BY <1>2, <2>1
  <2>2. CASE ~ (p > M)
    <3>1. table' = [x \in DOMAIN table \cup {p} |-> IF x = p THEN value ELSE table[x]]
      BY <1>2, <2>2
    <3>2. \A x \in DOMAIN table \cup {p} : (IF x = p THEN value ELSE table[x]) \in 0..3
      BY <1>3
    <3> QED
      BY <3>1, <3>2
  <2> QED
    BY <2>1, <2>2
<1>5. ~ misled' => ~ misled /\ value = 0
  BY <1>2
<1> QED
  BY <1>2, <1>3, <1>4, <1>5

(* The texts keep their shape: what would be written outside is not.       *)
LEMMA MatchKeepsShape ==
  ASSUME Shaped, file' = file, NEW p, NEW t, Match(p, t)
  PROVE  Shaped'
<1>1. /\ DOMAIN depend_modules' = DOMAIN depend_modules
      /\ \A m \in DOMAIN depend_modules : DOMAIN depend_modules'[m] = DOMAIN depend_modules[m]
  <2>1. CASE MatchedName(t) = <<>>
    BY <2>1 DEF Match
  <2>2. CASE MatchedName(t) # <<>>
    <3>1. depend_modules' = [depend_modules EXCEPT ![entry][counter_for_line + 1] = @ \o MatchedName(t)]
      BY <2>2 DEF Match
    <3> QED
      BY <3>1
  <2> QED
    BY <2>1, <2>2
<1> QED
  BY <1>1, SameLines DEF Shaped

Turn(p, t) ==
  \/ Match(p, t) \/ MatchOutside(p, t)
  \/ Fallback(p, t) \/ Skip(p, t) \/ Proceed(p, t)

(* What each turn leaves as it should be.                                  *)
TurnKeeps ==
  /\ pc' \in {"search", "aborted"}
  /\ index_text' \in Nat
  /\ index_pattern' \in 0..3
  /\ counter_for_line' \in 0..MaxMatches
  /\ table' \in [DOMAIN table' -> 0..3]
  /\ stray' \in BOOLEAN
  /\ misled' \in BOOLEAN
  /\ Shaped'

LEMMA TurnType ==
  ASSUME Inv, pc = "search", file' = file, NEW p \in 0..3, NEW t \in Nat,
         Turn(p, t)
  PROVE  TurnKeeps
<1>1. /\ Shaped /\ table \in [DOMAIN table -> 0..3] /\ misled \in BOOLEAN /\ stray \in BOOLEAN
      /\ counter_for_line \in 0..MaxMatches
  BY DEF Inv, Room, Numbers
<1>2. depend_modules' = depend_modules => Shaped'
  BY <1>1, SameLines DEF Shaped
<1>3. CountMatch => counter_for_line' \in 0..MaxMatches
  <2>1. MaxMatches \in Nat
    BY FlowAssumption
  <2> QED
    BY <1>1, <2>1 DEF CountMatch
<1>4. CASE Match(p, t)
  <2>1. FallTo(p) /\ CountMatch /\ index_text' = t /\ pc' = pc /\ stray' = stray
    BY <1>4 DEF Match
  <2>2. Shaped'
    BY <1>1, <1>4, MatchKeepsShape
  <2> QED
    BY <1>1, <1>3, <2>1, <2>2, FallToReads DEF TurnKeeps
<1>5. CASE MatchOutside(p, t)
  <2>1. /\ FallTo(p) /\ CountMatch /\ index_text' = t /\ pc' \in {pc, "aborted"} /\ stray' = TRUE
        /\ depend_modules' = depend_modules
    BY <1>5 DEF MatchOutside
  <2> QED
    BY <1>1, <1>2, <1>3, <2>1, FallToReads DEF TurnKeeps
<1>6. CASE Fallback(p, t)
  <2>1. /\ FallTo(p) /\ index_text' = t /\ pc' \in {pc, "aborted"} /\ stray' = (stray \/ p > M)
        /\ depend_modules' = depend_modules /\ counter_for_line' = counter_for_line
    BY <1>6 DEF Fallback
  <2>2. stray' \in BOOLEAN
    BY <2>1
  <2> QED
    BY <1>1, <1>2, <2>1, <2>2, FallToReads DEF TurnKeeps
<1>7. CASE Skip(p, t)
  <2>1. /\ index_text' = t + 1 /\ index_pattern' = p
        /\ UNCHANGED <<pc, depend_modules, counter_for_line, table, misled, stray>>
    BY <1>7 DEF Skip
  <2>2. index_text' \in Nat
    BY <2>1
  <2> QED
    BY <1>1, <1>2, <2>1, <2>2 DEF TurnKeeps
<1>8. CASE Proceed(p, t)
  <2>1. /\ index_text' = t /\ index_pattern' = p /\ stray' = (stray \/ p > M)
        /\ UNCHANGED <<pc, depend_modules, counter_for_line, table, misled>>
    BY <1>8 DEF Proceed
  <2>2. stray' \in BOOLEAN
    BY <2>1
  <2> QED
    BY <1>1, <1>2, <2>1, <2>2 DEF TurnKeeps
<1> QED
  BY <1>4, <1>5, <1>6, <1>7, <1>8 DEF Turn

(* The first half of a turn: as long as no index of the pattern is past    *)
(* the keyword, it moves on when the characters agree.                     *)
LEMMA TurnTaken ==
  ASSUME Inv, SearchTurn
  PROVE  /\ pc = "search" /\ line \in DOMAIN file /\ index_text < N
         /\ UNCHANGED <<file, module_names, module_level, task_vector, line, entry>>
         /\ \E p \in 0..3, t \in Nat :
              /\ Turn(p, t)
              /\ \/ index_pattern = 0 /\ Text[index_text + 1] = "mod" /\ p = 1 /\ t = index_text + 1
                 \/ index_pattern = 0 /\ Text[index_text + 1] # "mod" /\ p = 0 /\ t = index_text
                 \/ index_pattern = 1 /\ Text[index_text + 1] = "ule" /\ p = 2 /\ t = index_text + 1
                 \/ index_pattern = 1 /\ Text[index_text + 1] # "ule" /\ p = 1 /\ t = index_text
                 \/ index_pattern \notin {0, 1}
<1>1. /\ pc = "search" /\ line \in Nat \ {0} /\ line <= Len(file) /\ index_text < N
      /\ file \in Files /\ index_text \in Nat /\ index_pattern \in 0..3
      /\ UNCHANGED <<file, module_names, module_level, task_vector, line, entry>>
  BY DEF Inv, Numbers, SearchTurn, modules
<1>2. line \in DOMAIN file
  BY <1>1, LinesType
<1>3. PICK agree \in Agrees(index_pattern, index_text) :
        LET p == IF agree /\ index_pattern < M THEN index_pattern + 1 ELSE index_pattern
            t == IF agree THEN index_text + 1 ELSE index_text
        IN  Turn(p, t)
  BY DEF SearchTurn, Turn
<1> DEFINE p == IF agree /\ index_pattern < M THEN index_pattern + 1 ELSE index_pattern
           t == IF agree THEN index_text + 1 ELSE index_text
<1>4. p \in 0..3 /\ t \in Nat /\ Turn(p, t)
  BY <1>1, <1>3, KeywordLength
<1>5. index_pattern = 0 => agree = ("mod" = Text[index_text + 1])
  <2>1. index_pattern = 0 => Agrees(index_pattern, index_text) = {ModuleWord[1] = Text[index_text + 1]}
    BY KeywordLength DEF Agrees
  <2> QED
    BY <1>3, <2>1, KeywordLength, Zenon
<1>6. index_pattern = 1 => agree = ("ule" = Text[index_text + 1])
  <2>1. index_pattern = 1 => Agrees(index_pattern, index_text) = {ModuleWord[2] = Text[index_text + 1]}
    BY KeywordLength DEF Agrees
  <2> QED
    BY <1>3, <2>1, KeywordLength, Zenon
<1>7. ASSUME index_pattern = 0
      PROVE  \/ Text[index_text + 1] = "mod" /\ p = 1 /\ t = index_text + 1
             \/ Text[index_text + 1] # "mod" /\ p = 0 /\ t = index_text
  <2>1. CASE agree
    <3>1. Text[index_text + 1] = "mod"
      BY <1>5, <1>7, <2>1, Zenon
    <3>2. p = 1 /\ t = index_text + 1
      BY <1>7, <2>1, KeywordLength
    <3> QED
      BY <3>1, <3>2
  <2>2. CASE ~ agree
    <3>1. Text[index_text + 1] # "mod"
      BY <1>5, <1>7, <2>2, Zenon
    <3>2. p = 0 /\ t = index_text
      BY <1>7, <2>2
    <3> QED
      BY <3>1, <3>2
  <2> QED
    BY <2>1, <2>2
<1>8. ASSUME index_pattern = 1
      PROVE  \/ Text[index_text + 1] = "ule" /\ p = 2 /\ t = index_text + 1
             \/ Text[index_text + 1] # "ule" /\ p = 1 /\ t = index_text
  <2>1. CASE agree
    <3>1. Text[index_text + 1] = "ule"
      BY <1>6, <1>8, <2>1, Zenon
    <3>2. p = 2 /\ t = index_text + 1
      BY <1>8, <2>1, KeywordLength
    <3> QED
      BY <3>1, <3>2
  <2>2. CASE ~ agree
    <3>1. Text[index_text + 1] # "ule"
      BY <1>6, <1>8, <2>2, Zenon
    <3>2. p = 1 /\ t = index_text
      BY <1>8, <2>2
    <3> QED
      BY <3>1, <3>2
  <2> QED
    BY <2>1, <2>2
<1> HIDE DEF p, t
<1> QED
  BY <1>1, <1>2, <1>4, <1>7, <1>8

LEMMA NotMisled ==
  ASSUME Inv, NEW p \in 0..3, NEW t, Turn(p, t), ~ misled'
  PROVE  ~ misled
<1>1. table \in [DOMAIN table -> 0..3] /\ misled \in BOOLEAN
  BY DEF Inv, Numbers
<1>2. FallTo(p) => ~ misled
  BY <1>1, FallToReads
<1> QED
  BY <1>2 DEF Turn, Match, MatchOutside, Fallback, Skip, Proceed

LEMMA MismatchReads ==
  ASSUME NEW t \in Nat
  PROVE  /\ Mismatch(0, t) => t < N /\ Text[t + 1] # "mod"
         /\ Mismatch(1, t) => t < N /\ Text[t + 1] # "ule"
         /\ Text[t + 1] # "mod" /\ t < N => ~ Proceed(0, t)
         /\ Text[t + 1] # "ule" /\ t < N => ~ Proceed(1, t)
<1>1. Agrees(0, t) = {"mod" = Text[t + 1]} /\ Agrees(1, t) = {"ule" = Text[t + 1]}
  BY KeywordLength DEF Agrees
<1>2. FALSE \in Agrees(0, t) => Text[t + 1] # "mod"
  BY <1>1, Zenon
<1>3. FALSE \in Agrees(1, t) => Text[t + 1] # "ule"
  BY <1>1, Zenon
<1>4. Text[t + 1] # "mod" => ~ (TRUE \in Agrees(0, t))
  BY <1>1, Zenon
<1>5. Text[t + 1] # "ule" => ~ (TRUE \in Agrees(1, t))
  BY <1>1, Zenon
<1> QED
  BY <1>2, <1>3, <1>4, <1>5 DEF Mismatch, Proceed

(* A match on a regular file is that of the next name of the line's        *)
(* module, and there is a text for it.                                     *)
LEMMA MatchInside ==
  ASSUME Inv, Regular, pc = "search", line \in DOMAIN file,
         OnEntry(line, entry), NEW c \in Nat, counter_for_line = c,
         NEW k \in Keywords(line), Rank(Keywords(line), k) = c + 1
  PROVE  /\ entry \in 1..module_count /\ LineOf(entry) = line
         /\ \A m \in 1..module_count : LineOf(m) = line => m = entry
         /\ c + 1 \in 1..num_deps[entry] + 1
         /\ Inside(c + 1)
         /\ Nth(Keywords(line), c + 1) = k
         /\ c + 1 <= MaxMatches
<1>1. file \in Files /\ line \in Int
  BY LinesType DEF Inv, Numbers
<1>2. LinesWith(ModuleWord) = Declared
  BY <1>1, RegularKinds
<1>3. line \in Declared
  BY <1>2 DEF LinesWith, Keywords
<1>4. Rank(Declared, line) = entry
  <2>1. Declared \subseteq Int /\ IsFiniteSet(Declared)
    BY <1>1, KindsArePlaces, PlacesFinite
  <2>2. \A j \in Int : Rank(Declared, j) = Rank(Declared, j - 1)
                                            + (IF j \in Declared THEN 1 ELSE 0)
    BY <2>1, RankStep
  <2>3. Rank(Declared, line) = Rank(Declared, line - 1) + (IF line \in Declared THEN 1 ELSE 0)
    BY <1>1, <2>2
  <2> QED
    BY <1>3, <2>3 DEF OnEntry
<1>5. entry \in 1..module_count /\ LineOf(entry) = line
  BY <1>1, <1>2, <1>3, <1>4, ModuleOfLine
<1>6. \A m \in 1..module_count : LineOf(m) = line => m = entry
  BY <1>1, <1>2, <1>4, LineOfModule
<1>7. IsPlaces(Keywords(line)) /\ Cardinality(Keywords(line)) \in Nat
  BY <1>1, KeywordPlaces
<1>8. c + 1 \in 1..Cardinality(Keywords(line)) /\ Nth(Keywords(line), c + 1) = k
  BY <1>7, NthOfRank
<1>9. num_deps[entry] + 1 = Cardinality(Keywords(line)) /\ num_deps[entry] \in Nat
  BY <1>1, <1>5, RegularNumDeps, NumDepsType
<1>10. Cardinality(Keywords(line)) <= MaxMatches /\ MaxMatches \in Nat
  BY <1>1, <1>3, DeclaringLines, FlowAssumption
<1>11. Inside(c + 1)
  <2>1. DOMAIN depend_modules[entry] = 1..num_deps[entry] + 1
    BY <1>5 DEF Inv, Room, Shaped
  <2>2. Len(depend_modules[entry]) = num_deps[entry] + 1
    BY <1>9, <2>1
  <2>3. module_count \in Nat
    BY <1>1, CountsType
  <2> QED
    BY <1>5, <1>8, <1>9, <2>2, <2>3 DEF Inside
<1>12. c + 1 <= MaxMatches
  BY <1>7, <1>8, <1>10
<1> QED
  BY <1>5, <1>6, <1>8, <1>9, <1>11, <1>12

LEMMA TurnReads ==
  ASSUME Inv, Regular, SearchTurn, ~ misled'
  PROVE  /\ ~ stray' /\ pc' = "search" /\ index_pattern' \in {0, 1}
         /\ OnLine(line, index_text', index_pattern', counter_for_line')
         /\ TextsReached(depend_modules', line, counter_for_line')
<1> DEFINE K == Keywords(line)
           c == counter_for_line
<1>1. /\ pc = "search" /\ line \in DOMAIN file /\ index_text < N
      /\ file \in Files /\ index_text \in Nat /\ c \in Nat
      /\ table \in [DOMAIN table -> 0..3] /\ misled \in BOOLEAN
  BY TurnTaken, FlowAssumption DEF Inv, Numbers
<1>2. PICK p \in 0..3, t \in Nat :
        /\ Turn(p, t)
        /\ \/ index_pattern = 0 /\ Text[index_text + 1] = "mod" /\ p = 1 /\ t = index_text + 1
           \/ index_pattern = 0 /\ Text[index_text + 1] # "mod" /\ p = 0 /\ t = index_text
           \/ index_pattern = 1 /\ Text[index_text + 1] = "ule" /\ p = 2 /\ t = index_text + 1
           \/ index_pattern = 1 /\ Text[index_text + 1] # "ule" /\ p = 1 /\ t = index_text
           \/ index_pattern \notin {0, 1}
  BY TurnTaken
<1>3. ~ misled
  BY <1>2, NotMisled
<1>4. /\ ~ stray /\ index_pattern \in {0, 1}
      /\ OnEntry(line, entry)
      /\ OnLine(line, index_text, index_pattern, c)
      /\ TextsReached(depend_modules, line, c)
  BY <1>1, <1>3 DEF Inv, Search
<1>5. Text = file[line].text /\ N = Len(Text) /\ N \in Nat /\ Text \in Seq(Characters)
      /\ line <= Len(file)
  BY <1>1, LinesType DEF Text, N
<1>6. \A s : s \in K <=> s \in Nat /\ s + 2 <= N /\ Text[s + 1] = "mod" /\ Text[s + 2] = "ule"
  BY <1>5, KeywordReads DEF Keywords
<1>7. IsPlaces(K) /\ K \subseteq Int /\ IsFiniteSet(K)
  BY <1>1, KeywordPlaces, PlacesFinite
<1>8. \A j \in Int : Rank(K, j) = Rank(K, j - 1) + (IF j \in K THEN 1 ELSE 0)
  BY <1>7, RankStep
<1>9. c = Rank(K, index_text - 2)
  BY <1>4, <1>5 DEF OnLine
<1>10. Rank(K, index_text - 1) = c + (IF index_text - 1 \in K THEN 1 ELSE 0)
  <2>1. index_text - 1 \in Int /\ (index_text - 1) - 1 = index_text - 2
    BY <1>1
  <2> QED
    BY <1>8, <1>9, <2>1
<1>11. index_pattern = 0 => index_text - 1 \notin K
  BY <1>4, <1>5 DEF OnLine
<1>12. index_pattern = 1 => index_text # 0 /\ Text[index_text] = "mod"
  BY <1>4, <1>5 DEF OnLine
<1>13. M = 2
  BY KeywordLength
<1> HIDE DEF K, c
<1>14. CASE index_pattern = 0 /\ Text[index_text + 1] = "mod" /\ p = 1 /\ t = index_text + 1
  <2>1. Rank(K, (index_text + 1) - 2) = c
    <3>1. (index_text + 1) - 2 = index_text - 1
      BY <1>1
    <3> QED
      BY <1>1, <1>10, <1>11, <1>14, <3>1
  <2>2. index_text + 1 <= N /\ (index_text + 1) - 1 = index_text /\ index_text + 1 # 0
    BY <1>1, <1>5
  <2>3. Fallback(p, t) \/ Proceed(p, t)
    BY <1>2, <1>13, <1>14 DEF Turn, Match, MatchOutside, Skip
  <2>4. CASE Fallback(p, t)
    <3>1. /\ Mismatch(1, t) /\ FallTo(p) /\ index_text' = t /\ stray' = (stray \/ p > M)
          /\ pc' \in IF p > M THEN {pc, "aborted"} ELSE {pc}
          /\ UNCHANGED <<depend_modules, counter_for_line>>
      BY <1>14, <2>4 DEF Fallback
    <3>2. index_pattern' = 0
      BY <1>1, <3>1, FallToReads
    <3>3. ~ (p > M)
      BY <1>13, <1>14
    <3>4. ~ stray' /\ pc' = "search"
      BY <1>1, <1>4, <3>1, <3>3
    <3>5. Text[index_text + 2] # "ule"
      <4>1. Text[t + 1] # "ule" /\ t + 1 = index_text + 2
        BY <1>1, <1>14, <3>1, MismatchReads
      <4> QED
        BY <4>1
    <3>6. index_text \notin K
      BY <1>6, <3>5
    <3>7. OnLine(line, index_text', 0, c)
      BY <1>5, <1>14, <2>1, <2>2, <3>1, <3>6 DEF OnLine, K
    <3> QED
      BY <1>4, <3>1, <3>2, <3>4, <3>7 DEF c
  <2>5. CASE Proceed(p, t)
    <3>1. /\ index_text' = t /\ index_pattern' = 1 /\ stray' = (stray \/ p > M)
          /\ UNCHANGED <<pc, depend_modules, counter_for_line>>
      BY <1>14, <2>5 DEF Proceed
    <3>2. ~ (p > M)
      BY <1>13, <1>14
    <3>3. ~ stray' /\ pc' = "search"
      BY <1>1, <1>4, <3>1, <3>2
    <3>4. OnLine(line, index_text', 1, c)
      BY <1>5, <1>14, <2>1, <2>2, <3>1 DEF OnLine, K
    <3> QED
      BY <1>4, <3>1, <3>3, <3>4 DEF c
  <2> QED
    BY <2>3, <2>4, <2>5
<1>15. CASE index_pattern = 0 /\ Text[index_text + 1] # "mod" /\ p = 0 /\ t = index_text
  <2>1. Rank(K, (index_text + 1) - 2) = c
    <3>1. (index_text + 1) - 2 = index_text - 1
      BY <1>1
    <3> QED
      BY <1>1, <1>10, <1>11, <1>15, <3>1
  <2>2. index_text + 1 <= N /\ (index_text + 1) - 1 = index_text
    BY <1>1, <1>5
  <2>3. Skip(p, t)
    <3>1. ~ Proceed(0, t)
      BY <1>1, <1>15, MismatchReads
    <3> QED
      BY <1>2, <1>13, <1>15, <3>1 DEF Turn, Match, MatchOutside, Fallback
  <2>4. /\ index_text' = index_text + 1 /\ index_pattern' = 0
        /\ UNCHANGED <<pc, depend_modules, counter_for_line, stray>>
    BY <1>15, <2>3 DEF Skip
  <2>5. index_text \notin K
    BY <1>6, <1>15
  <2>6. OnLine(line, index_text', 0, c)
    BY <1>5, <2>1, <2>2, <2>4, <2>5 DEF OnLine, K
  <2> QED
    BY <1>1, <1>4, <2>4, <2>6 DEF c
<1>16. CASE index_pattern = 1 /\ Text[index_text + 1] # "ule" /\ p = 1 /\ t = index_text
  <2>1. Fallback(p, t)
    <3>1. ~ Proceed(1, t)
      BY <1>1, <1>16, MismatchReads
    <3> QED
      BY <1>2, <1>13, <1>16, <3>1 DEF Turn, Match, MatchOutside, Skip
  <2>2. /\ FallTo(p) /\ index_text' = t /\ stray' = (stray \/ p > M)
        /\ pc' \in IF p > M THEN {pc, "aborted"} ELSE {pc}
        /\ UNCHANGED <<depend_modules, counter_for_line>>
    BY <2>1 DEF Fallback
  <2>3. index_pattern' = 0
    BY <1>1, <2>2, FallToReads
  <2>4. ~ (p > M)
    BY <1>13, <1>16
  <2>5. ~ stray' /\ pc' = "search"
    BY <1>1, <1>4, <2>2, <2>4
  <2>6. index_text - 1 \notin K
    <3>1. (index_text - 1) + 2 = index_text + 1
      BY <1>1
    <3> QED
      BY <1>6, <1>16, <3>1
  <2>7. OnLine(line, index_text', 0, c)
    BY <1>1, <1>5, <1>9, <1>16, <2>2, <2>6 DEF OnLine, K
  <2> QED
    BY <1>4, <2>2, <2>3, <2>5, <2>7 DEF c
<1>17. CASE index_pattern = 1 /\ Text[index_text + 1] = "ule" /\ p = 2 /\ t = index_text + 1
  <2> DEFINE k == index_text - 1
  <2>1. k \in Nat /\ k + 1 = index_text /\ k + 2 = index_text + 1 /\ k + 2 <= N /\ k = t - 2
        /\ k = (index_text + 1) - 2 /\ ~ (t < 2)
    BY <1>1, <1>5, <1>12, <1>17
  <2>2. k \in K
    BY <1>6, <1>12, <1>17, <2>1
  <2>3. Rank(K, k) = c + 1
    BY <1>10, <2>2
  <2> HIDE DEF k
  <2>4. /\ entry \in 1..module_count /\ LineOf(entry) = line
        /\ \A m \in 1..module_count : LineOf(m) = line => m = entry
        /\ c + 1 \in 1..num_deps[entry] + 1
        /\ Inside(c + 1)
        /\ Nth(K, c + 1) = k
        /\ c + 1 <= MaxMatches
    BY <1>1, <1>4, <2>2, <2>3, MatchInside DEF K, c
  <2>5. Match(p, t)
    BY <1>2, <1>13, <1>17, <2>4 DEF Turn, MatchOutside, Fallback, Skip, Proceed, Mismatch, c
  <2>6. /\ FallTo(p) /\ CountMatch /\ index_text' = t
        /\ UNCHANGED <<pc, stray>>
        /\ depend_modules' =
             IF MatchedName(t) = <<>> THEN depend_modules
             ELSE [depend_modules EXCEPT ![entry][c + 1] = @ \o MatchedName(t)]
    BY <2>5 DEF Match, c
  <2>7. index_pattern' = 0 /\ ~ stray' /\ pc' = "search"
    BY <1>1, <1>4, <2>6, FallToReads
  <2>8. counter_for_line' = c + 1
    <3>1. MaxMatches \in Nat
      BY FlowAssumption
    <3>2. c < MaxMatches
      BY <1>1, <2>4, <3>1
    <3> QED
      BY <2>6, <3>2 DEF CountMatch, c
  <2>9. OnLine(line, index_text', 0, c + 1)
    <3>1. index_text \notin K
      BY <1>6, <1>17
    <3>2. (index_text + 1) - 1 = index_text /\ index_text + 1 <= N
      BY <1>1, <1>5
    <3> QED
      BY <1>5, <1>17, <2>1, <2>3, <2>6, <3>1, <3>2 DEF OnLine, K
  <2>10. MatchedName(t) = TextAt(entry, c + 1)
    <3>1. c = 0 <=> c + 1 = 1
      BY <1>1
    <3>2. MatchedName(t) = UpTo(Text, k, IF c = 0 THEN Arrow ELSE Comma)
      BY <1>13, <2>1 DEF MatchedName, c
    <3> QED
      BY <1>5, <2>4, <3>1, <3>2 DEF TextAt, K
  <2>11. TextAt(entry, c + 1) \in Seq(Characters)
    <3>1. k <= Len(Text)
      BY <1>5, <2>1
    <3>2. \A stop : UpTo(Text, k, stop) \in Seq(Characters)
      BY <1>5, <2>1, <3>1, UpToIsText
    <3> QED
      BY <1>5, <2>4, <3>2 DEF TextAt, K
  <2>12. TextsReached(depend_modules', line, c + 1)
    <3>1. SUFFICES ASSUME NEW m \in 1..module_count, NEW d \in 1..num_deps[m] + 1
                   PROVE  depend_modules'[m][d] = IF Reached(m, d, line, c + 1) THEN TextAt(m, d)
                                                                               ELSE <<>>
      BY DEF TextsReached
    <3>2. depend_modules[m][d] = IF Reached(m, d, line, c) THEN TextAt(m, d) ELSE <<>>
      BY <1>4, <3>1 DEF TextsReached
    <3>3. num_deps[m] \in Nat /\ d \in Nat
      BY <1>1, <3>1, NumDepsType
    <3>4. /\ Shaped /\ m \in DOMAIN depend_modules /\ d \in DOMAIN depend_modules[m]
      BY <1>1, <3>1 DEF Inv, Room, Shaped
    <3>5. CASE m = entry /\ d = c + 1
      <4>1. ~ Reached(m, d, line, c) /\ Reached(m, d, line, c + 1)
        <5>1. ~ (LineOf(m) < line) /\ LineOf(m) = line
          BY <1>1, <2>4, <3>5, LinesType
        <5>2. ~ (d <= c) /\ d <= c + 1
          BY <1>1, <3>3, <3>5
        <5> QED
          BY <5>1, <5>2 DEF Reached
      <4>2. depend_modules[m][d] = <<>>
        BY <3>2, <4>1
      <4>3. <<>> \o MatchedName(t) = MatchedName(t)
        BY <2>10, <2>11, NothingBefore
      <4>4. CASE MatchedName(t) = <<>>
        BY <2>6, <2>10, <3>5, <4>1, <4>2, <4>4
      <4>5. CASE MatchedName(t) # <<>>
        <5>1. depend_modules' = [depend_modules EXCEPT ![entry][c + 1] = @ \o MatchedName(t)]
          BY <2>6, <4>5
        <5>2. depend_modules'[m][d] = depend_modules[m][d] \o MatchedName(t)
          BY <3>4, <3>5, <5>1
        <5> QED
          BY <2>10, <3>5, <4>1, <4>2, <4>3, <5>2
      <4> QED
        BY <4>4, <4>5
    <3>6. CASE ~ (m = entry /\ d = c + 1)
      <4>1. depend_modules'[m][d] = depend_modules[m][d]
        BY <2>6, <3>4, <3>6
      <4>2. Reached(m, d, line, c + 1) <=> Reached(m, d, line, c)
        <5>1. LineOf(m) = line => d # c + 1
          BY <2>4, <3>6
        <5>2. d # c + 1 => (d <= c + 1 <=> d <= c)
          BY <1>1, <3>3
        <5> QED
          BY <5>1, <5>2 DEF Reached
      <4> QED
        BY <3>2, <4>1, <4>2
    <3> QED
      BY <3>5, <3>6
  <2> QED
    BY <2>7, <2>8, <2>9, <2>12
<1> QED
  BY <1>2, <1>4, <1>14, <1>15, <1>16, <1>17

LEMMA TurnInv ==
  ASSUME Inv, SearchTurn
  PROVE  Inv'
<1>1. /\ pc = "search" /\ line \in DOMAIN file /\ file \in Files /\ file' = file
      /\ UNCHANGED <<file, module_names, module_level, task_vector, line, entry>>
      /\ NamesRead /\ LevelsRead
      /\ line \in Nat \ {0} /\ entry \in Nat \ {0}
  BY TurnTaken DEF Inv, Numbers, NamesKnown
<1>2. TurnKeeps
  <2>1. PICK p \in 0..3, t \in Nat : Turn(p, t)
    BY TurnTaken
  <2> QED
    BY <1>1, <2>1, TurnType
<1>3. Numbers'
  BY <1>1, <1>2 DEF Numbers, TurnKeeps
<1>4. NamesKnown'
  BY <1>1, SameLines DEF NamesKnown, NamesRead, LevelsRead
<1>5. Vector'
  BY <1>1, VectorKept DEF modules
<1>6. Room'
  BY <1>2 DEF Room, TurnKeeps
<1>7. Waiting'
  BY <1>2 DEF Waiting, TurnKeeps
<1>8. Filled'
  BY <1>2 DEF Filled, TurnKeeps
<1>9. Search'
  <2>1. ASSUME Regular, ~ misled'
        PROVE  /\ ~ stray' /\ pc' = "search" /\ index_pattern' \in {0, 1}
               /\ OnEntry(line, entry)
               /\ OnLine(line, index_text', index_pattern', counter_for_line')
               /\ TextsReached(depend_modules', line, counter_for_line')
    <3>1. ~ misled
      <4>1. PICK p \in 0..3, t \in Nat : Turn(p, t)
        BY TurnTaken
      <4> QED
        BY <2>1, <4>1, NotMisled
    <3>2. OnEntry(line, entry)
      BY <1>1, <2>1, <3>1 DEF Inv, Search
    <3> QED
      BY <2>1, <3>2, TurnReads
  <2> QED
    BY <1>1, <2>1, SearchPrimed
<1> QED
  BY <1>3, <1>4, <1>5, <1>6, <1>7, <1>8, <1>9 DEF Inv

LEMMA StepInv ==
  ASSUME Inv, [Next]_vars
  PROVE  Inv'
<1>1. CASE UNCHANGED vars
  <2>1. UNCHANGED <<pc, file, module_names, module_level, task_vector, depend_modules, line, entry>>
        /\ UNCHANGED <<index_text, index_pattern, counter_for_line, table, stray, misled>>
    BY <1>1 DEF vars, modules, search, loop
  <2>2. Numbers' /\ NamesKnown' /\ Room' /\ Waiting'
    BY <2>1, SameLines DEF Inv, Numbers, NamesKnown, NamesRead, LevelsRead, Room, Shaped, Waiting
  <2>3. Search'
    BY <2>1, SearchPrimed DEF Inv, Search
  <2>4. num_modules_in_level' = num_modules_in_level /\ EmptyNode' = EmptyNode
        /\ level_count' = level_count
    BY <2>1, SameLines DEF num_modules_in_level, LevelCounted, EmptyNode
  <2>5. Vector'
    BY <2>1, <2>4, SameLines DEF Inv, Vector, Sized
  <2>6. Filled'
    <3>1. \A l : RoomUpTo(l - 1)' = RoomUpTo(l - 1)
      BY <2>1 DEF RoomUpTo, Slots
    <3>2. \A m : NodeOf(m)' = NodeOf(m)
      BY <2>1, <2>4, SameLines DEF NodeOf, IdOf, number_of_dependencies, InAllLines,
                                   getDependentModuleIds, IdsFound
    <3> QED
      BY <2>1, <2>4, <3>1, <3>2, SameLines DEF Inv, Filled
  <2> QED
    BY <2>2, <2>3, <2>5, <2>6 DEF Inv
<1>2. CASE Next
  BY <1>2, ReadInv, DeclareInv, BeginInv, TurnInv, NextLineInv, SearchDoneInv, FillInv DEF Next
<1> QED
  BY <1>1, <1>2

(* Inv holds in every state of the parser, on every flow file.             *)
THEOREM Inductive == Spec => []Inv
<1>1. Init => Inv
  BY InitInv
<1>2. Inv /\ [Next]_vars => Inv'
  BY StepInv
<1> QED
  BY <1>1, <1>2, PTL DEF Spec

(***************************************************************************)
(* The properties.                                                         *)
(***************************************************************************)

(* The parser's state keeps its type on every file.                        *)
THEOREM ParserTypes == Spec => []TypeOK
<1>1. ASSUME Inv
      PROVE  TypeOK
  <2>1. file \in Files
    BY <1>1 DEF Inv, Numbers
  <2>2. file \in Seq(Lines)
    BY <2>1, LinesType
  <2>3. \A m \in DOMAIN depend_modules : depend_modules[m] # <<>>
    <3>1. CASE depend_modules = <<>>
      BY <3>1
    <3>2. CASE Shaped
      <4>1. ASSUME NEW m \in 1..module_count
            PROVE  depend_modules[m] # <<>>
        <5>1. DOMAIN depend_modules[m] = 1..num_deps[m] + 1
          BY <3>2, <4>1 DEF Shaped
        <5>2. num_deps[m] \in Nat
          BY <2>1, <4>1, NumDepsType
        <5>3. 1 \in DOMAIN depend_modules[m]
          BY <5>1, <5>2
        <5> QED
          BY <5>3
      <4> QED
        BY <3>2, <4>1 DEF Shaped
    <3> QED
      BY <1>1, <3>1, <3>2 DEF Inv, Room
  <2>4. M + 1 = 3
    BY KeywordLength
  <2>5. pc \in {"read", "declare", "depends", "search", "fill"} \cup Final
    BY <1>1 DEF Inv, Numbers, Final
  <2>6. {stray, misled} \subseteq BOOLEAN
    BY <1>1 DEF Inv, Numbers
  <2> QED
    BY <1>1, <2>2, <2>3, <2>4, <2>5, <2>6 DEF TypeOK, Inv, Numbers, Vector
<1> QED
  BY <1>1, Inductive, PTL

(* On a regular file the parser stays inside its arrays, so long as its    *)
(* search is not misled.                                                   *)
THEOREM RegularStaysInside == Spec => []StaysInside
<1>1. Inv => StaysInside
  BY DEF Inv, Search, StaysInside
<1> QED
  BY <1>1, Inductive, PTL

(* What the task vector holds at the end, node by node.                    *)
LEMMA NodeAt ==
  ASSUME Inv, ReadWell, NEW l \in 1..level_count, NEW x \in 1..num_modules_in_level[l]
  PROVE  LET m == RoomUpTo(l - 1) + x
             k == Nth(MeantAt(l), x)
         IN  /\ task_vector[l][x] = NodeOf(m)
             /\ m \in 1..module_count /\ LineOf(m) = k
             /\ k \in Declared /\ Rank(LevelLines, k) = l
             /\ Meant(l, x) = file[k]
             /\ module_names[m] = file[k].name /\ m \in DOMAIN module_names
             /\ module_level[m] = l - 1
             /\ num_deps[m] = Len(file[k].depends)
             /\ DOMAIN depend_modules[m] = 1..num_deps[m] + 1
<1> DEFINE m == RoomUpTo(l - 1) + x
           k == Nth(MeantAt(l), x)
<1>1. /\ file \in Files /\ Regular /\ pc = "done" /\ ~ stray /\ NamesRead /\ LevelsRead
      /\ Sized /\ Shaped
  BY DEF Inv, Numbers, NamesKnown, Vector, Room, ReadWell
<1>2. level_count \in Nat /\ num_modules_in_level[l] = Cardinality(MeantAt(l))
  BY <1>1, RegularLevelSizes
<1>3. m \in 1..module_count /\ LineOf(m) = k /\ k \in MeantAt(l)
  BY <1>1, <1>2, InOrder
<1>4. task_vector[l][x] = NodeOf(m)
  BY <1>1 DEF Inv, Filled
<1> HIDE DEF m, k
<1>5. k \in Declared /\ Rank(LevelLines, k) = l
  BY <1>3 DEF MeantAt
<1>6. Meant(l, x) = file[k]
  BY DEF Meant, k
<1>7. module_names[m] = file[k].name /\ m \in DOMAIN module_names
  BY <1>1, <1>3, <1>5, RegularNames DEF NamesRead
<1>8. module_level[m] = l - 1
  BY <1>1, <1>3, <1>5, RegularLevels
<1>9. num_deps[m] = Len(file[k].depends)
  BY <1>1, <1>3, RegularNumDeps
<1>10. DOMAIN depend_modules[m] = 1..num_deps[m] + 1
  BY <1>1, <1>3 DEF Shaped
<1> QED
  BY <1>3, <1>4, <1>5, <1>6, <1>7, <1>8, <1>9, <1>10 DEF m, k

LEMMA NodesOfVector ==
  ASSUME Inv, ReadWell
  PROVE  /\ DOMAIN task_vector = 1..level_count /\ Len(task_vector) = level_count
         /\ level_count = Cardinality(LevelLines)
         /\ \A l \in 1..level_count :
              /\ DOMAIN task_vector[l] = 1..num_modules_in_level[l]
              /\ Len(task_vector[l]) = Cardinality(MeantAt(l))
         /\ \A at \in Nodes : at[1] \in 1..level_count /\ at[2] \in 1..num_modules_in_level[at[1]]
<1>1. file \in Files /\ Regular /\ LevelsRead /\ Sized
  BY DEF Inv, Numbers, NamesKnown, Vector, ReadWell
<1>2. /\ level_count \in Nat /\ level_count = Cardinality(LevelLines)
      /\ \A l \in 1..level_count : num_modules_in_level[l] = Cardinality(MeantAt(l))
  BY <1>1, RegularLevelSizes
<1>3. DOMAIN task_vector = 1..level_count /\ Len(task_vector) = level_count
  BY <1>1, <1>2 DEF Sized
<1>4. \A l \in 1..level_count : DOMAIN task_vector[l] = 1..num_modules_in_level[l]
  BY <1>1 DEF Sized
<1>5. ASSUME NEW l \in 1..level_count
      PROVE  Len(task_vector[l]) = Cardinality(MeantAt(l))
  <2>1. Cardinality(MeantAt(l)) \in Nat
    <3>1. MeantAt(l) \subseteq DOMAIN file
      BY DEF MeantAt, Declared
    <3> QED
      BY <1>1, <3>1, LinesArePlaces, PlacesFinite
  <2> QED
    BY <1>2, <1>4, <1>5, <2>1
<1>6. \A at \in Nodes : at[1] \in 1..level_count /\ at[2] \in DOMAIN task_vector[at[1]]
  BY <1>3 DEF Nodes, Slots
<1> QED
  BY <1>2, <1>3, <1>4, <1>5, <1>6

(* The ids found for a module.                                             *)
LEMMA IdsOfModule ==
  ASSUME NEW m, NEW n \in Nat, DOMAIN depend_modules[m] = 1..n + 1
  PROVE  /\ n = 0 => getDependentModuleIds(m) = <<-1>>
         /\ n # 0 => getDependentModuleIds(m) = [d \in 1..n |-> IdOf(depend_modules[m][d + 1])]
<1> DEFINE ids == IdsFound(m)
           S == { IdOf(depend_modules[m][d]) : d \in 1..n + 1 }
<1>1. ids = [d \in 1..n + 1 |-> IdOf(depend_modules[m][d])]
  BY DEF IdsFound
<1>2. ids \in Seq(S) /\ Len(ids) = n + 1
  BY <1>1
<1>3. ASSUME n # 0
      PROVE  Tail(ids) = [d \in 1..n |-> ids[d + 1]]
  <2> HIDE DEF ids, S
  <2>1. ids # <<>>
    BY <1>2
  <2>2. /\ Tail(ids) \in Seq(S) /\ Len(Tail(ids)) = Len(ids) - 1
        /\ \A d \in 1..Len(Tail(ids)) : Tail(ids)[d] = ids[d + 1]
    BY <1>2, <2>1, HeadTailProperties
  <2>3. Len(Tail(ids)) = n
    BY <1>2, <2>2
  <2>4. Tail(ids) \in [1..n -> S]
    BY <2>2, <2>3, LenProperties
  <2> QED
    BY <2>2, <2>3, <2>4
<1>4. n + 1 = 1 <=> n = 0
  OBVIOUS
<1>5. \A d \in 1..n : ids[d + 1] = IdOf(depend_modules[m][d + 1])
  BY <1>1
<1> HIDE DEF ids, S
<1> QED
  BY <1>2, <1>3, <1>4, <1>5 DEF getDependentModuleIds, ids

LEMMA DepIds ==
  ASSUME Inv, ReadWell, NEW l \in 1..level_count, NEW x \in 1..num_modules_in_level[l]
  PROVE  LET m == RoomUpTo(l - 1) + x
             depends == Meant(l, x).depends
         IN  /\ depends = <<>> => getDependentModuleIds(m) = <<-1>>
             /\ depends # <<>> =>
                  getDependentModuleIds(m)
                    = [d \in 1..Len(depends) |-> IdOf(depend_modules[m][d + 1])]
             /\ depends \in Seq(Seq(Characters)) /\ Len(depends) \in Nat
             /\ DOMAIN depends = 1..Len(depends)
             /\ depends # <<>> => Len(depends) # 0
<1> DEFINE m == RoomUpTo(l - 1) + x
           depends == Meant(l, x).depends
           k == Nth(MeantAt(l), x)
<1>1. /\ k \in Declared /\ depends = file[k].depends
      /\ DOMAIN depend_modules[m] = 1..Len(depends) + 1
  BY NodeAt
<1> HIDE DEF m, depends, k
<1>2. file \in Files
  BY DEF Inv, Numbers
<1>3. depends \in Seq(Seq(Characters))
  BY <1>1, <1>2, DeclaringLines
<1>4. /\ Len(depends) \in Nat /\ DOMAIN depends = 1..Len(depends)
      /\ depends # <<>> => Len(depends) # 0
  BY <1>3, EmptySeq
<1>5. depends = <<>> => Len(depends) = 0
  OBVIOUS
<1>6. /\ Len(depends) = 0 => getDependentModuleIds(m) = <<-1>>
      /\ Len(depends) # 0 =>
           getDependentModuleIds(m) = [d \in 1..Len(depends) |-> IdOf(depend_modules[m][d + 1])]
  BY <1>1, <1>4, IdsOfModule
<1> QED
  BY <1>3, <1>4, <1>5, <1>6 DEF m, depends

(* Every module of a regular file is in the task vector once, in order, at *)
(* its level, with its id and with room for its dependencies, however the  *)
(* search was misled inside the arrays.                                    *)
THEOREM AllModulesLaidOut == Spec => []EveryModuleOnce
<1>1. ASSUME Inv
      PROVE  EveryModuleOnce
  <2>1. SUFFICES ASSUME ReadWell
                 PROVE  /\ Len(task_vector) = Cardinality(LevelLines)
                        /\ \A l \in DOMAIN task_vector : Len(task_vector[l]) = Cardinality(MeantAt(l))
                        /\ \A at \in Nodes :
                             LET node == task_vector[at[1]][at[2]]
                                 meant == Meant(at[1], at[2])
                             IN  /\ node.level = at[1] - 1
                                 /\ node.module_id = MeantId(meant.name)
                                 /\ Len(node.dep_id) = IF meant.depends = <<>> THEN 1
                                                                               ELSE Len(meant.depends)
    BY DEF EveryModuleOnce
  <2>2. file \in Files /\ Regular /\ NamesRead
    BY <1>1, <2>1 DEF Inv, Numbers, NamesKnown, ReadWell
  <2>3. ASSUME NEW at \in Nodes
        PROVE  LET node == task_vector[at[1]][at[2]]
                   meant == Meant(at[1], at[2])
               IN  /\ node.level = at[1] - 1
                   /\ node.module_id = MeantId(meant.name)
                   /\ Len(node.dep_id) = IF meant.depends = <<>> THEN 1 ELSE Len(meant.depends)
    <3> DEFINE l == at[1]
               x == at[2]
               m == RoomUpTo(l - 1) + x
               meant == Meant(l, x)
    <3>1. l \in 1..level_count /\ x \in 1..num_modules_in_level[l]
      BY <1>1, <2>1, <2>3, NodesOfVector
    <3> HIDE DEF l, x
    <3>2. /\ task_vector[l][x] = NodeOf(m)
          /\ m \in DOMAIN module_names /\ module_names[m] = meant.name
          /\ module_level[m] = l - 1
      BY <1>1, <2>1, <3>1, NodeAt
    <3>3. /\ meant.depends = <<>> => getDependentModuleIds(m) = <<-1>>
          /\ meant.depends # <<>> =>
               getDependentModuleIds(m)
                 = [d \in 1..Len(meant.depends) |-> IdOf(depend_modules[m][d + 1])]
          /\ Len(meant.depends) \in Nat
      BY <1>1, <2>1, <3>1, DepIds
    <3> HIDE DEF m, meant
    <3>4. /\ NodeOf(m).level = l - 1
          /\ NodeOf(m).module_id = IdOf(meant.name)
          /\ NodeOf(m).dep_id = getDependentModuleIds(m)
      BY <3>2 DEF NodeOf
    <3>5. IdOf(meant.name) = MeantId(meant.name)
      BY <2>2, Ids
    <3>6. Len(getDependentModuleIds(m)) = IF meant.depends = <<>> THEN 1 ELSE Len(meant.depends)
      BY <3>3
    <3>7. /\ task_vector[l][x].level = l - 1
          /\ task_vector[l][x].module_id = MeantId(meant.name)
          /\ Len(task_vector[l][x].dep_id)
               = IF meant.depends = <<>> THEN 1 ELSE Len(meant.depends)
      BY <3>2, <3>4, <3>5, <3>6
    <3> QED
      BY <3>7 DEF l, x, meant
  <2>4. /\ Len(task_vector) = Cardinality(LevelLines)
        /\ \A l \in DOMAIN task_vector : Len(task_vector[l]) = Cardinality(MeantAt(l))
    BY <1>1, <2>1, NodesOfVector
  <2> QED
    BY <2>3, <2>4
<1> QED
  BY <1>1, Inductive, PTL

(* The ids of its dependencies are those of the modules named on its line, *)
(* unless the search was misled.                                           *)
THEOREM DependenciesFound == Spec => []DependenciesRight
<1>1. ASSUME Inv
      PROVE  DependenciesRight
  <2>1. SUFFICES ASSUME ReadWell, ~ misled, NEW at \in Nodes
                 PROVE  LET meant == Meant(at[1], at[2])
                        IN  task_vector[at[1]][at[2]].dep_id =
                              IF meant.depends = <<>> THEN <<-1>>
                              ELSE [d \in DOMAIN meant.depends |-> MeantId(meant.depends[d])]
    BY DEF DependenciesRight
  <2> DEFINE l == at[1]
             x == at[2]
             m == RoomUpTo(l - 1) + x
             k == Nth(MeantAt(l), x)
             depends == Meant(l, x).depends
  <2>2. /\ file \in Files /\ Regular /\ NamesRead /\ Len(file) \in Nat
        /\ TextsReached(depend_modules, Len(file) + 1, 0)
    BY <1>1, <2>1, LinesType DEF Inv, Numbers, NamesKnown, ReadWell, Search
  <2>3. l \in 1..level_count /\ x \in 1..num_modules_in_level[l]
    BY <1>1, <2>1, NodesOfVector
  <2> HIDE DEF l, x
  <2>4. /\ task_vector[l][x] = NodeOf(m) /\ m \in DOMAIN module_names
        /\ m \in 1..module_count /\ LineOf(m) = k /\ k \in Declared
        /\ depends = file[k].depends /\ num_deps[m] = Len(depends)
    BY <1>1, <2>1, <2>3, NodeAt
  <2>5. /\ depends = <<>> => getDependentModuleIds(m) = <<-1>>
        /\ depends # <<>> =>
             getDependentModuleIds(m) = [d \in 1..Len(depends) |-> IdOf(depend_modules[m][d + 1])]
        /\ Len(depends) \in Nat /\ DOMAIN depends = 1..Len(depends)
    BY <1>1, <2>1, <2>3, DepIds
  <2> HIDE DEF m, k, depends
  <2>6. ASSUME NEW d \in 1..Len(depends)
        PROVE  IdOf(depend_modules[m][d + 1]) = MeantId(depends[d])
    <3>1. d + 1 \in 1..num_deps[m] + 1 /\ d + 1 # 1
      BY <2>4, <2>5, <2>6
    <3>2. Reached(m, d + 1, Len(file) + 1, 0)
      <4>1. k \in 1..Len(file)
        BY <2>2, <2>4, KindsArePlaces, LinesType
      <4> QED
        BY <2>2, <2>4, <4>1 DEF Reached
    <3>3. depend_modules[m][d + 1] = UpTo(file[k].text, Nth(Keywords(k), d + 1), Comma)
      BY <2>2, <2>4, <3>1, <3>2 DEF TextsReached, TextAt
    <3>4. d \in DOMAIN file[k].depends
      BY <2>4, <2>5, <2>6
    <3>5. depend_modules[m][d + 1] = depends[d]
      BY <2>2, <2>4, <3>3, <3>4, RegularDepends
    <3> QED
      BY <2>2, <3>5, Ids
  <2>7. NodeOf(m).dep_id = getDependentModuleIds(m)
    BY <2>4 DEF NodeOf
  <2>8. task_vector[l][x].dep_id = IF depends = <<>> THEN <<-1>>
                                   ELSE [d \in DOMAIN depends |-> MeantId(depends[d])]
    BY <2>4, <2>5, <2>6, <2>7
  <2> QED
    BY <2>8 DEF l, x, depends
<1> QED
  BY <1>1, Inductive, PTL

(* num_dependencies of a module of a regular file counts at least the      *)
(* places that depend on it, and only those if its name is part of no      *)
(* other that the file mentions.                                           *)
THEOREM DependentsRight == Spec => []CountsDependents
<1>1. ASSUME Inv
      PROVE  CountsDependents
  <2>1. SUFFICES ASSUME ReadWell, NEW at \in Nodes
                 PROVE  LET node == task_vector[at[1]][at[2]]
                            meant == Meant(at[1], at[2])
                        IN  /\ node.num_dependencies >= Cardinality(Mentions(meant.name))
                            /\ (\A n \in Mentioned \ {meant.name} : Occurrences(n, meant.name) = {})
                                 => node.num_dependencies = Cardinality(Mentions(meant.name))
    BY DEF CountsDependents
  <2> DEFINE l == at[1]
             x == at[2]
             m == RoomUpTo(l - 1) + x
             k == Nth(MeantAt(l), x)
             name == Meant(l, x).name
  <2>2. file \in Files /\ Regular
    BY <1>1, <2>1 DEF Inv, Numbers, ReadWell
  <2>3. l \in 1..level_count /\ x \in 1..num_modules_in_level[l]
    BY <1>1, <2>1, NodesOfVector
  <2> HIDE DEF l, x
  <2>4. /\ task_vector[l][x] = NodeOf(m) /\ m \in DOMAIN module_names
        /\ k \in Declared /\ name = file[k].name /\ module_names[m] = name
    BY <1>1, <2>1, <2>3, NodeAt
  <2> HIDE DEF m, k, name
  <2>5. task_vector[l][x].num_dependencies = number_of_dependencies(name)
    BY <2>4 DEF NodeOf
  <2>6. /\ task_vector[l][x].num_dependencies >= Cardinality(Mentions(name))
        /\ (\A n \in Mentioned \ {name} : Occurrences(n, name) = {})
             => task_vector[l][x].num_dependencies = Cardinality(Mentions(name))
    BY <2>2, <2>4, <2>5, DependentsCounted
  <2> QED
    BY <2>6 DEF l, x, name
<1> QED
  BY <1>1, Inductive, PTL
=============================================================================
