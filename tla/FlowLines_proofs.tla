-------------------------- MODULE FlowLines_proofs --------------------------
(***************************************************************************)
(* What FlowParser computes from the lines of a file, for every file: the  *)
(* arrays have no negative entry, and on a regular file the names, levels, *)
(* sizes and ids are those that the writer means.                          *)
(***************************************************************************)
EXTENDS FlowParser, Ranked_proofs, SequenceTheorems

LEMMA StopsDiffer == Space # Arrow /\ Space # Comma /\ Arrow # Comma
  BY DEF Space, Arrow, Comma

(***************************************************************************)
(* Texts.                                                                  *)
(***************************************************************************)

LEMMA OccurrencesArePlaces ==
  ASSUME NEW text, Len(text) \in Nat, NEW pattern, Len(pattern) \in Nat
  PROVE  IsPlaces(Occurrences(text, pattern))
<1>1. Occurrences(text, pattern) \subseteq 0..Len(text)
  BY DEF Occurrences
<1> QED
  BY <1>1 DEF IsPlaces

LEMMA OccurrenceReads ==
  ASSUME NEW text \in Seq(Characters), NEW name \in Seq(Characters),
         NEW s \in Occurrences(text, name)
  PROVE  /\ s \in Nat /\ s + Len(name) <= Len(text)
         /\ \A c \in 1..Len(name) : name[c] = text[s + c]
<1>1. /\ s \in 0..Len(text) - Len(name)
      /\ SubSeq(text, s + 1, s + Len(name)) = name
  BY DEF Occurrences
<1>2. Len(text) \in Nat /\ Len(name) \in Nat
  OBVIOUS
<1>3. s \in Nat /\ s + Len(name) <= Len(text)
  BY <1>1, <1>2
<1>4. \A i \in s + 1..s + Len(name) : text[i] \in Characters
  BY <1>2, <1>3
<1>5. \A i \in 1..(s + Len(name)) - (s + 1) + 1 :
        SubSeq(text, s + 1, s + Len(name))[i] = text[s + 1 + i - 1]
  BY <1>2, <1>3, <1>4, SubSeqProperties
<1>6. \A c \in 1..Len(name) : name[c] = text[s + c]
  <2> TAKE c \in 1..Len(name)
  <2>1. c \in 1..(s + Len(name)) - (s + 1) + 1 /\ s + 1 + c - 1 = s + c
    BY <1>2, <1>3
  <2> QED
    BY <1>1, <1>5, <2>1
<1> QED
  BY <1>3, <1>6

(* Up to a stop, or to the end of the text.                                *)
LEMMA UpToStop ==
  ASSUME NEW text \in Seq(Characters), NEW s \in Nat, NEW e \in s..Len(text), NEW stop,
         \A c \in s + 1..e : text[c] # stop,
         e < Len(text) => text[e + 1] = stop
  PROVE  UpTo(text, s, stop) = SubSeq(text, s + 1, e)
<1> DEFINE before == { d \in s + 1..Len(text) : \A c \in s + 1..d : text[c] # stop }
<1>1. Len(text) \in Nat /\ e \in Nat /\ s <= e /\ e <= Len(text)
  OBVIOUS
<1>2. before = s + 1..e
  <2>1. ASSUME NEW d \in before
        PROVE  d \in s + 1..e
    <3>1. e < Len(text) /\ d > e => e + 1 \in s + 1..d
      BY <1>1
    <3> QED
      BY <1>1, <2>1, <3>1
  <2>2. ASSUME NEW d \in s + 1..e
        PROVE  d \in before
    BY <1>1
  <2> HIDE DEF before
  <2> QED
    BY <2>1, <2>2
<1>3. Cardinality(s + 1..e) = e - s
  <2>1. Cardinality(s + 1..e) = IF s + 1 > e THEN 0 ELSE e - (s + 1) + 1
    BY <1>1, FS_Interval
  <2> QED
    BY <1>1, <2>1
<1>4. s + (e - s) = e
  BY <1>1
<1> QED
  BY <1>2, <1>3, <1>4 DEF UpTo

LEMMA SpacesBehind ==
  ASSUME NEW text \in Seq(Characters), NEW n \in 0..Len(text),
         \A c \in 1..n : text[c] # Space,
         \A c \in n + 1..Len(text) : text[c] = Space
  PROVE  WithoutSpaces(text) = [c \in 1..n |-> text[c]]
<1>1. Len(text) \in Nat /\ n \in Nat /\ n <= Len(text) /\ DOMAIN text = 1..Len(text)
  OBVIOUS
<1>2. { c \in DOMAIN text : text[c] # Space } = 1..n
  BY <1>1
<1>3. Cardinality(1..n) = n
  <2>1. Cardinality(1..n) = IF 1 > n THEN 0 ELSE n - 1 + 1
    BY <1>1, FS_Interval
  <2> QED
    BY <1>1, <2>1
<1>4. \A c \in 1..n : Nth(1..n, c) = c
  BY <1>1, NthOfInterval
<1> QED
  BY <1>2, <1>3, <1>4 DEF WithoutSpaces

(* The name of a module is read as it stands there.                        *)
LEMMA NameRead ==
  ASSUME NEW text \in Seq(Characters), NEW name \in Seq(Characters), NEW s,
         StandsAt(name, text, s, {Space}, {Arrow})
  PROVE  WithoutSpaces(UpTo(text, s, Arrow)) = name
<1>1. s \in Occurrences(text, name)
  BY DEF StandsAt
<1>2. /\ s \in Nat /\ s + Len(name) <= Len(text)
      /\ \A c \in 1..Len(name) : name[c] = text[s + c]
  BY <1>1, OccurrenceReads
<1>3. Len(name) \in Nat /\ Len(text) \in Nat /\ DOMAIN name = 1..Len(name)
  OBVIOUS
<1>4. PICK e \in s + Len(name)..Len(text) :
        /\ \A c \in s + Len(name) + 1..e : text[c] = Space
        /\ e < Len(text) => text[e + 1] = Arrow
  BY DEF StandsAt
<1>5. \A c \in 1..Len(name) : name[c] # Space /\ name[c] # Arrow
  BY <1>3 DEF StandsAt
<1>6. e \in Nat /\ e \in s..Len(text) /\ s + Len(name) <= e
  BY <1>2, <1>3, <1>4
<1>7. \A c \in s + 1..s + Len(name) : text[c] = name[c - s]
  <2> TAKE c \in s + 1..s + Len(name)
  <2>1. c - s \in 1..Len(name) /\ s + (c - s) = c
    BY <1>2, <1>3
  <2> QED
    BY <1>2, <2>1
<1>8. \A c \in s + 1..e : text[c] # Arrow
  <2> TAKE c \in s + 1..e
  <2>1. CASE c <= s + Len(name)
    <3>1. c \in s + 1..s + Len(name) /\ c - s \in 1..Len(name)
      BY <1>2, <1>3, <2>1
    <3> QED
      BY <1>5, <1>7, <3>1
  <2>2. CASE c > s + Len(name)
    <3>1. c \in s + Len(name) + 1..e
      BY <1>2, <1>3, <1>6, <2>2
    <3>2. text[c] = Space
      BY <1>4, <3>1
    <3> QED
      BY <3>2, StopsDiffer
  <2> QED
    BY <1>2, <1>3, <2>1, <2>2
<1> DEFINE t == SubSeq(text, s + 1, e)
<1>9. UpTo(text, s, Arrow) = t
  BY <1>4, <1>6, <1>8, <1>2, UpToStop
<1>10. /\ t \in Seq(Characters)
       /\ Len(t) = e - s
       /\ \A c \in 1..e - s : t[c] = text[s + c]
  <2>1. \A i \in s + 1..e : text[i] \in Characters
    BY <1>2, <1>6
  <2>2. /\ t \in Seq(Characters)
        /\ Len(t) = IF s + 1 <= e THEN e - (s + 1) + 1 ELSE 0
        /\ \A c \in 1..e - (s + 1) + 1 : t[c] = text[s + 1 + c - 1]
    BY <1>2, <1>6, <2>1, SubSeqProperties
  <2>3. (IF s + 1 <= e THEN e - (s + 1) + 1 ELSE 0) = e - s /\ e - (s + 1) + 1 = e - s
    BY <1>2, <1>6
  <2>4. \A c \in 1..e - s : s + 1 + c - 1 = s + c
    BY <1>2, <1>6
  <2> HIDE DEF t
  <2> QED
    BY <2>2, <2>3, <2>4
<1> HIDE DEF t
<1>11. Len(name) \in 0..Len(t)
  BY <1>2, <1>3, <1>6, <1>10
<1>12. \A c \in 1..Len(name) : t[c] = name[c] /\ t[c] # Space
  <2> TAKE c \in 1..Len(name)
  <2>1. c \in 1..e - s
    BY <1>2, <1>3, <1>6
  <2> QED
    BY <1>2, <1>5, <1>10, <2>1
<1>13. \A c \in Len(name) + 1..Len(t) : t[c] = Space
  <2> TAKE c \in Len(name) + 1..Len(t)
  <2>1. c \in 1..e - s /\ s + c \in s + Len(name) + 1..e
    BY <1>2, <1>3, <1>6, <1>10
  <2> QED
    BY <1>4, <1>10, <2>1
<1>14. WithoutSpaces(t) = [c \in 1..Len(name) |-> t[c]]
  BY <1>10, <1>11, <1>12, <1>13, SpacesBehind
<1>15. [c \in 1..Len(name) |-> t[c]] = name
  BY <1>3, <1>12
<1> QED
  BY <1>9, <1>14, <1>15

(* And so is the name of a module it depends on.                           *)
LEMMA DependRead ==
  ASSUME NEW text \in Seq(Characters), NEW name \in Seq(Characters), NEW s,
         StandsAt(name, text, s, {}, {Comma})
  PROVE  UpTo(text, s, Comma) = name
<1>1. s \in Occurrences(text, name)
  BY DEF StandsAt
<1>2. /\ s \in Nat /\ s + Len(name) <= Len(text)
      /\ \A c \in 1..Len(name) : name[c] = text[s + c]
  BY <1>1, OccurrenceReads
<1>3. Len(name) \in Nat /\ Len(text) \in Nat /\ DOMAIN name = 1..Len(name)
  OBVIOUS
<1>4. PICK e \in s + Len(name)..Len(text) :
        /\ s + Len(name) + 1..e = {}
        /\ e < Len(text) => text[e + 1] = Comma
  BY DEF StandsAt
<1>5. e = s + Len(name)
  <2>1. e \in Int /\ s + Len(name) <= e /\ s + Len(name) + 1 \in Int
    BY <1>2, <1>3
  <2>2. s + Len(name) + 1 <= e => e \in s + Len(name) + 1..e
    BY <2>1
  <2>3. ~ (s + Len(name) + 1 <= e)
    BY <1>4, <2>2
  <2> QED
    BY <1>2, <1>3, <2>1, <2>3
<1>6. \A c \in s + 1..e : text[c] # Comma
  <2> TAKE c \in s + 1..e
  <2>1. c - s \in 1..Len(name) /\ s + (c - s) = c
    BY <1>2, <1>3, <1>5
  <2>2. name[c - s] # Comma
    BY <1>3, <2>1 DEF StandsAt
  <2> QED
    BY <1>2, <2>1, <2>2
<1>7. e \in s..Len(text)
  BY <1>2, <1>3, <1>5
<1>8. UpTo(text, s, Comma) = SubSeq(text, s + 1, e)
  BY <1>2, <1>4, <1>6, <1>7, UpToStop
<1> QED
  BY <1>1, <1>5, <1>8 DEF Occurrences

(* The keyword has two characters.                                         *)
LEMMA KeywordReads ==
  ASSUME NEW text \in Seq(Characters), NEW s
  PROVE  s \in Occurrences(text, ModuleWord)
           <=> s \in Nat /\ s + 2 <= Len(text) /\ text[s + 1] = "mod" /\ text[s + 2] = "ule"
<1>1. Len(text) \in Nat /\ Len(ModuleWord) = 2
  BY DEF ModuleWord
<1>2. ASSUME s \in Nat, s + 2 <= Len(text)
      PROVE  SubSeq(text, s + 1, s + 2) = <<text[s + 1], text[s + 2]>>
  <2>1. \A i \in s + 1..s + 2 : text[i] \in Characters
    BY <1>1, <1>2
  <2>2. /\ SubSeq(text, s + 1, s + 2) \in Seq(Characters)
        /\ Len(SubSeq(text, s + 1, s + 2))
             = IF s + 1 <= s + 2 THEN (s + 2) - (s + 1) + 1 ELSE 0
        /\ \A c \in 1..(s + 2) - (s + 1) + 1 :
             SubSeq(text, s + 1, s + 2)[c] = text[s + 1 + c - 1]
    BY <1>2, <2>1, SubSeqProperties
  <2>3. /\ (IF s + 1 <= s + 2 THEN (s + 2) - (s + 1) + 1 ELSE 0) = 2
        /\ 1 \in 1..(s + 2) - (s + 1) + 1 /\ s + 1 + 1 - 1 = s + 1
        /\ 2 \in 1..(s + 2) - (s + 1) + 1 /\ s + 1 + 2 - 1 = s + 2
    BY <1>2
  <2> DEFINE t == SubSeq(text, s + 1, s + 2)
  <2>4. t \in Seq(Characters) /\ Len(t) = 2 /\ t[1] = text[s + 1] /\ t[2] = text[s + 2]
    BY <2>2, <2>3
  <2> HIDE DEF t
  <2>5. t = <<t[1], t[2]>>
    BY <2>4
  <2> QED
    BY <2>4, <2>5 DEF t
<1>3. s \in 0..Len(text) - 2 <=> s \in Nat /\ s + 2 <= Len(text)
  BY <1>1
<1>4. s \in Occurrences(text, ModuleWord)
        <=> s \in 0..Len(text) - 2 /\ SubSeq(text, s + 1, s + 2) = <<"mod", "ule">>
  BY <1>1 DEF Occurrences, ModuleWord
<1> QED
  BY <1>2, <1>3, <1>4

(***************************************************************************)
(* The lines of any file.                                                  *)
(***************************************************************************)

LEMMA LinesType ==
  ASSUME file \in Files
  PROVE  /\ file \in Seq(Lines) /\ Len(file) \in Nat /\ DOMAIN file = 1..Len(file)
         /\ \A k \in DOMAIN file : file[k] \in Lines
         /\ \A k \in DOMAIN file : file[k].text \in Seq(Characters)
         /\ \A k \in DOMAIN file : Len(file[k].text) \in Nat
<1>1. file \in Seq(Lines)
  BY FlowAssumption
<1>2. Len(file) \in Nat /\ DOMAIN file = 1..Len(file)
  BY <1>1
<1>3. \A k \in DOMAIN file : file[k] \in Lines
  BY <1>1, <1>2
<1>4. \A k \in DOMAIN file : file[k].text \in Seq(Characters)
  BY <1>3, FlowAssumption
<1>5. \A k \in DOMAIN file : Len(file[k].text) \in Nat
  BY <1>4, LenProperties
<1> QED
  BY <1>1, <1>2, <1>3, <1>4, <1>5

LEMMA LinesArePlaces ==
  ASSUME file \in Files, NEW S, S \subseteq DOMAIN file
  PROVE  IsPlaces(S)
<1>1. S \subseteq 0..Len(file) /\ Len(file) \in Nat
  BY LinesType
<1> QED
  BY <1>1 DEF IsPlaces

LEMMA LinesWithPlaces ==
  ASSUME file \in Files, NEW p
  PROVE  LinesWith(p) \subseteq DOMAIN file /\ IsPlaces(LinesWith(p))
<1>1. LinesWith(p) \subseteq DOMAIN file
  BY DEF LinesWith
<1> QED
  BY <1>1, LinesArePlaces

LEMMA KeywordPlaces ==
  ASSUME file \in Files, NEW k \in DOMAIN file
  PROVE  IsPlaces(Keywords(k)) /\ Cardinality(Keywords(k)) \in Nat
<1>1. Len(file[k].text) \in Nat
  BY LinesType
<1>2. Len(ModuleWord) \in Nat
  BY DEF ModuleWord
<1>3. IsPlaces(Keywords(k))
  BY <1>1, <1>2, OccurrencesArePlaces DEF Keywords
<1> QED
  BY <1>3, PlacesFinite

LEMMA CountsType ==
  ASSUME file \in Files
  PROVE  /\ module_count = Cardinality(LinesWith(ModuleWord)) /\ module_count \in Nat
         /\ level_count = Cardinality(LinesWith(LevelWord)) /\ level_count \in Nat
         /\ required_size \in Nat
<1>1. module_count = Cardinality(LinesWith(ModuleWord))
  BY DEF module_count, InAllLines
<1>2. level_count = Cardinality(LinesWith(LevelWord))
  BY DEF level_count, InAllLines
<1>3. module_count \in Nat /\ level_count \in Nat
  BY <1>1, <1>2, LinesWithPlaces, PlacesFinite
<1> QED
  BY <1>1, <1>2, <1>3 DEF required_size

(* Each module has a line, and each line with a keyword a module.          *)
LEMMA LineOfModule ==
  ASSUME file \in Files, NEW m \in 1..module_count
  PROVE  /\ LineOf(m) \in LinesWith(ModuleWord) /\ LineOf(m) \in DOMAIN file
         /\ Rank(LinesWith(ModuleWord), LineOf(m)) = m
<1>1. m \in 1..Cardinality(LinesWith(ModuleWord))
  BY CountsType
<1> QED
  BY <1>1, LinesWithPlaces, NthMember DEF LineOf

LEMMA ModuleOfLine ==
  ASSUME file \in Files, NEW k \in LinesWith(ModuleWord)
  PROVE  /\ Rank(LinesWith(ModuleWord), k) \in 1..module_count
         /\ LineOf(Rank(LinesWith(ModuleWord), k)) = k
  BY LinesWithPlaces, NthOfRank, CountsType DEF LineOf

LEMMA TempArrayType ==
  ASSUME file \in Files, NEW k \in 1..required_size
  PROVE  temp_array[k] \in Nat \cup {-1}
<1>1. temp_array[k] = IF k <= Len(file) THEN Cardinality(Keywords(k)) - 1 ELSE 0
  BY DEF temp_array
<1>2. CASE k <= Len(file)
  <2>1. k \in DOMAIN file
    BY <1>2, LinesType, CountsType
  <2>2. Cardinality(Keywords(k)) \in Nat
    BY <2>1, KeywordPlaces
  <2>3. temp_array[k] = Cardinality(Keywords(k)) - 1
    BY <1>1, <1>2
  <2> QED
    BY <2>2, <2>3
<1>3. CASE ~ (k <= Len(file))
  BY <1>1, <1>3
<1> QED
  BY <1>2, <1>3

LEMMA KeptPlaces ==
  ASSUME file \in Files
  PROVE  kept \subseteq 1..required_size /\ IsPlaces(kept) /\ Cardinality(kept) \in Nat
<1>1. kept \subseteq 1..required_size
  BY DEF kept
<1>2. kept \subseteq 0..required_size /\ required_size \in Nat
  BY <1>1, CountsType
<1>3. IsPlaces(kept)
  BY <1>2 DEF IsPlaces
<1> QED
  BY <1>1, <1>3, PlacesFinite

(* No module has a negative number of dependencies.                        *)
LEMMA NumDepsType ==
  ASSUME file \in Files, NEW m \in 1..module_count
  PROVE  num_deps[m] \in Nat
<1>1. num_deps[m] = IF m <= Cardinality(kept) THEN temp_array[Nth(kept, m)] ELSE 0
  BY DEF num_deps
<1>2. CASE m <= Cardinality(kept)
  <2>1. m \in 1..Cardinality(kept)
    BY <1>2, KeptPlaces, CountsType
  <2>2. Nth(kept, m) \in kept
    BY <2>1, KeptPlaces, NthMember
  <2>3. Nth(kept, m) \in 1..required_size /\ temp_array[Nth(kept, m)] # -1
    BY <2>2 DEF kept
  <2>4. temp_array[Nth(kept, m)] \in Nat \cup {-1}
    BY <2>3, TempArrayType
  <2>5. num_deps[m] = temp_array[Nth(kept, m)]
    BY <1>1, <1>2
  <2> QED
    BY <2>3, <2>4, <2>5
<1>3. CASE ~ (m <= Cardinality(kept))
  BY <1>1, <1>3
<1> QED
  BY <1>2, <1>3

LEMMA SameLines ==
  ASSUME file' = file
  PROVE  /\ \A p : LinesWith(p)' = LinesWith(p)
         /\ \A p : Places(p)' = Places(p)
         /\ \A k : Keywords(k)' = Keywords(k)
         /\ \A k : NameOn(k)' = NameOn(k)
         /\ \A k : LevelOf(k)' = LevelOf(k)
         /\ \A m : LineOf(m)' = LineOf(m)
         /\ module_count' = module_count
         /\ level_count' = level_count
         /\ num_deps' = num_deps
         /\ Regular' = Regular
<1>1. \A p : LinesWith(p)' = LinesWith(p)
  BY DEF LinesWith
<1>2. \A p : Places(p)' = Places(p)
  BY DEF Places
<1>3. \A k : Keywords(k)' = Keywords(k)
  BY DEF Keywords
<1>4. \A k : NameOn(k)' = NameOn(k)
  BY <1>3 DEF NameOn
<1>5. \A k : LevelOf(k)' = LevelOf(k)
  BY <1>3 DEF LevelOf
<1>6. module_count' = module_count
  BY <1>1 DEF module_count, InAllLines
<1>7. level_count' = level_count
  BY <1>1 DEF level_count, InAllLines
<1>8. \A m : LineOf(m)' = LineOf(m)
  BY <1>1 DEF LineOf
<1>9. required_size' = required_size
  BY <1>6, <1>7 DEF required_size
<1>10. temp_array' = temp_array
  BY <1>3, <1>9 DEF temp_array
<1>11. kept' = kept
  BY <1>9, <1>10 DEF kept
<1>12. num_deps' = num_deps
  BY <1>6, <1>10, <1>11 DEF num_deps
<1>13. Regular' = Regular
  BY DEF Regular
<1> QED
  BY <1>1, <1>2, <1>3, <1>4, <1>5, <1>6, <1>7, <1>8, <1>12, <1>13

(***************************************************************************)
(* The lines of a regular file.                                            *)
(***************************************************************************)

LEMMA DeclaringLines ==
  ASSUME file \in Files, NEW k \in Declared
  PROVE  /\ k \in DOMAIN file /\ Declares(file[k])
         /\ file[k].name \in Seq(Characters)
         /\ file[k].depends \in Seq(Seq(Characters))
         /\ Cardinality(Keywords(k)) \in 1..MaxMatches
         /\ Len(file[k].depends) = Cardinality(Keywords(k)) - 1
<1>1. k \in DOMAIN file /\ file[k].kind = "module"
  BY DEF Declared
<1>2. Declares(file[k])
  BY <1>1, LinesType, FlowAssumption
<1> QED
  BY <1>1, <1>2 DEF Declares, Keywords

(* The lines with a keyword are those that are meant to have it.           *)
LEMMA RegularKinds ==
  ASSUME file \in Files, Regular
  PROVE  /\ LinesWith(ModuleWord) = Declared
         /\ LinesWith(LevelWord) = LevelLines
         /\ Declared \cup LevelLines = DOMAIN file
         /\ Declared \cap LevelLines = {}
<1>1. \A k \in DOMAIN file : file[k].kind \in {"level", "module"}
  BY DEF Regular
<1>2. ASSUME NEW k \in DOMAIN file, file[k].kind = "module"
      PROVE  Occurrences(file[k].text, ModuleWord) # {} /\ Occurrences(file[k].text, LevelWord) = {}
  <2>1. k \in Declared
    BY <1>2 DEF Declared
  <2>2. Declares(file[k]) /\ Cardinality(Keywords(k)) \in 1..MaxMatches
    BY <2>1, DeclaringLines
  <2>3. Keywords(k) # {}
    BY <2>2, FS_EmptySet
  <2> QED
    BY <2>2, <2>3 DEF Declares, Keywords
<1>3. ASSUME NEW k \in DOMAIN file, file[k].kind = "level"
      PROVE  Occurrences(file[k].text, LevelWord) # {} /\ Occurrences(file[k].text, ModuleWord) = {}
  BY <1>3, LinesType, FlowAssumption
<1>4. LinesWith(ModuleWord) = Declared
  BY <1>1, <1>2, <1>3 DEF LinesWith, Declared
<1>5. LinesWith(LevelWord) = LevelLines
  BY <1>1, <1>2, <1>3 DEF LinesWith, LevelLines
<1>6. Declared \cup LevelLines = DOMAIN file /\ Declared \cap LevelLines = {}
  BY <1>1 DEF Declared, LevelLines
<1> QED
  BY <1>4, <1>5, <1>6

LEMMA KindsArePlaces ==
  ASSUME file \in Files
  PROVE  /\ Declared \subseteq DOMAIN file /\ IsPlaces(Declared)
         /\ LevelLines \subseteq DOMAIN file /\ IsPlaces(LevelLines)
<1>1. Declared \subseteq DOMAIN file /\ LevelLines \subseteq DOMAIN file
  BY DEF Declared, LevelLines
<1> QED
  BY <1>1, LinesArePlaces

(* One array is indexed by lines, another has one entry for each module    *)
(* and level, and what is kept of it goes into one with one for each       *)
(* module: on a regular file they have the same sizes.                     *)
LEMMA RegularSizes ==
  ASSUME file \in Files, Regular
  PROVE  /\ required_size = Len(file)
         /\ kept = Declared
         /\ Cardinality(kept) = module_count
<1>1. /\ LinesWith(ModuleWord) = Declared
      /\ LinesWith(LevelWord) = LevelLines
      /\ Declared \cup LevelLines = DOMAIN file
      /\ Declared \cap LevelLines = {}
  BY RegularKinds
<1>2. IsFiniteSet(Declared) /\ IsFiniteSet(LevelLines)
  BY KindsArePlaces, PlacesFinite
<1>3. Cardinality(DOMAIN file) = Cardinality(Declared) + Cardinality(LevelLines)
  <2>1. Cardinality(Declared \cup LevelLines)
          = Cardinality(Declared) + Cardinality(LevelLines) - Cardinality({})
    BY <1>1, <1>2, FS_Union
  <2>2. Cardinality(Declared) \in Nat /\ Cardinality(LevelLines) \in Nat
    BY <1>2, FS_CardinalityType
  <2> QED
    BY <1>1, <2>1, <2>2, FS_EmptySet
<1>4. Cardinality(DOMAIN file) = Len(file)
  <2>1. Cardinality(1..Len(file)) = IF 1 > Len(file) THEN 0 ELSE Len(file) - 1 + 1
    BY LinesType, FS_Interval
  <2> QED
    BY <2>1, LinesType
<1>5. required_size = Len(file)
  BY <1>1, <1>3, <1>4, CountsType DEF required_size
<1>6. ASSUME NEW k \in DOMAIN file
      PROVE  temp_array[k] # -1 <=> k \in Declared
  <2>1. k \in 1..required_size /\ k <= Len(file)
    BY <1>5, <1>6, LinesType
  <2>2. temp_array[k] = Cardinality(Keywords(k)) - 1
    BY <2>1 DEF temp_array
  <2>3. IsFiniteSet(Keywords(k)) /\ Cardinality(Keywords(k)) \in Nat
    BY <1>6, KeywordPlaces, PlacesFinite
  <2>4. Cardinality(Keywords(k)) = 0 <=> Keywords(k) = {}
    BY <2>3, FS_EmptySet
  <2>5. k \in Declared <=> Keywords(k) # {}
    BY <1>1, <1>6 DEF LinesWith, Keywords
  <2> QED
    BY <2>2, <2>3, <2>4, <2>5
<1>7. kept = Declared
  BY <1>5, <1>6, LinesType, KindsArePlaces DEF kept
<1> QED
  BY <1>1, <1>5, <1>7, CountsType

(* There is an entry for each module that a line depends on.               *)
LEMMA RegularNumDeps ==
  ASSUME file \in Files, Regular, NEW m \in 1..module_count
  PROVE  /\ LineOf(m) \in Declared
         /\ num_deps[m] + 1 = Cardinality(Keywords(LineOf(m)))
         /\ num_deps[m] = Len(file[LineOf(m)].depends)
<1>1. LineOf(m) \in Declared
  BY LineOfModule, RegularKinds
<1>2. kept = Declared /\ Cardinality(kept) = module_count /\ LinesWith(ModuleWord) = Declared
      /\ required_size = Len(file)
  BY RegularKinds, RegularSizes
<1>3. num_deps[m] = temp_array[LineOf(m)]
  <2>1. m <= module_count
    BY CountsType
  <2>2. Nth(kept, m) = LineOf(m)
    BY <1>2 DEF LineOf
  <2> QED
    BY <1>2, <2>1, <2>2 DEF num_deps
<1>4. LineOf(m) \in 1..required_size /\ LineOf(m) <= Len(file)
  BY <1>1, <1>2, LinesType, KindsArePlaces
<1>5. temp_array[LineOf(m)] = Cardinality(Keywords(LineOf(m))) - 1
  BY <1>4 DEF temp_array
<1>6. /\ Cardinality(Keywords(LineOf(m))) \in Nat
      /\ Len(file[LineOf(m)].depends) = Cardinality(Keywords(LineOf(m))) - 1
  BY <1>1, DeclaringLines, KeywordPlaces
<1> QED
  BY <1>1, <1>3, <1>5, <1>6

(* The name read is the name meant, and so are the levels.                 *)
LEMMA RegularNames ==
  ASSUME file \in Files, NEW k \in Declared
  PROVE  NameOn(k) = file[k].name
<1>1. k \in DOMAIN file /\ Declares(file[k]) /\ file[k].name \in Seq(Characters)
  BY DeclaringLines
<1>2. file[k].text \in Seq(Characters)
  BY <1>1, LinesType
<1>3. StandsAt(file[k].name, file[k].text, Nth(Keywords(k), 1), {Space}, {Arrow})
  BY <1>1 DEF Declares, Keywords
<1> QED
  BY <1>1, <1>2, <1>3, NameRead DEF NameOn

LEMMA RegularDepends ==
  ASSUME file \in Files, NEW k \in Declared, NEW d \in DOMAIN file[k].depends
  PROVE  UpTo(file[k].text, Nth(Keywords(k), d + 1), Comma) = file[k].depends[d]
<1>1. /\ k \in DOMAIN file /\ Declares(file[k]) /\ file[k].depends[d] \in Seq(Characters)
  BY DeclaringLines, ElementOfSeq
<1>2. file[k].text \in Seq(Characters)
  BY <1>1, LinesType
<1>3. StandsAt(file[k].depends[d], file[k].text, Nth(Keywords(k), d + 1), {}, {Comma})
  BY <1>1 DEF Declares, Keywords
<1> QED
  BY <1>1, <1>2, <1>3, DependRead

LEMMA RegularLevelOf ==
  ASSUME file \in Files, Regular, NEW k \in Declared
  PROVE  LevelOf(k) = Rank(LevelLines, k) - 1
<1>1. k \in 1..Len(file) /\ Len(file) \in Nat /\ DOMAIN file = 1..Len(file)
  BY LinesType, KindsArePlaces
<1>2. \A n \in 1..k : n \in DOMAIN file
  BY <1>1
<1>3. \A n \in DOMAIN file : Keywords(n) = {} <=> n \in LevelLines
  BY RegularKinds DEF LinesWith, Keywords
<1>4. \A n \in LevelLines : n \in 1..Len(file)
  BY <1>1, KindsArePlaces
<1>5. { n \in 1..k : Keywords(n) = {} } = { n \in LevelLines : n <= k }
  BY <1>1, <1>2, <1>3, <1>4
<1> QED
  BY <1>5 DEF LevelOf, Rank

(* A module of a regular file is behind the line of a level.               *)
LEMMA FirstLevel ==
  ASSUME file \in Files, Regular, NEW k \in Declared
  PROVE  Rank(LevelLines, k) \in Nat \ {0}
<1>1. 1 \in LevelLines /\ 1 <= k /\ k \in Nat
  <2>1. k \in 1..Len(file) /\ Len(file) \in Nat /\ DOMAIN file = 1..Len(file)
    BY LinesType, KindsArePlaces
  <2>2. 1 \in DOMAIN file
    BY <2>1
  <2> QED
    BY <2>1, <2>2 DEF Regular, LevelLines
<1>2. IsPlaces(LevelLines)
  BY KindsArePlaces
<1>3. Rank(LevelLines, 1) \in 1..Cardinality(LevelLines) /\ Cardinality(LevelLines) \in Nat
  BY <1>1, <1>2, NthOfRank, PlacesFinite
<1>4. LevelLines \subseteq Int /\ IsFiniteSet(LevelLines)
  BY <1>2, PlacesFinite
<1>7. Rank(LevelLines, k) \in Nat
  BY <1>4, RankType
<1>5. 1 \in Int /\ k \in Int /\ Rank(LevelLines, k) \in Nat
  BY <1>1, <1>7
<1>6. Rank(LevelLines, 1) <= Rank(LevelLines, k)
  BY <1>1, <1>4, <1>5, RankMonotone
<1> QED
  BY <1>3, <1>5, <1>6

LEMMA NoneBetween ==
  ASSUME file \in Files, Regular, NEW m \in 1..module_count, m + 1 \in 1..module_count,
         NEW k \in Int, LineOf(m) < k, k < LineOf(m + 1)
  PROVE  k \notin Declared
<1>1. /\ LineOf(m) \in Declared /\ Rank(Declared, LineOf(m)) = m
      /\ LineOf(m + 1) \in Declared /\ Rank(Declared, LineOf(m + 1)) = m + 1
  BY LineOfModule, RegularKinds
<1>2. Declared \subseteq Int /\ IsFiniteSet(Declared)
  BY KindsArePlaces, PlacesFinite
<1>3. LineOf(m) \in Int /\ LineOf(m + 1) \in Int
  BY <1>1, <1>2
<1>4. ASSUME k \in Declared
      PROVE  FALSE
  <2>1. LineOf(m) <= k /\ k <= LineOf(m + 1)
    BY <1>3
  <2>2. m < Rank(Declared, k)
    BY <1>1, <1>2, <1>3, <1>4, <2>1, RankMonotone
  <2>3. Rank(Declared, k) < m + 1
    BY <1>1, <1>2, <1>3, <2>1, RankMonotone
  <2>4. Rank(Declared, k) \in Nat
    BY <1>2, RankType
  <2>5. m \in Int
    OBVIOUS
  <2> QED
    BY <2>2, <2>3, <2>4, <2>5
<1> QED
  BY <1>4

(* The level of the next module is the same or one more, for no level of a *)
(* regular file is empty, and that of the first is the first.              *)
LEMMA LevelSteps ==
  ASSUME file \in Files, Regular
  PROVE  /\ module_count \in Nat \ {0}
         /\ Rank(LevelLines, LineOf(1)) = 1
         /\ \A m \in 1..module_count : m + 1 \in 1..module_count =>
              Rank(LevelLines, LineOf(m + 1)) - Rank(LevelLines, LineOf(m)) \in {0, 1}
<1>1. /\ DOMAIN file = 1..Len(file) /\ Len(file) \in Nat
      /\ module_count \in Nat
      /\ Declared \cup LevelLines = DOMAIN file
      /\ Declared \cap LevelLines = {}
  BY LinesType, CountsType, RegularKinds
<1>2. LevelLines \subseteq Int /\ IsFiniteSet(LevelLines)
  BY KindsArePlaces, PlacesFinite
<1>3. \A k \in Int : Rank(LevelLines, k) \in Nat
  BY <1>2, RankType
<1>4. \A k \in Int : Rank(LevelLines, k) = Rank(LevelLines, k - 1)
                                            + (IF k \in LevelLines THEN 1 ELSE 0)
  BY <1>2, RankStep
<1>5. \A k \in LevelLines : k + 1 \in Declared
  <2> TAKE k \in LevelLines
  <2>1. k \in DOMAIN file /\ file[k].kind = "level"
    BY DEF LevelLines
  <2>2. k < Len(file) /\ file[k + 1].kind = "module"
    BY <2>1 DEF Regular
  <2>3. k + 1 \in DOMAIN file
    BY <1>1, <2>1, <2>2
  <2> QED
    BY <2>2, <2>3 DEF Declared
<1>6. 1 \in LevelLines /\ 2 \in Declared
  <2>1. 1 \in DOMAIN file /\ file[1].kind = "level"
    BY <1>1 DEF Regular
  <2>2. 1 \in LevelLines
    BY <2>1 DEF LevelLines
  <2> QED
    BY <1>5, <2>2
<1>7. \A k \in Int : k < 1 => k \notin LevelLines /\ k \notin Declared
  BY <1>1
<1>8. module_count \in Nat \ {0}
  <2>1. Rank(Declared, 2) \in 1..module_count
    BY <1>6, RegularKinds, ModuleOfLine
  <2> QED
    BY <1>1, <2>1
<1>9. Rank(LevelLines, LineOf(1)) = 1
  <2>1. Rank(Declared, 2) = 1
    <3>1. Declared \subseteq Int /\ IsFiniteSet(Declared)
      BY KindsArePlaces, PlacesFinite
    <3>2. \A k \in Int : Rank(Declared, k) = Rank(Declared, k - 1)
                                              + (IF k \in Declared THEN 1 ELSE 0)
      BY <3>1, RankStep
    <3>3. Rank(Declared, 0) = 0
      <4>1. \A k \in Declared : ~ (k <= 0)
        BY <1>7, <3>1
      <4> QED
        BY <4>1, RankNone
    <3>4. 1 \notin Declared
      BY <1>1, <1>6
    <3>5. Rank(Declared, 1) = Rank(Declared, 0) + (IF 1 \in Declared THEN 1 ELSE 0)
      <4>1. 1 \in Int /\ 1 - 1 = 0
        OBVIOUS
      <4> QED
        BY <3>2, <4>1
    <3>6. Rank(Declared, 2) = Rank(Declared, 1) + (IF 2 \in Declared THEN 1 ELSE 0)
      <4>1. 2 \in Int /\ 2 - 1 = 1
        OBVIOUS
      <4> QED
        BY <3>2, <4>1
    <3> QED
      BY <1>6, <3>3, <3>4, <3>5, <3>6
  <2>2. LineOf(1) = 2
    <3>1. 2 \in LinesWith(ModuleWord) /\ LinesWith(ModuleWord) = Declared
      BY <1>6, RegularKinds
    <3>2. LineOf(Rank(LinesWith(ModuleWord), 2)) = 2
      BY <3>1, ModuleOfLine
    <3> QED
      BY <2>1, <3>1, <3>2
  <2>3. Rank(LevelLines, 0) = 0
    <3>1. \A k \in LevelLines : ~ (k <= 0)
      BY <1>2, <1>7
    <3> QED
      BY <3>1, RankNone
  <2>4. 2 \notin LevelLines
    BY <1>1, <1>6
  <2>5. Rank(LevelLines, 1) = Rank(LevelLines, 0) + (IF 1 \in LevelLines THEN 1 ELSE 0)
    <3>1. 1 \in Int /\ 1 - 1 = 0
      OBVIOUS
    <3> QED
      BY <1>4, <3>1
  <2>6. Rank(LevelLines, 2) = Rank(LevelLines, 1) + (IF 2 \in LevelLines THEN 1 ELSE 0)
    <3>1. 2 \in Int /\ 2 - 1 = 1
      OBVIOUS
    <3> QED
      BY <1>4, <3>1
  <2> QED
    BY <1>6, <2>2, <2>3, <2>4, <2>5, <2>6
<1>10. ASSUME NEW m \in 1..module_count, m + 1 \in 1..module_count
       PROVE  Rank(LevelLines, LineOf(m + 1)) - Rank(LevelLines, LineOf(m)) \in {0, 1}
  <2> DEFINE a == LineOf(m)
             b == LineOf(m + 1)
  <2>1. a \in Declared /\ b \in Declared
    BY <1>10, LineOfModule, RegularKinds
  <2>2. a \in 1..Len(file) /\ b \in 1..Len(file)
    BY <1>1, <2>1, KindsArePlaces
  <2>3. a < b
    <3>1. m \in 1..Cardinality(LinesWith(ModuleWord)) /\ m + 1 \in 1..Cardinality(LinesWith(ModuleWord))
      BY <1>10, CountsType
    <3>2. m < m + 1
      OBVIOUS
    <3> QED
      BY <3>1, <3>2, LinesWithPlaces, NthIncreases DEF LineOf
  <2>4. \A k \in Int : a < k /\ k < b => k \notin Declared
    BY <1>10, NoneBetween
  <2> HIDE DEF a, b
  <2>5. b = a + 1 \/ b = a + 2
    <3>1. ASSUME a + 2 < b
          PROVE  FALSE
      <4>1. a + 1 \in 1..Len(file) /\ a + 1 \notin Declared
        BY <1>1, <2>2, <2>4, <3>1
      <4>2. a + 1 \in LevelLines
        BY <1>1, <4>1
      <4>3. (a + 1) + 1 \in Declared
        BY <1>5, <4>2
      <4> QED
        BY <2>2, <2>4, <3>1, <4>3
    <3> QED
      BY <1>1, <2>2, <2>3, <3>1
  <2>6. a + 1 \in Int /\ (a + 1) - 1 = a /\ a + 2 \in Int /\ (a + 2) - 1 = a + 1 /\ a \in Int
    BY <2>2
  <2>7. b \notin LevelLines
    BY <1>1, <2>1
  <2>8. /\ Rank(LevelLines, a + 1) = Rank(LevelLines, a) + (IF a + 1 \in LevelLines THEN 1 ELSE 0)
        /\ Rank(LevelLines, a + 2) = Rank(LevelLines, a + 1) + (IF a + 2 \in LevelLines THEN 1 ELSE 0)
    BY <1>4, <2>6
  <2>9. Rank(LevelLines, b) - Rank(LevelLines, a) \in {0, 1}
    BY <1>3, <2>5, <2>6, <2>7, <2>8
  <2> QED
    BY <2>9 DEF a, b
<1> QED
  BY <1>8, <1>9, <1>10

(* What the first step has stored.                                         *)
LevelsRead == module_level = [m \in 1..module_count |-> LevelOf(LineOf(m))]
NamesRead == module_names = [m \in 1..module_count |-> NameOn(LineOf(m))]

LEMMA RegularLevels ==
  ASSUME file \in Files, Regular, LevelsRead
  PROVE  /\ Len(module_level) = module_count /\ DOMAIN module_level = 1..module_count
         /\ \A m \in 1..module_count : /\ module_level[m] = Rank(LevelLines, LineOf(m)) - 1
                                       /\ module_level[m] \in Nat
<1>1. module_count \in Nat
  BY CountsType
<1>2. Len(module_level) = module_count /\ DOMAIN module_level = 1..module_count
  BY <1>1 DEF LevelsRead
<1>3. ASSUME NEW m \in 1..module_count
      PROVE  /\ module_level[m] = Rank(LevelLines, LineOf(m)) - 1
             /\ module_level[m] \in Nat
  <2>1. LineOf(m) \in Declared
    BY <1>3, RegularNumDeps
  <2>2. LevelOf(LineOf(m)) = Rank(LevelLines, LineOf(m)) - 1
    BY <2>1, RegularLevelOf
  <2>3. Rank(LevelLines, LineOf(m)) \in Nat \ {0}
    BY <2>1, FirstLevel
  <2>4. module_level[m] = LevelOf(LineOf(m))
    BY <1>3 DEF LevelsRead
  <2> QED
    BY <2>2, <2>3, <2>4
<1> QED
  BY <1>2, <1>3

(* So the level counted, which never rises by more than one, keeps up.     *)
LEMMA LevelsCounted ==
  ASSUME file \in Files, Regular, LevelsRead
  PROVE  \A m \in 1..module_count : LevelCounted[m] = module_level[m]
<1>1. /\ Len(module_level) = module_count /\ module_count \in Nat \ {0}
      /\ \A m \in 1..module_count : module_level[m] \in Nat
      /\ module_level[1] = 0
      /\ \A m \in 1..module_count : m + 1 \in 1..module_count =>
           module_level[m + 1] = module_level[m] \/ module_level[m + 1] = module_level[m] + 1
  <2>1. module_count \in Nat \ {0} /\ 1 \in 1..module_count
    BY LevelSteps
  <2>2. module_level[1] = 0
    BY <2>1, RegularLevels, LevelSteps
  <2>3. ASSUME NEW m \in 1..module_count, m + 1 \in 1..module_count
        PROVE  module_level[m + 1] = module_level[m] \/ module_level[m + 1] = module_level[m] + 1
    <3>1. Rank(LevelLines, LineOf(m + 1)) - Rank(LevelLines, LineOf(m)) \in {0, 1}
      BY <2>3, LevelSteps
    <3>2. /\ LineOf(m) \in Declared /\ LineOf(m + 1) \in Declared
      BY <2>3, RegularNumDeps
    <3>3. Rank(LevelLines, LineOf(m)) \in Nat /\ Rank(LevelLines, LineOf(m + 1)) \in Nat
      BY <3>2, FirstLevel
    <3>4. /\ module_level[m] = Rank(LevelLines, LineOf(m)) - 1
          /\ module_level[m + 1] = Rank(LevelLines, LineOf(m + 1)) - 1
      BY <2>3, RegularLevels
    <3> QED
      BY <3>1, <3>3, <3>4
  <2> QED
    BY <2>1, <2>2, <2>3, RegularLevels
<1> DEFINE n == module_count
           g == [m \in 0..n |-> IF m = 0 THEN 0 ELSE module_level[m]]
           Follows(h) ==
             h = [m \in 0..n |->
                    IF m = 0 THEN 0
                    ELSE IF module_level[m] > h[m - 1] THEN h[m - 1] + 1
                    ELSE h[m - 1]]
<1>2. \A m \in 0..n :
        g[m] = IF m = 0 THEN 0
               ELSE IF module_level[m] > g[m - 1] THEN g[m - 1] + 1
               ELSE g[m - 1]
  <2> TAKE m \in 0..n
  <2>1. CASE m = 0
    BY <2>1
  <2>2. CASE m = 1
    <3>1. g[1] = 0 /\ g[0] = 0 /\ m # 0 /\ m - 1 = 0
      BY <1>1, <2>2
    <3> QED
      BY <1>1, <2>2, <3>1
  <2>3. CASE m # 0 /\ m # 1
    <3>1. m - 1 \in 1..n /\ (m - 1) + 1 = m /\ m \in 1..n /\ m - 1 \in 0..n /\ m - 1 # 0
      BY <1>1, <2>3
    <3>2. g[m] = module_level[m] /\ g[m - 1] = module_level[m - 1]
      BY <2>3, <3>1
    <3>3. module_level[m] = module_level[m - 1] \/ module_level[m] = module_level[m - 1] + 1
      BY <1>1, <3>1
    <3>4. module_level[m] \in Nat /\ module_level[m - 1] \in Nat
      BY <1>1, <3>1
    <3> HIDE DEF g
    <3> QED
      BY <2>3, <3>2, <3>3, <3>4
  <2> QED
    BY <2>1, <2>2, <2>3
<1>3. Follows(g)
  BY <1>2
<1>4. LevelCounted = CHOOSE h : Follows(h)
  BY <1>1 DEF LevelCounted
<1>5. Follows(LevelCounted)
  <2> HIDE DEF Follows
  <2> QED
    BY <1>3, <1>4
<1>6. \A m \in 0..n :
        LevelCounted[m] = IF m = 0 THEN 0
                          ELSE IF module_level[m] > LevelCounted[m - 1] THEN LevelCounted[m - 1] + 1
                          ELSE LevelCounted[m - 1]
  BY <1>5
<1> HIDE DEF Follows
<1> DEFINE K == { m \in Nat : m \in 0..n => LevelCounted[m] = g[m] }
<1>7. 0 \in K
  BY <1>1, <1>6
<1>8. ASSUME NEW m \in Nat, m \in K
      PROVE  m + 1 \in K
  <2>1. ASSUME m + 1 \in 0..n
        PROVE  LevelCounted[m + 1] = g[m + 1]
    <3>1. m \in 0..n /\ (m + 1) - 1 = m /\ m + 1 # 0
      BY <1>1, <2>1
    <3>2. LevelCounted[m] = g[m]
      BY <1>8, <3>1
    <3>3. LevelCounted[m + 1] = IF module_level[m + 1] > LevelCounted[m] THEN LevelCounted[m] + 1
                                ELSE LevelCounted[m]
      BY <1>6, <2>1, <3>1
    <3>4. g[m + 1] = IF module_level[m + 1] > g[m] THEN g[m] + 1 ELSE g[m]
      BY <1>2, <2>1, <3>1
    <3> QED
      BY <3>2, <3>3, <3>4
  <2> QED
    BY <2>1
<1>9. Nat \subseteq K
  <2> HIDE DEF K
  <2> QED
    BY <1>7, <1>8, NatSets
<1>10. ASSUME NEW m \in 1..n
       PROVE  LevelCounted[m] = module_level[m]
  <2>1. m \in Nat /\ m \in 0..n /\ m # 0
    BY <1>1
  <2>2. LevelCounted[m] = g[m]
    BY <1>9, <2>1
  <2>3. g[m] = module_level[m]
    BY <2>1
  <2> QED
    BY <2>2, <2>3
<1> QED
  BY <1>10

(* Each level has the modules that are meant to be in it.                  *)
LEMMA RegularLevelSizes ==
  ASSUME file \in Files, Regular, LevelsRead
  PROVE  /\ level_count \in Nat /\ level_count = Cardinality(LevelLines)
         /\ Len(num_modules_in_level) = level_count
         /\ \A l \in 1..level_count : num_modules_in_level[l] = Cardinality(MeantAt(l))
<1>1. /\ DOMAIN module_level = 1..module_count /\ Len(module_level) = module_count
      /\ module_count \in Nat \ {0}
      /\ module_count = Cardinality(Declared)
      /\ level_count \in Nat /\ level_count = Cardinality(LevelLines)
      /\ LinesWith(ModuleWord) = Declared
  BY RegularLevels, LevelSteps, CountsType, RegularKinds
<1>2. \A m \in 1..module_count :
        /\ LevelCounted[m] = module_level[m]
        /\ module_level[m] = Rank(LevelLines, LineOf(m)) - 1 /\ module_level[m] \in Nat
        /\ LineOf(m) \in Declared
  BY LevelsCounted, RegularLevels, RegularNumDeps
<1>3. LevelCounted[module_count] + 1 = level_count
  <2>1. /\ DOMAIN file = 1..Len(file) /\ Len(file) \in Nat
        /\ Declared \cup LevelLines = DOMAIN file
        /\ \A k \in LevelLines : k < Len(file)
    BY LinesType, RegularKinds DEF Regular, LevelLines
  <2>2. Len(file) \in Declared
    <3>1. 1 \in DOMAIN file
      <4>1. LineOf(1) \in Declared
        BY <1>1, <1>2
      <4> QED
        BY <2>1, <4>1, KindsArePlaces
    <3>2. Len(file) \in DOMAIN file /\ ~ (Len(file) < Len(file))
      BY <2>1, <3>1
    <3> QED
      BY <2>1, <3>2
  <2>3. Rank(Declared, Len(file)) = module_count
    <3>1. \A k \in Declared : k <= Len(file)
      BY <2>1, KindsArePlaces
    <3> QED
      BY <1>1, <3>1, RankAll
  <2>4. LineOf(module_count) = Len(file)
    BY <1>1, <2>2, <2>3, ModuleOfLine
  <2>5. Rank(LevelLines, Len(file)) = level_count
    <3>1. \A k \in LevelLines : k <= Len(file)
      BY <2>1, KindsArePlaces
    <3> QED
      BY <1>1, <3>1, RankAll
  <2>6. module_count \in 1..module_count
    BY <1>1
  <2> QED
    BY <1>1, <1>2, <2>4, <2>5, <2>6
<1>4. ASSUME NEW l \in 1..level_count
      PROVE  num_modules_in_level[l] = Cardinality(MeantAt(l))
  <2>1. num_modules_in_level[l]
          = Cardinality({ m \in 1..module_count : module_level[m] >= LevelCounted[m]
                                                  /\ LevelCounted[m] = l - 1 })
    BY <1>1, <1>3 DEF num_modules_in_level
  <2>2. \A m \in 1..module_count :
          module_level[m] >= LevelCounted[m] /\ LevelCounted[m] = l - 1
            <=> Nth(Declared, m) \in MeantAt(l)
    <3> TAKE m \in 1..module_count
    <3>1. LineOf(m) = Nth(Declared, m)
      BY <1>1 DEF LineOf
    <3>2. Rank(LevelLines, LineOf(m)) \in Nat \ {0}
      BY <1>2, FirstLevel
    <3>3. /\ LevelCounted[m] = module_level[m] /\ module_level[m] \in Nat
          /\ module_level[m] = Rank(LevelLines, LineOf(m)) - 1
          /\ LineOf(m) \in Declared
      BY <1>2
    <3>4. LevelCounted[m] = l - 1 <=> Rank(LevelLines, LineOf(m)) = l
      BY <1>1, <3>2, <3>3
    <3>5. module_level[m] >= LevelCounted[m]
      BY <3>3
    <3> QED
      BY <3>1, <3>3, <3>4, <3>5 DEF MeantAt
  <2>3. { m \in 1..module_count : module_level[m] >= LevelCounted[m]
                                  /\ LevelCounted[m] = l - 1 }
          = { m \in 1..Cardinality(Declared) : Nth(Declared, m) \in MeantAt(l) }
    BY <1>1, <2>2
  <2>4. MeantAt(l) \subseteq Declared
    BY DEF MeantAt
  <2> QED
    BY <2>1, <2>3, <2>4, KindsArePlaces, CountByRank
<1>5. Len(num_modules_in_level) = level_count
  BY <1>1, <1>3 DEF num_modules_in_level
<1> QED
  BY <1>1, <1>4, <1>5

(* The modules of the first levels.                                        *)
MeantUpTo(j) == { k \in Declared : Rank(LevelLines, k) <= j }

LEMMA MeantSplit ==
  ASSUME file \in Files, Regular, NEW j \in Nat
  PROVE  /\ IsFiniteSet(MeantUpTo(j)) /\ IsFiniteSet(MeantAt(j + 1))
         /\ Cardinality(MeantUpTo(j)) \in Nat /\ Cardinality(MeantAt(j + 1)) \in Nat
         /\ Cardinality(MeantUpTo(j + 1)) = Cardinality(MeantUpTo(j)) + Cardinality(MeantAt(j + 1))
<1>1. IsFiniteSet(Declared)
  BY KindsArePlaces, PlacesFinite
<1>2. MeantUpTo(j) \in SUBSET Declared /\ MeantAt(j + 1) \in SUBSET Declared
  BY DEF MeantUpTo, MeantAt
<1>3. IsFiniteSet(MeantUpTo(j)) /\ IsFiniteSet(MeantAt(j + 1))
  BY <1>1, <1>2, FS_Subset
<1>4. Cardinality(MeantUpTo(j)) \in Nat /\ Cardinality(MeantAt(j + 1)) \in Nat
  BY <1>3, FS_CardinalityType
<1>5. \A k \in Declared : Rank(LevelLines, k) \in Nat
  BY FirstLevel
<1>6. MeantUpTo(j + 1) = MeantUpTo(j) \cup MeantAt(j + 1)
  <2>1. \A k \in Declared : Rank(LevelLines, k) <= j + 1
                              <=> Rank(LevelLines, k) <= j \/ Rank(LevelLines, k) = j + 1
    BY <1>5
  <2> QED
    BY <2>1 DEF MeantUpTo, MeantAt
<1>7. MeantUpTo(j) \cap MeantAt(j + 1) = {}
  <2>1. \A k \in Declared : ~ (Rank(LevelLines, k) <= j /\ Rank(LevelLines, k) = j + 1)
    BY <1>5
  <2> QED
    BY <2>1 DEF MeantUpTo, MeantAt
<1>8. Cardinality(MeantUpTo(j) \cup MeantAt(j + 1))
        = Cardinality(MeantUpTo(j)) + Cardinality(MeantAt(j + 1)) - Cardinality({})
  BY <1>3, <1>7, FS_Union
<1>9. Cardinality({}) = 0
  BY FS_EmptySet
<1>10. Cardinality(MeantUpTo(j + 1)) = Cardinality(MeantUpTo(j)) + Cardinality(MeantAt(j + 1))
  <2> DEFINE a == Cardinality(MeantUpTo(j))
             b == Cardinality(MeantAt(j + 1))
  <2>1. Cardinality(MeantUpTo(j + 1)) = a + b - Cardinality({})
    BY <1>6, <1>8
  <2>2. a \in Nat /\ b \in Nat
    BY <1>4
  <2> HIDE DEF a, b
  <2>3. a + b - Cardinality({}) = a + b
    BY <1>9, <2>2
  <2>4. Cardinality(MeantUpTo(j + 1)) = a + b
    BY <2>1, <2>3
  <2> QED
    BY <2>4 DEF a, b
<1> QED
  BY <1>3, <1>4, <1>10

(* The task vector has the sizes counted.                                  *)
Sized ==
  /\ DOMAIN task_vector = 1..level_count
  /\ \A l \in 1..level_count : DOMAIN task_vector[l] = 1..num_modules_in_level[l]

LEMMA Rooms ==
  ASSUME file \in Files, Regular, LevelsRead, Sized
  PROVE  \A j \in 0..level_count :
           /\ IsFiniteSet(Slots(j))
           /\ RoomUpTo(j) = Cardinality(MeantUpTo(j))
<1>1. /\ level_count \in Nat
      /\ \A l \in 1..level_count : num_modules_in_level[l] = Cardinality(MeantAt(l))
  BY RegularLevelSizes
<1> DEFINE K == { j \in Nat : j \in 0..level_count =>
                    /\ IsFiniteSet(Slots(j))
                    /\ Cardinality(Slots(j)) = Cardinality(MeantUpTo(j)) }
<1>2. 0 \in K
  <2>1. Slots(0) = {}
    BY DEF Slots
  <2>2. MeantUpTo(0) = {}
    <3>1. \A k \in Declared : ~ (Rank(LevelLines, k) <= 0)
      BY FirstLevel
    <3> QED
      BY <3>1 DEF MeantUpTo
  <2> QED
    BY <2>1, <2>2, FS_EmptySet
<1>3. ASSUME NEW j \in Nat, j \in K
      PROVE  j + 1 \in K
  <2>1. SUFFICES ASSUME j + 1 \in 0..level_count
                 PROVE  /\ IsFiniteSet(Slots(j + 1))
                        /\ Cardinality(Slots(j + 1)) = Cardinality(MeantUpTo(j + 1))
    OBVIOUS
  <2>2. j \in 0..level_count /\ j + 1 \in 1..level_count
    BY <1>1, <2>1
  <2>3. IsFiniteSet(Slots(j)) /\ Cardinality(Slots(j)) = Cardinality(MeantUpTo(j))
    BY <1>3, <2>2
  <2> DEFINE n == Cardinality(MeantAt(j + 1))
             N1 == {j + 1} \X (1..n)
  <2>4. n \in Nat /\ Cardinality(MeantUpTo(j)) \in Nat
        /\ Cardinality(MeantUpTo(j + 1)) = Cardinality(MeantUpTo(j)) + n
    BY MeantSplit
  <2>5. DOMAIN task_vector[j + 1] = 1..n
    BY <1>1, <2>2 DEF Sized
  <2>6. Slots(j + 1) = Slots(j) \cup N1
    <3>1. 1..j + 1 = (1..j) \cup {j + 1}
      OBVIOUS
    <3>2. Slots(j + 1) = Slots(j) \cup ({j + 1} \X DOMAIN task_vector[j + 1])
      BY <3>1 DEF Slots
    <3> QED
      BY <2>5, <3>2
  <2>7. Slots(j) \cap N1 = {}
    <3>1. \A at \in Slots(j) : at[1] \in 1..j
      BY DEF Slots
    <3>2. \A at \in N1 : at[1] = j + 1
      OBVIOUS
    <3>3. j + 1 \notin 1..j
      OBVIOUS
    <3> HIDE DEF N1
    <3> QED
      BY <3>1, <3>2, <3>3
  <2>8. IsFiniteSet(N1) /\ Cardinality(N1) = n
    <3>1. IsFiniteSet(1..n) /\ Cardinality(1..n) = IF 1 > n THEN 0 ELSE n - 1 + 1
      <4> HIDE DEF n
      <4>1. 1 \in Int /\ n \in Int
        BY <2>4
      <4> QED
        BY <4>1, FS_Interval
    <3>2. Cardinality(1..n) = n
      BY <2>4, <3>1
    <3>3. IsFiniteSet({j + 1}) /\ Cardinality({j + 1}) = 1
      BY FS_Singleton
    <3>4. IsFiniteSet(N1) /\ Cardinality(N1) = Cardinality({j + 1}) * Cardinality(1..n)
      BY <3>1, <3>3, FS_Product
    <3> HIDE DEF N1, n
    <3> QED
      BY <2>4, <3>2, <3>3, <3>4
  <2> HIDE DEF N1, n
  <2>9. /\ IsFiniteSet(Slots(j) \cup N1)
        /\ Cardinality(Slots(j) \cup N1) = Cardinality(Slots(j)) + Cardinality(N1) - Cardinality({})
    BY <2>3, <2>7, <2>8, FS_Union
  <2>10. Cardinality({}) = 0
    BY FS_EmptySet
  <2>11. Cardinality(Slots(j) \cup N1) = Cardinality(MeantUpTo(j + 1))
    BY <2>3, <2>4, <2>8, <2>9, <2>10
  <2> QED
    BY <2>6, <2>9, <2>11
<1>4. Nat \subseteq K
  <2> HIDE DEF K
  <2> QED
    BY <1>2, <1>3, NatSets
<1>5. \A j \in 0..level_count : j \in Nat
  BY <1>1
<1> QED
  BY <1>4, <1>5 DEF RoomUpTo

(* In all there is room for each module.                                   *)
LEMMA AllRooms ==
  ASSUME file \in Files, Regular, LevelsRead, Sized
  PROVE  RoomUpTo(level_count) = module_count
<1>1. level_count \in Nat /\ level_count = Cardinality(LevelLines)
  BY RegularLevelSizes
<1>2. IsFiniteSet(LevelLines)
  BY KindsArePlaces, PlacesFinite
<1>3. \A k \in Declared : Rank(LevelLines, k) <= level_count
  BY <1>1, <1>2, RankType
<1>4. MeantUpTo(level_count) = Declared
  BY <1>3 DEF MeantUpTo
<1>5. level_count \in 0..level_count
  BY <1>1
<1> QED
  BY <1>4, <1>5, Rooms, RegularKinds, CountsType

(* The modules of a level follow those of the levels before it.            *)
LEMMA InOrder ==
  ASSUME file \in Files, Regular, LevelsRead, Sized,
         NEW l \in 1..level_count, NEW x \in 1..Cardinality(MeantAt(l))
  PROVE  /\ RoomUpTo(l - 1) + x \in 1..module_count
         /\ LineOf(RoomUpTo(l - 1) + x) = Nth(MeantAt(l), x)
         /\ Nth(MeantAt(l), x) \in MeantAt(l)
<1> DEFINE k == Nth(MeantAt(l), x)
<1>1. level_count \in Nat /\ l \in Nat \ {0} /\ l - 1 \in Nat /\ l - 1 \in 0..level_count
      /\ (l - 1) + 1 = l
  BY RegularLevelSizes
<1>2. MeantAt(l) \subseteq DOMAIN file /\ MeantAt(l) \subseteq Declared
  BY DEF MeantAt, Declared
<1>3. IsPlaces(MeantAt(l))
  BY <1>2, LinesArePlaces
<1>4. k \in MeantAt(l) /\ Rank(MeantAt(l), k) = x
  BY <1>3, NthMember
<1>5. k \in Declared /\ Rank(LevelLines, k) = l
  BY <1>4 DEF MeantAt
<1>6. /\ LevelLines \subseteq Int /\ IsFiniteSet(LevelLines)
      /\ Declared \subseteq Int /\ IsFiniteSet(Declared)
  BY KindsArePlaces, PlacesFinite
<1> HIDE DEF k
<1>7. k \in Int /\ \A y \in Declared : y \in Int
  BY <1>5, <1>6
<1>8. \A y \in Declared : Rank(LevelLines, y) \in Nat
  BY FirstLevel
<1>9. \A y \in Declared : y <= k => Rank(LevelLines, y) <= l
  BY <1>5, <1>6, <1>7, RankMonotone
<1>10. \A y \in Declared : k <= y => l <= Rank(LevelLines, y)
  BY <1>5, <1>6, <1>7, RankMonotone
<1> DEFINE before == MeantUpTo(l - 1)
           beside == { y \in MeantAt(l) : y <= k }
<1>11. { y \in Declared : y <= k } = before \cup beside
  <2>1. ASSUME NEW y \in Declared, y <= k
        PROVE  y \in before \cup beside
    <3>1. Rank(LevelLines, y) <= l - 1 \/ Rank(LevelLines, y) = l
      BY <1>1, <1>8, <1>9, <2>1
    <3> QED
      BY <2>1, <3>1 DEF MeantUpTo, MeantAt
  <2>2. ASSUME NEW y \in before
        PROVE  y \in Declared /\ y <= k
    <3>1. y \in Declared /\ Rank(LevelLines, y) <= l - 1
      BY <2>2 DEF MeantUpTo
    <3>2. ~ (l <= Rank(LevelLines, y))
      BY <1>1, <1>8, <3>1
    <3>3. ~ (k <= y)
      BY <1>10, <3>1, <3>2
    <3> QED
      BY <1>7, <3>1, <3>3
  <2>3. \A y \in beside : y \in Declared /\ y <= k
    BY DEF MeantAt
  <2> HIDE DEF before, beside
  <2> QED
    BY <2>1, <2>2, <2>3
<1>12. before \cap beside = {}
  <2>1. \A y \in Declared : ~ (Rank(LevelLines, y) <= l - 1 /\ Rank(LevelLines, y) = l)
    BY <1>1, <1>8
  <2> QED
    BY <2>1 DEF MeantUpTo, MeantAt
<1>13. IsFiniteSet(before) /\ IsFiniteSet(beside)
  <2>1. before \in SUBSET Declared /\ beside \in SUBSET Declared
    BY DEF MeantUpTo, MeantAt
  <2> HIDE DEF before, beside
  <2> QED
    BY <1>6, <2>1, FS_Subset
<1>14. /\ Cardinality(before) = RoomUpTo(l - 1) /\ Cardinality(beside) = x
       /\ Cardinality(before) \in Nat /\ Cardinality(beside) \in Nat
  <2>1. Cardinality(before) = RoomUpTo(l - 1)
    BY <1>1, Rooms
  <2>2. Cardinality(beside) = x
    BY <1>4 DEF Rank
  <2> HIDE DEF before, beside
  <2> QED
    BY <1>13, <2>1, <2>2, FS_CardinalityType
<1>15. Rank(Declared, k) = RoomUpTo(l - 1) + x
  <2> HIDE DEF before, beside
  <2>1. Cardinality(before \cup beside) = Cardinality(before) + Cardinality(beside) - Cardinality({})
    BY <1>12, <1>13, FS_Union
  <2>2. Rank(Declared, k) = Cardinality(before \cup beside)
    BY <1>11 DEF Rank
  <2> QED
    BY <1>14, <2>1, <2>2, FS_EmptySet
<1>16. k \in LinesWith(ModuleWord) /\ LinesWith(ModuleWord) = Declared
  BY <1>5, RegularKinds
<1>17. Rank(Declared, k) \in 1..module_count /\ LineOf(Rank(Declared, k)) = k
  BY <1>16, ModuleOfLine
<1> QED
  BY <1>4, <1>15, <1>17 DEF k

(* The ids are those meant, and 0 for a name that nobody declares.         *)
LEMMA Ids ==
  ASSUME file \in Files, Regular, NamesRead, NEW name
  PROVE  IdOf(name) = MeantId(name)
<1>1. /\ module_count \in Nat /\ LinesWith(ModuleWord) = Declared
      /\ IsPlaces(Declared) /\ Declared \subseteq DOMAIN file
  BY CountsType, RegularKinds, KindsArePlaces
<1>2. \A m \in 1..module_count : /\ LineOf(m) \in Declared /\ Rank(Declared, LineOf(m)) = m
                                 /\ NameOn(LineOf(m)) = file[LineOf(m)].name
  BY <1>1, LineOfModule, RegularNames
<1>3. DOMAIN module_names = 1..module_count
      /\ \A m \in 1..module_count : module_names[m] = file[LineOf(m)].name
  BY <1>2 DEF NamesRead
<1>4. \A k, n \in Declared : file[k].name = file[n].name => k = n
  BY <1>1 DEF Regular, Declared
<1> DEFINE at == { m \in DOMAIN module_names : module_names[m] = name }
           meant == { k \in Declared : file[k].name = name }
<1>5. CASE at = {}
  <2>1. ASSUME NEW k \in meant
        PROVE  FALSE
    <3>1. k \in Declared /\ file[k].name = name
      BY <2>1
    <3>2. Rank(Declared, k) \in 1..module_count /\ LineOf(Rank(Declared, k)) = k
      BY <1>1, <3>1, ModuleOfLine
    <3>3. Rank(Declared, k) \in at
      BY <1>3, <3>1, <3>2
    <3> QED
      BY <1>5, <3>3
  <2>2. meant = {}
    <3> HIDE DEF meant
    <3> QED
      BY <2>1
  <2> QED
    BY <1>5, <2>2 DEF IdOf, MeantId
<1>6. CASE at # {}
  <2>1. PICK m \in at : TRUE
    BY <1>6
  <2>2. m \in 1..module_count /\ file[LineOf(m)].name = name
    BY <1>3, <2>1
  <2>3. at = {m}
    <3>1. ASSUME NEW n \in at
          PROVE  n = m
      <4>1. n \in 1..module_count /\ file[LineOf(n)].name = name
        BY <1>3, <3>1
      <4>2. LineOf(n) = LineOf(m)
        BY <1>2, <1>4, <2>2, <4>1
      <4> QED
        BY <1>2, <2>2, <4>1, <4>2
    <3> HIDE DEF at
    <3> QED
      BY <2>1, <3>1
  <2>4. meant = {LineOf(m)}
    <3>1. LineOf(m) \in Declared
      BY <1>2, <2>2
    <3>2. \A k \in Declared : file[k].name = name => k = LineOf(m)
      BY <1>4, <2>2, <3>1
    <3> QED
      BY <2>2, <3>1, <3>2
  <2>5. ASSUME NEW v \in Nat
        PROVE  Nth({v}, 1) = v /\ Cardinality({v}) = 1
    <3>1. IsPlaces({v})
      <4>1. {v} \subseteq 0..v
        OBVIOUS
      <4> QED
        BY <4>1 DEF IsPlaces
    <3>2. Cardinality({v}) = 1
      BY FS_Singleton
    <3>3. 1 \in 1..Cardinality({v})
      BY <3>2
    <3>4. Nth({v}, 1) \in {v}
      BY <3>1, <3>3, NthMember
    <3> QED
      BY <3>2, <3>4
  <2>6. IdOf(name) = m - 1
    <3>1. Nth({m}, Cardinality({m})) = m
      BY <2>2, <2>5
    <3>2. {m} # {}
      OBVIOUS
    <3> QED
      BY <2>3, <3>1, <3>2 DEF IdOf
  <2>7. MeantId(name) = m - 1
    <3>1. LineOf(m) \in Nat
      BY <1>1, <1>2, <2>2, PlacesFinite
    <3>2. Nth({LineOf(m)}, 1) = LineOf(m)
      BY <3>1, <2>5
    <3>3. {LineOf(m)} # {}
      OBVIOUS
    <3>4. Rank(Declared, LineOf(m)) = m
      BY <1>2, <2>2
    <3> QED
      BY <2>4, <3>2, <3>3, <3>4 DEF MeantId
  <2> QED
    BY <2>6, <2>7
<1> QED
  BY <1>5, <1>6

(***************************************************************************)
(* Where the name of a module stands in a regular file.                    *)
(***************************************************************************)

LEMMA KeywordIsNoStop == "mod" \notin {Space, Arrow, Comma} /\ "ule" \notin {Space, Arrow, Comma}
  BY DEF Space, Arrow, Comma

(* What follows a name does not belong to it.                              *)
LEMMA NextBehind ==
  ASSUME NEW text \in Seq(Characters), NEW name \in Seq(Characters), NEW s \in Nat,
         NEW inside, NEW behind, StandsAt(name, text, s, inside, behind),
         s + Len(name) < Len(text)
  PROVE  text[s + Len(name) + 1] \in inside \cup behind
<1>1. Len(text) \in Nat /\ Len(name) \in Nat
  OBVIOUS
<1>2. PICK e \in s + Len(name)..Len(text) :
        /\ \A c \in s + Len(name) + 1..e : text[c] \in inside
        /\ e < Len(text) => text[e + 1] \in behind
  BY DEF StandsAt
<1>3. CASE e = s + Len(name)
  BY <1>2, <1>3
<1>4. CASE e # s + Len(name)
  <2>1. s + Len(name) + 1 \in s + Len(name) + 1..e
    BY <1>1, <1>2, <1>4
  <2> QED
    BY <1>2, <2>1
<1> QED
  BY <1>3, <1>4

(* A name on its own behind the keyword begins with it.                    *)
LEMMA NameBegins ==
  ASSUME NEW text \in Seq(Characters), NEW name \in Seq(Characters),
         NEW s \in Occurrences(text, ModuleWord),
         NEW inside, NEW behind, StandsAt(name, text, s, inside, behind),
         inside \cup behind \subseteq {Space, Arrow, Comma}
  PROVE  Len(name) >= 2 /\ name[1] = "mod" /\ name[2] = "ule"
<1>1. s \in Nat /\ s + 2 <= Len(text) /\ text[s + 1] = "mod" /\ text[s + 2] = "ule"
  BY KeywordReads
<1>2. Len(text) \in Nat /\ Len(name) \in Nat
  OBVIOUS
<1>3. s \in Occurrences(text, name)
  BY DEF StandsAt
<1>4. \A c \in 1..Len(name) : name[c] = text[s + c]
  BY <1>3, OccurrenceReads
<1>5. ASSUME Len(name) < 2
      PROVE  FALSE
  <2>1. s + Len(name) < Len(text)
    BY <1>1, <1>2, <1>5
  <2>2. text[s + Len(name) + 1] \in {Space, Arrow, Comma}
    BY <1>1, <2>1, NextBehind
  <2>3. s + Len(name) + 1 = s + 1 \/ s + Len(name) + 1 = s + 2
    BY <1>1, <1>2, <1>5
  <2> QED
    BY <1>1, <2>2, <2>3, KeywordIsNoStop
<1>6. Len(name) >= 2
  BY <1>2, <1>5
<1>7. 1 \in 1..Len(name) /\ 2 \in 1..Len(name)
  BY <1>2, <1>6
<1> QED
  BY <1>1, <1>4, <1>6, <1>7

(* A name without stops that is found where another stands is a part of it.*)
LEMMA PartOfName ==
  ASSUME NEW text \in Seq(Characters), NEW other \in Seq(Characters),
         NEW name \in Seq(Characters), NEW s, NEW inside, NEW behind,
         s \in Occurrences(text, name),
         StandsAt(other, text, s, inside, behind),
         \A c \in 1..Len(name) : name[c] \notin inside /\ name[c] \notin behind
  PROVE  Occurrences(other, name) # {}
<1>1. Len(text) \in Nat /\ Len(name) \in Nat /\ Len(other) \in Nat
  OBVIOUS
<1>2. s \in Occurrences(text, other)
  BY DEF StandsAt
<1>3. /\ s \in Nat /\ s + Len(name) <= Len(text)
      /\ \A c \in 1..Len(name) : name[c] = text[s + c]
      /\ \A c \in 1..Len(other) : other[c] = text[s + c]
  BY <1>2, OccurrenceReads
<1>4. ASSUME Len(other) < Len(name)
      PROVE  FALSE
  <2>1. s + Len(other) < Len(text) /\ Len(other) + 1 \in 1..Len(name)
        /\ s + (Len(other) + 1) = s + Len(other) + 1
    BY <1>1, <1>3, <1>4
  <2>2. text[s + Len(other) + 1] \in inside \cup behind
    BY <1>3, <2>1, NextBehind
  <2>3. name[Len(other) + 1] = text[s + Len(other) + 1]
    BY <1>3, <2>1
  <2> QED
    BY <2>1, <2>2, <2>3
<1>5. Len(name) <= Len(other)
  BY <1>1, <1>4
<1>6. \A c \in 1..Len(name) : other[c] = name[c]
  BY <1>1, <1>3, <1>5
<1>7. SubSeq(other, 0 + 1, 0 + Len(name)) = name
  <2>1. \A i \in 1..Len(name) : other[i] \in Characters
    BY <1>1, <1>5
  <2>2. /\ SubSeq(other, 1, Len(name)) \in Seq(Characters)
        /\ Len(SubSeq(other, 1, Len(name))) = IF 1 <= Len(name) THEN Len(name) - 1 + 1 ELSE 0
        /\ \A i \in 1..Len(name) - 1 + 1 : SubSeq(other, 1, Len(name))[i] = other[1 + i - 1]
    BY <1>1, <2>1, SubSeqProperties
  <2> DEFINE t == SubSeq(other, 1, Len(name))
  <2>3. t \in Seq(Characters) /\ Len(t) = Len(name) /\ \A i \in 1..Len(name) : t[i] = other[i]
    <3>1. (IF 1 <= Len(name) THEN Len(name) - 1 + 1 ELSE 0) = Len(name)
          /\ Len(name) - 1 + 1 = Len(name) /\ \A i \in 1..Len(name) : 1 + i - 1 = i
      BY <1>1
    <3> HIDE DEF t
    <3> QED
      BY <2>2, <3>1 DEF t
  <2> HIDE DEF t
  <2>4. t = name
    BY <1>6, <2>3, SeqEqual
  <2>5. 0 + 1 = 1 /\ 0 + Len(name) = Len(name)
    BY <1>1
  <2> QED
    BY <2>4, <2>5 DEF t
<1>8. 0 \in 0..Len(other) - Len(name)
  BY <1>1, <1>5
<1> QED
  BY <1>7, <1>8 DEF Occurrences

LEMMA PlacesAreFinite ==
  ASSUME file \in Files, NEW pattern, Len(pattern) \in Nat
  PROVE  IsFiniteSet(Places(pattern))
<1> DEFINE At(k) == {k} \X Occurrences(file[k].text, pattern)
           S == { At(k) : k \in DOMAIN file }
<1>1. IsFiniteSet(DOMAIN file)
  BY LinesArePlaces, PlacesFinite
<1>2. \A k \in DOMAIN file : IsFiniteSet(At(k))
  <2> TAKE k \in DOMAIN file
  <2>1. Len(file[k].text) \in Nat
    BY LinesType
  <2>2. IsFiniteSet(Occurrences(file[k].text, pattern))
    BY <2>1, OccurrencesArePlaces, PlacesFinite
  <2>3. IsFiniteSet({k})
    BY FS_Singleton
  <2> QED
    BY <2>2, <2>3, FS_Product
<1>3. IsFiniteSet(S)
  <2> DEFINE f == [k \in DOMAIN file |-> At(k)]
  <2>1. f \in [DOMAIN file -> S] /\ \A T \in S : \E k \in DOMAIN file : f[k] = T
    OBVIOUS
  <2>2. f \in Surjection(DOMAIN file, S)
    BY <2>1 DEF Surjection
  <2> QED
    BY <1>1, <2>2, FS_Surjection
<1>4. \A T \in S : IsFiniteSet(T)
  BY <1>2
<1>5. Places(pattern) = UNION S
  BY DEF Places
<1> HIDE DEF S
<1> QED
  BY <1>3, <1>4, <1>5, FS_UNION

(* Each line that mentions a name as one depended on has it where a        *)
(* keyword is, and so does the line that declares it.                      *)
Named(name, own) == Mentions(name) \cup {<<own, 0>>}
PlaceOf(at) == <<at[1], Nth(Keywords(at[1]), at[2] + 1)>>

LEMMA NamedTwice ==
  ASSUME file \in Files, NEW own \in Declared, NEW name, name = file[own].name,
         NEW at \in Named(name, own)
  PROVE  /\ at[1] \in Declared /\ at[2] \in Nat /\ at = <<at[1], at[2]>>
         /\ at[2] + 1 \in 1..Cardinality(Keywords(at[1]))
         /\ PlaceOf(at) \in Places(name)
<1>1. CASE at \in Mentions(name)
  <2>1. PICK k \in Declared : at \in {k} \X { d \in DOMAIN file[k].depends : file[k].depends[d] = name }
    BY <1>1 DEF Mentions
  <2>2. at[1] = k /\ at[2] \in DOMAIN file[k].depends /\ file[k].depends[at[2]] = name
        /\ at = <<at[1], at[2]>>
    BY <2>1
  <2>3. /\ k \in DOMAIN file /\ Declares(file[k])
        /\ Cardinality(Keywords(k)) \in Nat
        /\ Len(file[k].depends) = Cardinality(Keywords(k)) - 1
        /\ file[k].depends \in Seq(Seq(Characters))
    BY DeclaringLines, KeywordPlaces
  <2>4. at[2] \in Nat /\ at[2] + 1 \in 1..Cardinality(Keywords(k))
    BY <2>2, <2>3
  <2>5. StandsAt(name, file[k].text, Nth(Keywords(k), at[2] + 1), {}, {Comma})
    BY <2>2, <2>3 DEF Declares, Keywords
  <2>6. Nth(Keywords(k), at[2] + 1) \in Occurrences(file[k].text, name)
    BY <2>5 DEF StandsAt
  <2> QED
    BY <2>2, <2>3, <2>4, <2>6 DEF PlaceOf, Places
<1>2. CASE at = <<own, 0>>
  <2>1. /\ own \in DOMAIN file /\ Declares(file[own])
        /\ Cardinality(Keywords(own)) \in 1..MaxMatches
    BY DeclaringLines
  <2>2. StandsAt(name, file[own].text, Nth(Keywords(own), 1), {Space}, {Arrow})
    BY <2>1 DEF Declares, Keywords
  <2>3. Nth(Keywords(own), 1) \in Occurrences(file[own].text, name)
    BY <2>2 DEF StandsAt
  <2>4. at[1] = own /\ at[2] = 0 /\ at[2] + 1 = 1
    BY <1>2
  <2>5. 1 \in 1..Cardinality(Keywords(own))
    BY <2>1, FlowAssumption
  <2> QED
    BY <1>2, <2>1, <2>3, <2>4, <2>5 DEF PlaceOf, Places
<1> QED
  BY <1>1, <1>2 DEF Named

LEMMA NamedInjectively ==
  ASSUME file \in Files, NEW own \in Declared, NEW name, name = file[own].name
  PROVE  [at \in Named(name, own) |-> PlaceOf(at)] \in Injection(Named(name, own), Places(name))
<1> DEFINE S == Named(name, own)
           f == [at \in S |-> PlaceOf(at)]
<1>1. f \in [S -> Places(name)]
  BY NamedTwice
<1>2. ASSUME NEW a \in S, NEW b \in S, f[a] = f[b]
      PROVE  a = b
  <2>1. /\ a[1] \in Declared /\ a[2] \in Nat /\ a = <<a[1], a[2]>>
        /\ a[2] + 1 \in 1..Cardinality(Keywords(a[1]))
        /\ b[2] \in Nat /\ b = <<b[1], b[2]>>
        /\ b[2] + 1 \in 1..Cardinality(Keywords(b[1]))
    BY NamedTwice
  <2>2. PlaceOf(a) = PlaceOf(b)
    BY <1>2
  <2>3. a[1] = b[1] /\ Nth(Keywords(a[1]), a[2] + 1) = Nth(Keywords(b[1]), b[2] + 1)
    BY <2>2 DEF PlaceOf
  <2>4. IsPlaces(Keywords(a[1]))
    BY <2>1, KeywordPlaces, KindsArePlaces
  <2>5. /\ Rank(Keywords(a[1]), Nth(Keywords(a[1]), a[2] + 1)) = a[2] + 1
        /\ Rank(Keywords(a[1]), Nth(Keywords(a[1]), b[2] + 1)) = b[2] + 1
    BY <2>1, <2>3, <2>4, NthMember
  <2>6. a[2] + 1 = b[2] + 1
    BY <2>3, <2>5
  <2> QED
    BY <2>1, <2>3, <2>6
<1> HIDE DEF f, S
<1>3. f \in Injection(S, Places(name))
  BY <1>1, <1>2 DEF Injection, IsInjective
<1> QED
  BY <1>3 DEF f, S

(* If the name is no part of another, it stands nowhere else.              *)
LEMMA NamedEverywhere ==
  ASSUME file \in Files, Regular, NEW own \in Declared, NEW name, name = file[own].name,
         \A n \in Mentioned \ {name} : Occurrences(n, name) = {},
         NEW place \in Places(name)
  PROVE  \E at \in Named(name, own) : PlaceOf(at) = place
<1>1. PICK k \in DOMAIN file : place \in {k} \X Occurrences(file[k].text, name)
  BY DEF Places
<1> DEFINE s == place[2]
<1>2. s \in Occurrences(file[k].text, name) /\ place = <<k, s>>
  BY <1>1
<1> HIDE DEF s
<1>3. /\ own \in DOMAIN file /\ Declares(file[own]) /\ name \in Seq(Characters)
      /\ file[own].text \in Seq(Characters) /\ file[k].text \in Seq(Characters)
      /\ Cardinality(Keywords(own)) \in 1..MaxMatches /\ MaxMatches \in Nat
  BY DeclaringLines, LinesType, FlowAssumption
<1>4. Len(name) >= 2 /\ name[1] = "mod" /\ name[2] = "ule"
  <2>1. StandsAt(name, file[own].text, Nth(Keywords(own), 1), {Space}, {Arrow})
    BY <1>3 DEF Declares, Keywords
  <2>2. 1 \in 1..Cardinality(Keywords(own)) /\ IsPlaces(Keywords(own))
    BY <1>3, KeywordPlaces
  <2>3. Nth(Keywords(own), 1) \in Occurrences(file[own].text, ModuleWord)
    BY <2>2, NthMember DEF Keywords
  <2> QED
    BY <1>3, <2>1, <2>3, NameBegins
<1>5. s \in Keywords(k)
  <2>1. /\ s \in Nat /\ s + Len(name) <= Len(file[k].text)
        /\ \A c \in 1..Len(name) : name[c] = file[k].text[s + c]
    BY <1>2, <1>3, OccurrenceReads
  <2>2. Len(name) \in Nat /\ Len(file[k].text) \in Nat
    BY <1>3
  <2>3. 1 \in 1..Len(name) /\ 2 \in 1..Len(name) /\ s + 2 <= Len(file[k].text)
    BY <1>4, <2>1, <2>2
  <2> QED
    BY <1>3, <1>4, <2>1, <2>3, KeywordReads DEF Keywords
<1>6. /\ k \in Declared /\ Declares(file[k])
      /\ file[k].name \in Seq(Characters) /\ file[k].depends \in Seq(Seq(Characters))
      /\ Cardinality(Keywords(k)) \in Nat
      /\ Len(file[k].depends) = Cardinality(Keywords(k)) - 1
  <2>1. k \in Declared
    BY <1>5, RegularKinds DEF LinesWith, Keywords
  <2> QED
    BY <2>1, DeclaringLines, KeywordPlaces
<1> DEFINE j == Rank(Keywords(k), s)
<1>7. j \in 1..Cardinality(Keywords(k)) /\ Nth(Keywords(k), j) = s
  BY <1>5, KeywordPlaces, NthOfRank
<1> HIDE DEF j
<1>8. /\ \A c \in 1..Len(name) : name[c] \notin {Space} /\ name[c] \notin {Arrow}
      /\ \A c \in 1..Len(name) : name[c] \notin {} /\ name[c] \notin {Comma}
  BY <1>3 DEF Declares, StandsAt
<1>9. CASE j = 1
  <2>1. StandsAt(file[k].name, file[k].text, s, {Space}, {Arrow})
    BY <1>6, <1>7, <1>9 DEF Declares, Keywords
  <2>2. Occurrences(file[k].name, name) # {}
    <3>1. file[k].text \in Seq(Characters) /\ file[k].name \in Seq(Characters) /\ name \in Seq(Characters)
      BY <1>3, <1>6
    <3>2. \A c \in 1..Len(name) : name[c] \notin {Space} /\ name[c] \notin {Arrow}
      BY <1>8
    <3> QED
      BY <1>2, <2>1, <3>1, <3>2, PartOfName, Zenon
  <2>3. file[k].name \in Mentioned
    BY <1>6 DEF Mentioned
  <2>4. file[k].name = name
    BY <2>2, <2>3
  <2>5. k = own
    BY <1>3, <1>6, <2>4 DEF Regular, Declared
  <2>6. PlaceOf(<<own, 0>>) = place
    <3>1. 0 + 1 = 1
      OBVIOUS
    <3> QED
      BY <1>2, <1>7, <1>9, <2>5, <3>1 DEF PlaceOf
  <2> QED
    BY <2>6 DEF Named
<1>10. CASE j # 1
  <2> DEFINE d == j - 1
  <2>1. d \in 1..Len(file[k].depends) /\ d + 1 = j /\ d \in DOMAIN file[k].depends
    BY <1>6, <1>7, <1>10
  <2> HIDE DEF d
  <2>2. file[k].depends[d] \in Seq(Characters)
    BY <1>6, <2>1, ElementOfSeq
  <2>3. StandsAt(file[k].depends[d], file[k].text, s, {}, {Comma})
    BY <1>6, <1>7, <2>1 DEF Declares, Keywords
  <2>4. file[k].text \in Seq(Characters) /\ name \in Seq(Characters)
    BY <1>3
  <2>5. Occurrences(file[k].depends[d], name) # {}
    <3>1. \A c \in 1..Len(name) : name[c] \notin {} /\ name[c] \notin {Comma}
      BY <1>8
    <3> QED
      BY <1>2, <2>2, <2>3, <2>4, <3>1, PartOfName, Zenon
  <2>6. file[k].depends[d] \in Mentioned
    BY <1>6, <2>1 DEF Mentioned
  <2>7. file[k].depends[d] = name
    BY <2>5, <2>6
  <2>8. <<k, d>> \in Named(name, own)
    BY <1>6, <2>1, <2>7 DEF Named, Mentions
  <2>9. PlaceOf(<<k, d>>) = place
    BY <1>2, <1>7, <2>1 DEF PlaceOf
  <2> QED
    BY <2>8, <2>9
<1> QED
  BY <1>9, <1>10

(* So a name stands in the file once more than it is mentioned, or oftener *)
(* if it is part of another.                                               *)
LEMMA DependentsCounted ==
  ASSUME file \in Files, Regular, NEW own \in Declared, NEW name, name = file[own].name
  PROVE  /\ number_of_dependencies(name) >= Cardinality(Mentions(name))
         /\ (\A n \in Mentioned \ {name} : Occurrences(n, name) = {})
              => number_of_dependencies(name) = Cardinality(Mentions(name))
<1> DEFINE S == Named(name, own)
           f == [at \in S |-> PlaceOf(at)]
           P == Places(name)
<1>1. f \in Injection(S, P)
  BY NamedInjectively
<1>2. IsFiniteSet(P)
  <2>1. Len(name) \in Nat
    BY DeclaringLines
  <2> QED
    BY <2>1, PlacesAreFinite
<1>3. number_of_dependencies(name) = Cardinality(P) - 1
  BY DEF number_of_dependencies, InAllLines
<1>4. (\A n \in Mentioned \ {name} : Occurrences(n, name) = {}) => f \in Surjection(S, P)
  <2>1. ASSUME \A n \in Mentioned \ {name} : Occurrences(n, name) = {}
        PROVE  \A place \in P : \E at \in S : f[at] = place
    BY <2>1, NamedEverywhere
  <2>2. f \in [S -> P]
    BY NamedTwice
  <2> HIDE DEF f, S, P
  <2> QED
    BY <2>1, <2>2 DEF Surjection
<1>5. <<own, 0>> \notin Mentions(name)
  <2>1. \A at \in Mentions(name) : at[2] # 0
    <3> TAKE at \in Mentions(name)
    <3>1. PICK k \in Declared : at \in {k} \X { d \in DOMAIN file[k].depends : file[k].depends[d] = name }
      BY DEF Mentions
    <3>2. at[2] \in DOMAIN file[k].depends
      BY <3>1
    <3>3. file[k].depends \in Seq(Seq(Characters))
      BY DeclaringLines
    <3>4. DOMAIN file[k].depends = 1..Len(file[k].depends)
      BY <3>3
    <3> QED
      BY <3>2, <3>4
  <2>2. <<own, 0>>[2] = 0
    OBVIOUS
  <2> QED
    BY <2>1, <2>2
<1>6. Mentions(name) \in SUBSET S
  BY DEF Named
<1>7. S = Mentions(name) \cup {<<own, 0>>}
  BY DEF Named
<1> HIDE DEF f, S, P
<1>8. /\ IsFiniteSet(S) /\ Cardinality(S) <= Cardinality(P)
      /\ Cardinality(S) = Cardinality(P) <=> f \in Surjection(S, P)
  BY <1>1, <1>2, FS_Injection
<1>9. IsFiniteSet(Mentions(name))
  BY <1>6, <1>8, FS_Subset
<1>10. Cardinality(S) = Cardinality(Mentions(name)) + 1
  BY <1>5, <1>7, <1>9, FS_AddElement
<1>11. Cardinality(Mentions(name)) \in Nat /\ Cardinality(P) \in Nat
  BY <1>2, <1>9, FS_CardinalityType
<1>12. number_of_dependencies(name) >= Cardinality(Mentions(name))
  BY <1>3, <1>8, <1>10, <1>11
<1>13. f \in Surjection(S, P) => number_of_dependencies(name) = Cardinality(Mentions(name))
  BY <1>3, <1>8, <1>10, <1>11
<1> QED
  BY <1>4, <1>12, <1>13
=============================================================================
