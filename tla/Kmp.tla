-------------------------------- MODULE Kmp --------------------------------
(***************************************************************************)
(* String search of the parser: computeLongestPrefix and the loop that the *)
(* kmpSearch overloads of parser/kmp.cpp share (the overload for the names *)
(* of dependencies, which searches with a table it never computes, is not  *)
(* modelled here).                                                         *)
(*                                                                         *)
(* Strings are sequences: character k of the code is element k + 1 here.   *)
(* The table is filled from left to right, so lps is the sequence of the   *)
(* entries written so far and the variable index of the code is Len(lps).  *)
(***************************************************************************)
EXTENDS Naturals, Sequences, FiniteSets

CONSTANTS
  Chars,     \* the characters
  Texts,     \* the lines that may be searched
  Patterns   \* the patterns that may be searched for

ASSUME KmpAssumption ==
  /\ Texts \subseteq Seq(Chars)
  /\ Patterns \subseteq Seq(Chars) \ {<<>>}

VARIABLES
  pc,               \* "prefix", "search" or "done"
  text, pattern,    \* the arguments
  break_at_match,   \* the overload, with KMP_FLAG, stops at the first match
  lps,              \* longest_proper_prefix
  length,           \* length_of_longest_match
  index_text,
  index_pattern,
  counter,          \* matches counted
  found             \* history: where the matches begin, from 0

arguments == <<text, pattern, break_at_match>>
table == <<lps, length>>
progress == <<index_text, index_pattern, counter, found>>
vars == <<pc, arguments, table, progress>>

M == Len(pattern)
N == Len(text)

TypeOK ==
  /\ pc \in {"prefix", "search", "done"}
  /\ text \in Seq(Chars)
  /\ pattern \in Seq(Chars) \ {<<>>}
  /\ break_at_match \in BOOLEAN
  /\ lps \in Seq(Nat)
  /\ length \in Nat
  /\ index_text \in Nat
  /\ index_pattern \in Nat
  /\ counter \in Nat
  /\ found \in SUBSET Nat

Init ==
  /\ pc = "prefix"
  /\ text \in Texts
  /\ pattern \in Patterns
  /\ break_at_match \in BOOLEAN
  /\ lps = <<0>>
  /\ length = 0
  /\ index_text = 0
  /\ index_pattern = 0
  /\ counter = 0
  /\ found = {}

-----------------------------------------------------------------------------
(* computeLongestPrefix                                                    *)

Filling == pc = "prefix" /\ Len(lps) < M

Agree == pattern[Len(lps) + 1] = pattern[length + 1]

Extend ==
  /\ Filling
  /\ Agree
  /\ length' = length + 1
  /\ lps' = Append(lps, length + 1)
  /\ UNCHANGED <<pc, arguments, progress>>

(* Variant: the border is given up at once instead of shortened.           *)
RestartBorder ==
  /\ Filling
  /\ ~ Agree
  /\ length # 0
  /\ length' = 0
  /\ UNCHANGED <<pc, arguments, lps, progress>>

ShortenBorder ==
  /\ Filling
  /\ ~ Agree
  /\ length # 0
  /\ length' = lps[length]
  /\ UNCHANGED <<pc, arguments, lps, progress>>

(* Variant: the entry of a character without a border is one too small.    *)
NoBorderBelow ==
  /\ Filling
  /\ ~ Agree
  /\ length = 0
  /\ lps' = Append(lps, length - 1)
  /\ UNCHANGED <<pc, arguments, length, progress>>

NoBorder ==
  /\ Filling
  /\ ~ Agree
  /\ length = 0
  /\ lps' = Append(lps, 0)
  /\ UNCHANGED <<pc, arguments, length, progress>>

TableDone ==
  /\ pc = "prefix"
  /\ Len(lps) >= M
  /\ pc' = "search"
  /\ UNCHANGED <<arguments, table, progress>>

-----------------------------------------------------------------------------
(* The loop of kmpSearch: one action per path through its body.            *)

Searching == pc = "search" /\ index_text < N

SameAt(ip, it) == pattern[ip + 1] = text[it + 1]

Same == SameAt(index_pattern, index_text)

(* Variant: the search goes on behind the match.                           *)
MatchAndRestart ==
  /\ Searching
  /\ Same
  /\ index_pattern + 1 = M
  /\ index_text' = index_text + 1
  /\ counter' = counter + 1
  /\ found' = found \cup {index_text + 1 - M}
  /\ index_pattern' = 0
  /\ pc' = IF break_at_match THEN "done" ELSE pc
  /\ UNCHANGED <<arguments, table>>

(* Variant: the indices are not moved behind a match.                      *)
MatchInPlace ==
  /\ Searching
  /\ Same
  /\ index_pattern + 1 = M
  /\ counter' = counter + 1
  /\ found' = found \cup {index_text + 1 - M}
  /\ pc' = IF break_at_match THEN "done" ELSE pc
  /\ UNCHANGED <<arguments, table, index_text, index_pattern>>

Match ==
  /\ Searching
  /\ Same
  /\ index_pattern + 1 = M
  /\ index_text' = index_text + 1
  /\ counter' = counter + 1
  /\ found' = found \cup {index_text + 1 - M}
  /\ \/ /\ break_at_match
        /\ index_pattern' = M
        /\ pc' = "done"
     \/ /\ ~ break_at_match
        /\ index_pattern' = lps[M]
        /\ pc' = pc
  /\ UNCHANGED <<arguments, table>>

(* The characters agree, and so do the next ones if there are any.         *)
Advance ==
  /\ Searching
  /\ Same
  /\ index_pattern + 1 < M
  /\ index_text + 1 < N => SameAt(index_pattern + 1, index_text + 1)
  /\ index_text' = index_text + 1
  /\ index_pattern' = index_pattern + 1
  /\ UNCHANGED <<pc, arguments, table, counter, found>>

(* The characters agree and the next ones do not: the second half of the   *)
(* body looks at the indices the first half has moved.                     *)
AdvanceAndShift ==
  /\ Searching
  /\ Same
  /\ index_pattern + 1 < M
  /\ index_text + 1 < N
  /\ ~ SameAt(index_pattern + 1, index_text + 1)
  /\ index_text' = index_text + 1
  /\ index_pattern' = lps[index_pattern + 1]
  /\ UNCHANGED <<pc, arguments, table, counter, found>>

(* Variant: the entry for the character that failed is used.               *)
ShiftOnePast ==
  /\ Searching
  /\ ~ Same
  /\ index_pattern # 0
  /\ index_pattern' = lps[index_pattern + 1]
  /\ UNCHANGED <<pc, arguments, table, index_text, counter, found>>

Shift ==
  /\ Searching
  /\ ~ Same
  /\ index_pattern # 0
  /\ index_pattern' = lps[index_pattern]
  /\ UNCHANGED <<pc, arguments, table, index_text, counter, found>>

Skip ==
  /\ Searching
  /\ ~ Same
  /\ index_pattern = 0
  /\ index_text' = index_text + 1
  /\ UNCHANGED <<pc, arguments, table, index_pattern, counter, found>>

SearchDone ==
  /\ pc = "search"
  /\ index_text >= N
  /\ pc' = "done"
  /\ UNCHANGED <<arguments, table, progress>>

-----------------------------------------------------------------------------
Prefix == Extend \/ ShortenBorder \/ NoBorder \/ TableDone

Search == Match \/ Advance \/ AdvanceAndShift \/ Shift \/ Skip \/ SearchDone

Next == Prefix \/ Search

Spec == Init /\ [][Next]_vars

FairSpec == Spec /\ WF_vars(Next)

-----------------------------------------------------------------------------
(* Reference definitions.                                                  *)

(* The first k characters of p are also the last k of its first n.         *)
Border(p, k, n) ==
  /\ k \in Nat
  /\ k < n
  /\ \A x \in 1..k : p[x] = p[n - k + x]

(* The pattern stands in the text behind its first s characters.           *)
Occurs(s) ==
  /\ s \in Nat
  /\ s + M <= N
  /\ \A x \in 1..M : text[s + x] = pattern[x]

(* An entry of the table is the length of the longest proper border of its *)
(* prefix of the pattern (computeLongestPrefix).                           *)
LongestBorders ==
  \A k \in 1..Len(lps) :
    /\ Border(pattern, lps[k], k)
    /\ \A b \in 0..k - 1 : Border(pattern, b, k) => b <= lps[k]

(* A search reports occurrences of the pattern only, and when it has ended *)
(* it has reported them all, overlapping ones included, or the first one   *)
(* if it was told to stop there (kmpSearch).                               *)
FindsOccurrences ==
  /\ \A s \in found : Occurs(s)
  /\ pc = "done" =>
       \A s \in 0..N : Occurs(s) =>
         s \in found \/ (break_at_match /\ \E r \in found : r < s)

(* No occurrence is counted twice: the counter returned is their number.   *)
CountsOnce == counter = Cardinality(found)

(* What the first index_pattern characters of the pattern match.           *)
MatchedSoFar == \A x \in 1..index_pattern : text[index_text - index_pattern + x] = pattern[x]

(* While the table is filled, length is a border of the prefix done so     *)
(* far, and no border of the next prefix is longer than one more.          *)
TableInv ==
  /\ Len(lps) \in 1..M
  /\ LongestBorders
  /\ pc = "prefix" => Border(pattern, length, Len(lps))
  /\ pc = "prefix" /\ Len(lps) < M =>
       \A b \in 1..Len(lps) : Border(pattern, b, Len(lps) + 1) => b <= length + 1

(* While the text is searched, the pattern is laid where the matched       *)
(* characters begin, and nothing before that place was missed.             *)
SearchInv ==
  /\ pc = "prefix" => index_text = 0 /\ index_pattern = 0 /\ found = {}
  /\ pc # "prefix" => Len(lps) = M
  /\ pc # "done" =>
       /\ index_pattern < M
       /\ index_pattern <= index_text
       /\ index_text <= N
       /\ MatchedSoFar
       /\ break_at_match => found = {}
       /\ \A s \in 0..N : Occurs(s) /\ s < index_text - index_pattern => s \in found
       /\ \A s \in found : s < index_text - index_pattern

(* The inductive invariant behind FindsOccurrences.                        *)
IInv == TypeOK /\ TableInv /\ SearchInv /\ FindsOccurrences /\ IsFiniteSet(found) /\ CountsOnce

(* The search ends on every line and pattern, although a step may leave    *)
(* both the text and the table where they were.                            *)
Terminates == <>(pc = "done")
=============================================================================
