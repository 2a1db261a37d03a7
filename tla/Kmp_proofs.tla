----------------------------- MODULE Kmp_proofs -----------------------------
(***************************************************************************)
(* The string search of the parser is correct for every line and every     *)
(* pattern that is not empty: the table holds the longest borders, and the *)
(* search finds all occurrences, or the first one, and counts them once.   *)
(***************************************************************************)
EXTENDS Kmp, FiniteSetTheorems, TLAPS

-----------------------------------------------------------------------------
(* Borders.                                                                *)

(* A border of a border is a border.                                       *)
LEMMA BorderOfBorder ==
  ASSUME NEW p, NEW n \in Nat, NEW k \in Nat, NEW b \in Nat,
         Border(p, k, n), Border(p, b, k)
  PROVE  Border(p, b, n)
<1>1. SUFFICES ASSUME NEW x \in 1..b
               PROVE  p[x] = p[n - b + x]
  BY DEF Border
<1>2. p[x] = p[k - b + x]
  BY DEF Border
<1>3. k - b + x \in 1..k
  BY DEF Border
<1>4. p[k - b + x] = p[n - k + (k - b + x)]
  BY <1>3 DEF Border
<1>5. n - k + (k - b + x) = n - b + x
  OBVIOUS
<1> QED
  BY <1>2, <1>4, <1>5

(* Of two borders the shorter is a border of the longer.                   *)
LEMMA ShorterBorder ==
  ASSUME NEW p, NEW n \in Nat, NEW k \in Nat, NEW b \in Nat,
         Border(p, k, n), Border(p, b, n), b < k
  PROVE  Border(p, b, k)
<1>1. SUFFICES ASSUME NEW x \in 1..b
               PROVE  p[x] = p[k - b + x]
  BY DEF Border
<1>2. p[x] = p[n - b + x]
  BY DEF Border
<1>3. k - b + x \in 1..k
  OBVIOUS
<1>4. p[k - b + x] = p[n - k + (k - b + x)]
  BY <1>3 DEF Border
<1>5. n - k + (k - b + x) = n - b + x
  OBVIOUS
<1> QED
  BY <1>2, <1>4, <1>5

(* A border grows by a character that agrees.                              *)
LEMMA LongerBorder ==
  ASSUME NEW p, NEW n \in Nat, NEW k \in Nat,
         Border(p, k, n), p[k + 1] = p[n + 1]
  PROVE  Border(p, k + 1, n + 1)
<1>1. SUFFICES ASSUME NEW x \in 1..k + 1
               PROVE  p[x] = p[(n + 1) - (k + 1) + x]
  BY DEF Border
<1>2. (n + 1) - (k + 1) + x = n - k + x
  OBVIOUS
<1>3. CASE x = k + 1
  <2>1. n - k + x = n + 1
    BY <1>3
  <2> QED
    BY <1>2, <1>3, <2>1
<1>4. CASE x \in 1..k
  BY <1>2, <1>4 DEF Border
<1> QED
  BY <1>3, <1>4

(* A border that is not empty is a border and a character that agrees.     *)
LEMMA BorderWithoutLast ==
  ASSUME NEW p, NEW n \in Nat, NEW b \in 1..n, Border(p, b, n + 1)
  PROVE  Border(p, b - 1, n) /\ p[b] = p[n + 1]
<1>1. \A x \in 1..b : p[x] = p[(n + 1) - b + x]
  BY DEF Border
<1>2. p[b] = p[n + 1]
  <2>1. (n + 1) - b + b = n + 1
    OBVIOUS
  <2> QED
    BY <1>1, <2>1
<1>3. Border(p, b - 1, n)
  <2>1. SUFFICES ASSUME NEW x \in 1..b - 1
                 PROVE  p[x] = p[n - (b - 1) + x]
    BY DEF Border
  <2>2. n - (b - 1) + x = (n + 1) - b + x
    OBVIOUS
  <2> QED
    BY <1>1, <2>2
<1> QED
  BY <1>2, <1>3

LEMMA EmptyBorder ==
  ASSUME NEW p, NEW n \in Nat \ {0}
  PROVE  Border(p, 0, n)
BY DEF Border

-----------------------------------------------------------------------------
(* Facts of a state that satisfies the invariant.                          *)

LEMMA Sizes ==
  ASSUME TypeOK
  PROVE  /\ M \in Nat \ {0}
         /\ N \in Nat
         /\ Len(lps) \in Nat
         /\ DOMAIN lps = 1..Len(lps)
         /\ \A k \in 1..Len(lps) : lps[k] \in Nat
BY DEF TypeOK, M, N

(* Where the search stands when it is at work.                             *)
LEMMA SearchState ==
  ASSUME IInv, Searching
  PROVE  /\ Len(lps) = M
         /\ index_pattern \in 0..M - 1
         /\ index_text \in 0..N - 1
         /\ index_pattern <= index_text
         /\ \A k \in 1..M : lps[k] \in 0..k - 1
<1>1. /\ TypeOK
      /\ Len(lps) = M
      /\ index_pattern < M
      /\ index_pattern <= index_text
  BY DEF IInv, SearchInv, Searching
<1>2. index_pattern \in Nat /\ index_text \in Nat /\ index_text < N
  BY <1>1 DEF TypeOK, Searching
<1>3. \A k \in 1..M : lps[k] \in 0..k - 1
  <2> SUFFICES ASSUME NEW k \in 1..M
               PROVE  lps[k] \in 0..k - 1
    OBVIOUS
  <2>1. Border(pattern, lps[k], k)
    BY <1>1 DEF IInv, TableInv, LongestBorders
  <2> QED
    BY <2>1, <1>1, Sizes DEF Border
<1> QED
  BY <1>1, <1>2, <1>3, Sizes

LEMMA TypeStep == IInv /\ [Next]_vars => TypeOK'
<1> SUFFICES ASSUME IInv, [Next]_vars
             PROVE  TypeOK'
  OBVIOUS
<1> USE DEF arguments, table, progress
<1>a. TypeOK
  BY DEF IInv
<1>1. CASE Extend
  BY <1>1, <1>a DEF Extend, TypeOK
<1>2. CASE ShortenBorder
  <2>1. length \in 1..Len(lps)
    BY <1>2, <1>a, Sizes DEF ShortenBorder, Filling, IInv, TableInv, Border, TypeOK
  <2>2. lps[length] \in Nat
    BY <2>1, <1>a, Sizes
  <2> QED
    BY <1>2, <1>a, <2>2 DEF ShortenBorder, TypeOK
<1>3. CASE NoBorder
  BY <1>3, <1>a DEF NoBorder, TypeOK
<1>4. CASE TableDone
  BY <1>4, <1>a DEF TableDone, TypeOK
<1>5. CASE Match
  <2>1. Searching
    BY <1>5 DEF Match
  <2>2. index_text + 1 - M \in Nat /\ lps[M] \in Nat
    BY <1>5, <1>a, <2>1, SearchState, Sizes DEF Match
  <2>3. index_pattern' \in Nat
    BY <1>5, <1>a, <2>2, Sizes DEF Match
  <2>4. pc' \in {"prefix", "search", "done"}
    BY <1>5, <2>1 DEF Match, Searching
  <2>5. found' \in SUBSET Nat
    BY <1>5, <1>a, <2>2 DEF Match, TypeOK
  <2>6. index_text' \in Nat /\ counter' \in Nat
    BY <1>5, <1>a DEF Match, TypeOK
  <2>7. UNCHANGED <<arguments, table>>
    BY <1>5 DEF Match
  <2> QED
    BY <1>a, <2>3, <2>4, <2>5, <2>6, <2>7 DEF TypeOK
<1>6. CASE Advance
  BY <1>6, <1>a DEF Advance, TypeOK
<1>7. CASE AdvanceAndShift
  <2>1. Searching
    BY <1>7 DEF AdvanceAndShift
  <2>2. lps[index_pattern + 1] \in Nat
    BY <1>7, <1>a, <2>1, SearchState, Sizes DEF AdvanceAndShift
  <2> QED
    BY <1>7, <1>a, <2>2 DEF AdvanceAndShift, TypeOK
<1>8. CASE Shift
  <2>1. Searching
    BY <1>8 DEF Shift
  <2>2. lps[index_pattern] \in Nat
    BY <1>8, <1>a, <2>1, SearchState, Sizes DEF Shift
  <2> QED
    BY <1>8, <1>a, <2>2 DEF Shift, TypeOK
<1>9. CASE Skip
  BY <1>9, <1>a DEF Skip, TypeOK
<1>10. CASE SearchDone
  BY <1>10, <1>a DEF SearchDone, TypeOK
<1>11. CASE UNCHANGED vars
  BY <1>11, <1>a DEF vars, TypeOK
<1> QED
  BY <1>1, <1>2, <1>3, <1>4, <1>5, <1>6, <1>7, <1>8, <1>9, <1>10, <1>11
     DEF Next, Prefix, Search

-----------------------------------------------------------------------------
(* computeLongestPrefix keeps the table right.                             *)

(* Appending a right entry to a table of longest borders.                  *)
LEMMA AppendEntry ==
  ASSUME TypeOK, LongestBorders, NEW e \in Nat,
         lps' = Append(lps, e), pattern' = pattern,
         Border(pattern, e, Len(lps) + 1),
         \A b \in 1..Len(lps) : Border(pattern, b, Len(lps) + 1) => b <= e
  PROVE  /\ Len(lps') = Len(lps) + 1
         /\ LongestBorders'
<1>1. /\ Len(lps') = Len(lps) + 1
      /\ \A k \in 1..Len(lps) : lps'[k] = lps[k]
      /\ lps'[Len(lps) + 1] = e
  BY DEF TypeOK
<1>2. Len(lps) \in Nat
  BY Sizes
<1>3. ASSUME NEW k \in 1..Len(lps) + 1
      PROVE  /\ Border(pattern, lps'[k], k)
             /\ \A b \in 0..k - 1 : Border(pattern, b, k) => b <= lps'[k]
  <2>1. CASE k \in 1..Len(lps)
    BY <1>1, <2>1 DEF LongestBorders
  <2>2. CASE k = Len(lps) + 1
    <3>1. Border(pattern, lps'[k], k)
      BY <1>1, <2>2
    <3>2. ASSUME NEW b \in 0..k - 1, Border(pattern, b, k)
          PROVE  b <= lps'[k]
      BY <1>1, <1>2, <2>2, <3>2
    <3> QED
      BY <3>1, <3>2
  <2> QED
    BY <1>2, <2>1, <2>2
<1> QED
  BY <1>1, <1>3 DEF LongestBorders

LEMMA TableStep == IInv /\ [Next]_vars => TableInv'
<1> SUFFICES ASSUME IInv, [Next]_vars
             PROVE  TableInv'
  OBVIOUS
<1> USE DEF arguments, table, progress
<1>a. TypeOK /\ TableInv
  BY DEF IInv
<1>b. /\ M \in Nat \ {0} /\ Len(lps) \in Nat /\ length \in Nat
      /\ \A k \in 1..Len(lps) : lps[k] \in Nat
  BY <1>a, Sizes DEF TypeOK
<1>1. CASE Extend
  <2>1. /\ Len(lps) < M /\ pc = "prefix" /\ pc' = "prefix" /\ pattern' = pattern
        /\ lps' = Append(lps, length + 1) /\ length' = length + 1
    BY <1>1 DEF Extend, Filling
  <2>2. Border(pattern, length, Len(lps)) /\ Border(pattern, length + 1, Len(lps) + 1)
    BY <1>1, <1>a, <1>b, <2>1, LongerBorder DEF Extend, Agree, TableInv
  <2>3. Len(lps') = Len(lps) + 1 /\ LongestBorders'
    BY <1>a, <1>b, <2>1, <2>2, AppendEntry DEF TableInv
  <2>4. ASSUME NEW b \in 1..Len(lps) + 1, Border(pattern, b, Len(lps) + 2)
        PROVE  b <= length + 2
    <3>1. Border(pattern, b - 1, Len(lps) + 1)
      <4>1. Len(lps) + 1 \in Nat /\ Border(pattern, b, (Len(lps) + 1) + 1)
        BY <1>b, <2>4
      <4> QED
        BY <4>1, BorderWithoutLast
    <3>2. b - 1 = 0 \/ b - 1 <= length + 1
      BY <1>a, <1>b, <2>1, <3>1 DEF TableInv
    <3> QED
      BY <1>b, <3>2
  <2> QED
    BY <1>a, <1>b, <2>1, <2>2, <2>3, <2>4 DEF TableInv, M
<1>2. CASE ShortenBorder
  <2>1. /\ Len(lps) < M /\ pc = "prefix" /\ pc' = "prefix" /\ pattern' = pattern
        /\ lps' = lps /\ length' = lps[length] /\ length # 0
        /\ pattern[Len(lps) + 1] # pattern[length + 1]
    BY <1>2 DEF ShortenBorder, Filling, Agree
  <2>2. Border(pattern, length, Len(lps)) /\ length \in 1..Len(lps)
    BY <1>a, <1>b, <2>1 DEF TableInv, Border
  <2>3. Border(pattern, lps[length], length) /\ lps[length] \in Nat
    BY <1>a, <1>b, <2>2 DEF TableInv, LongestBorders
  <2>4. Border(pattern, lps[length], Len(lps))
    BY <1>b, <2>2, <2>3, BorderOfBorder
  <2>5. ASSUME NEW b \in 1..Len(lps), Border(pattern, b, Len(lps) + 1)
        PROVE  b <= lps[length] + 1
    <3>1. Border(pattern, b - 1, Len(lps)) /\ pattern[b] = pattern[Len(lps) + 1]
      BY <1>b, <2>5, BorderWithoutLast
    <3>2. b <= length + 1
      BY <1>a, <2>1, <2>5 DEF TableInv
    <3>3. b # length + 1
      BY <2>1, <3>1
    <3>4. b - 1 < length
      BY <1>b, <3>2, <3>3
    <3>5. Border(pattern, b - 1, length)
      BY <1>b, <2>2, <3>1, <3>4, ShorterBorder
    <3>6. b - 1 <= lps[length]
      BY <1>a, <1>b, <2>2, <3>4, <3>5 DEF TableInv, LongestBorders
    <3> QED
      BY <2>3, <3>6
  <2> QED
    BY <1>a, <2>1, <2>4, <2>5 DEF TableInv, LongestBorders, M
<1>3. CASE NoBorder
  <2>1. /\ Len(lps) < M /\ pc = "prefix" /\ pc' = "prefix" /\ pattern' = pattern
        /\ lps' = Append(lps, 0) /\ length' = length /\ length = 0
        /\ pattern[Len(lps) + 1] # pattern[1]
    BY <1>3 DEF NoBorder, Filling, Agree
  <2>2. Border(pattern, 0, Len(lps) + 1)
    BY <1>b, EmptyBorder
  <2>3. ASSUME NEW b \in 1..Len(lps), Border(pattern, b, Len(lps) + 1)
        PROVE  b <= 0
    <3>1. pattern[b] = pattern[Len(lps) + 1]
      BY <1>b, <2>3, BorderWithoutLast
    <3>2. b <= 1
      BY <1>a, <2>1, <2>3 DEF TableInv
    <3>3. b = 1
      BY <3>2
    <3> QED
      BY <2>1, <3>1, <3>3
  <2>4. Len(lps') = Len(lps) + 1 /\ LongestBorders'
    BY <1>a, <1>b, <2>1, <2>2, <2>3, AppendEntry DEF TableInv
  <2>5. ASSUME NEW b \in 1..Len(lps) + 1, Border(pattern, b, Len(lps) + 2)
        PROVE  b <= 1
    <3>1. Border(pattern, b - 1, Len(lps) + 1)
      <4>1. Len(lps) + 1 \in Nat /\ Border(pattern, b, (Len(lps) + 1) + 1)
        BY <1>b, <2>5
      <4> QED
        BY <4>1, BorderWithoutLast
    <3>2. b - 1 = 0 \/ b - 1 <= 0
      BY <1>b, <2>3, <3>1
    <3> QED
      BY <1>b, <3>2
  <2> QED
    BY <1>a, <1>b, <2>1, <2>2, <2>4, <2>5 DEF TableInv, M
<1>4. CASE pc' # "prefix" /\ UNCHANGED <<pattern, lps>>
  BY <1>4, <1>a DEF TableInv, LongestBorders, M
<1>5. CASE UNCHANGED vars
  BY <1>5, <1>a DEF vars, TableInv, LongestBorders, M
<1>6. CASE TableDone \/ Match \/ Advance \/ AdvanceAndShift \/ Shift \/ Skip \/ SearchDone
  <2>1. pc' # "prefix" /\ UNCHANGED <<pattern, lps>>
    BY <1>6 DEF TableDone, Match, Advance, AdvanceAndShift, Shift, Skip, SearchDone, Searching
  <2> QED
    BY <1>4, <2>1
<1> QED
  BY <1>1, <1>2, <1>3, <1>5, <1>6 DEF Next, Prefix, Search

-----------------------------------------------------------------------------
(* kmpSearch moves the pattern and misses no occurrence.                   *)

(* The first ip characters of the pattern match those before it.           *)
Laid(ip, it) == \A x \in 1..ip : text[it - ip + x] = pattern[x]

(* What is matched is also matched by a border of it.                      *)
LEMMA LaidByBorder ==
  ASSUME NEW ip \in Nat, NEW it \in Nat, NEW k \in Nat,
         Laid(ip, it), Border(pattern, k, ip)
  PROVE  Laid(k, it)
<1>1. SUFFICES ASSUME NEW x \in 1..k
               PROVE  text[it - k + x] = pattern[x]
  BY DEF Laid
<1>2. ip - k + x \in 1..ip
  BY DEF Border
<1>3. text[it - ip + (ip - k + x)] = pattern[ip - k + x]
  BY <1>2 DEF Laid
<1>4. it - ip + (ip - k + x) = it - k + x
  OBVIOUS
<1> QED
  BY <1>3, <1>4 DEF Border

(* An occurrence that begins in the matched characters begins a border.    *)
LEMMA OccurrenceIsBorder ==
  ASSUME TypeOK, NEW ip \in 0..M, NEW it \in Nat, NEW p \in Nat,
         Laid(ip, it), Occurs(p), it - ip < p, p <= it
  PROVE  Border(pattern, it - p, ip)
<1>1. it - p \in Nat /\ it - p < ip /\ M \in Nat
  BY Sizes
<1>2. ASSUME NEW x \in 1..it - p
      PROVE  pattern[x] = pattern[ip - (it - p) + x]
  <2>1. x \in 1..M
    BY <1>1
  <2>2. text[p + x] = pattern[x]
    BY <2>1 DEF Occurs
  <2>3. ip - (it - p) + x \in 1..ip
    BY <1>1
  <2>4. text[it - ip + (ip - (it - p) + x)] = pattern[ip - (it - p) + x]
    BY <2>3 DEF Laid
  <2>5. it - ip + (ip - (it - p) + x) = p + x
    BY <1>1
  <2> QED
    BY <2>2, <2>4, <2>5
<1> QED
  BY <1>1, <1>2 DEF Border

(* Where the characters do not agree, no occurrence begins.                *)
LEMMA NoOccurrenceHere ==
  ASSUME TypeOK, NEW ip \in 0..M - 1, NEW it \in Nat, NEW p \in Nat,
         ~ SameAt(ip, it), Occurs(p)
  PROVE  p # it - ip
<1>1. ip + 1 \in 1..M
  BY Sizes
<1>2. text[p + (ip + 1)] = pattern[ip + 1]
  BY <1>1 DEF Occurs
<1>3. p = it - ip => p + (ip + 1) = it + 1
  OBVIOUS
<1> QED
  BY <1>2, <1>3 DEF SameAt

(* Nor up to the place where the longest border lays the pattern.          *)
LEMMA NoOccurrenceSkipped ==
  ASSUME TypeOK, LongestBorders, Len(lps) = M,
         NEW ip \in 1..M - 1, NEW it \in Nat, NEW p \in Nat,
         Laid(ip, it), ~ SameAt(ip, it), Occurs(p), it - ip <= p
  PROVE  it - lps[ip] <= p
<1>1. ip \in 0..M - 1 /\ ip \in 0..M /\ ip \in 1..Len(lps) /\ lps[ip] \in Nat
  BY Sizes
<1>2. p # it - ip
  BY <1>1, NoOccurrenceHere
<1>3. CASE p <= it
  <2>1. Border(pattern, it - p, ip)
    BY <1>1, <1>2, <1>3, OccurrenceIsBorder
  <2>2. it - p \in 0..ip - 1
    BY <1>2, <1>3
  <2>3. it - p <= lps[ip]
    BY <1>1, <2>1, <2>2 DEF LongestBorders
  <2> QED
    BY <1>1, <2>3
<1> QED
  BY <1>1, <1>3

(* Another character that agrees is matched, too.                          *)
LEMMA AdvancedLaid ==
  ASSUME NEW ip \in Nat, NEW it \in Nat, Laid(ip, it), SameAt(ip, it)
  PROVE  Laid(ip + 1, it + 1)
<1>1. SUFFICES ASSUME NEW x \in 1..ip + 1
               PROVE  text[(it + 1) - (ip + 1) + x] = pattern[x]
  BY DEF Laid
<1>2. (it + 1) - (ip + 1) + x = it - ip + x
  OBVIOUS
<1>3. CASE x = ip + 1
  <2>1. it - ip + x = it + 1
    BY <1>3
  <2> QED
    BY <1>2, <1>3, <2>1 DEF SameAt
<1>4. CASE x \in 1..ip
  BY <1>2, <1>4 DEF Laid
<1> QED
  BY <1>3, <1>4

LEMMA MovedPast ==
  ASSUME NEW d \in Int, NEW e \in Int, NEW s \in Nat, d <= e
  PROVE  /\ s < d => s < e
         /\ (d <= s => e <= s) /\ s < e => s < d
OBVIOUS

(* A step that moves the pattern over no occurrence keeps the invariant.   *)
LEMMA MoveKeeps ==
  ASSUME IInv, Searching, UNCHANGED <<pc, arguments, table, counter, found>>,
         index_pattern' \in 0..M - 1, index_text' \in 0..N,
         index_pattern' <= index_text',
         Laid(index_pattern', index_text'),
         index_text - index_pattern <= index_text' - index_pattern',
         \A p \in Nat : Occurs(p) /\ index_text - index_pattern <= p
                          => index_text' - index_pattern' <= p
  PROVE  SearchInv' /\ FindsOccurrences' /\ IsFiniteSet(found)' /\ CountsOnce'
<1>1. pc = "search" /\ pc' = "search" /\ M' = M /\ N' = N /\ Len(lps) = M
  BY SearchState DEF Searching, arguments, M, N
<1>2. \A s : Occurs(s)' = Occurs(s)
  BY <1>1 DEF Occurs, arguments
<1>3. MatchedSoFar'
  BY DEF MatchedSoFar, Laid, arguments
<1>4. index_text \in Nat /\ index_pattern \in Nat /\ N \in Nat /\ M \in Nat
  BY Sizes DEF IInv, TypeOK
<1>4a. index_text - index_pattern \in Int /\ index_text' - index_pattern' \in Int
  BY <1>4
<1>5. ASSUME NEW s \in 0..N, Occurs(s), s < index_text' - index_pattern'
      PROVE  s \in found
  <2>0. s \in Nat
    BY <1>4
  <2>1. index_text - index_pattern <= s => index_text' - index_pattern' <= s
    BY <1>5, <2>0, Zenon
  <2>2. s < index_text - index_pattern
    BY <1>4a, <1>5, <2>0, <2>1, MovedPast, Zenon
  <2> QED
    BY <1>1, <1>5, <2>2 DEF IInv, SearchInv
<1>6. ASSUME NEW s \in found
      PROVE  s < index_text' - index_pattern'
  <2>1. s \in Nat
    BY DEF IInv, TypeOK
  <2>2. s < index_text - index_pattern
    BY <1>1 DEF IInv, SearchInv
  <2> QED
    BY <1>4a, <2>1, <2>2, MovedPast, Zenon
<1>7. break_at_match' => found' = {}
  BY <1>1 DEF IInv, SearchInv, arguments
<1>8. SearchInv'
  <2>1. index_pattern' < M /\ index_text' <= N
    BY <1>4
  <2>2. found' = found /\ lps' = lps
    BY DEF table
  <2> QED
    BY <1>1, <1>2, <1>3, <1>5, <1>6, <1>7, <2>1, <2>2 DEF SearchInv
<1>9. FindsOccurrences'
  BY <1>1, <1>2 DEF FindsOccurrences, IInv
<1> QED
  BY <1>8, <1>9 DEF IInv, CountsOnce

LEMMA SearchStep ==
  IInv /\ [Next]_vars =>
    SearchInv' /\ FindsOccurrences' /\ IsFiniteSet(found)' /\ CountsOnce'
<1> SUFFICES ASSUME IInv, [Next]_vars
             PROVE  SearchInv' /\ FindsOccurrences' /\ IsFiniteSet(found)' /\ CountsOnce'
  OBVIOUS
<1>a. TypeOK /\ LongestBorders
  BY DEF IInv, TableInv
<1>b. /\ M \in Nat \ {0} /\ N \in Nat
      /\ index_text \in Nat /\ index_pattern \in Nat
  BY <1>a, Sizes DEF TypeOK
<1>c. Searching => Laid(index_pattern, index_text)
  BY DEF IInv, SearchInv, Searching, MatchedSoFar, Laid
<1>1. CASE Extend \/ ShortenBorder \/ NoBorder
  <2>1. pc = "prefix" /\ pc' = "prefix" /\ UNCHANGED <<arguments, progress>>
    BY <1>1 DEF Extend, ShortenBorder, NoBorder, Filling
  <2> QED
    BY <2>1 DEF IInv, SearchInv, FindsOccurrences, CountsOnce, MatchedSoFar, Occurs,
                M, N, arguments, progress
<1>2. CASE TableDone
  <2>1. pc = "prefix" /\ pc' = "search" /\ UNCHANGED <<arguments, table, progress>>
    BY <1>2 DEF TableDone
  <2>2. Len(lps) = M
    <3>1. Len(lps) \in 1..M /\ Len(lps) >= M
      BY <1>2 DEF TableDone, IInv, TableInv
    <3> QED
      BY <1>b, <3>1
  <2> QED
    BY <1>b, <2>1, <2>2 DEF IInv, SearchInv, FindsOccurrences, CountsOnce, MatchedSoFar, Occurs,
                M, N, arguments, table, progress
<1>3. CASE Match
  <2>1. /\ Searching /\ Same /\ index_pattern + 1 = M
        /\ index_text' = index_text + 1 /\ counter' = counter + 1
        /\ found' = found \cup {index_text + 1 - M}
        /\ UNCHANGED <<arguments, table>>
    BY <1>3 DEF Match
  <2>2. /\ pc = "search" /\ Len(lps) = M /\ index_text < N
        /\ index_pattern <= index_text
        /\ Laid(index_pattern, index_text)
    BY <2>1, <1>c, SearchState DEF Searching
  <2>3. lps[M] \in 0..M - 1
    BY <1>b, <2>1, SearchState
  <2>4. /\ \A s \in found : s < index_text - index_pattern
        /\ break_at_match => found = {}
        /\ \A s \in 0..N : Occurs(s) /\ s < index_text - index_pattern => s \in found
    BY <2>2 DEF IInv, SearchInv
  <2>5. index_text + 1 - M = index_text - index_pattern /\ index_text + 1 - M \in Nat
    BY <1>b, <2>1, <2>2
  <2>6. \A s : Occurs(s)' = Occurs(s)
    BY <2>1 DEF Occurs, arguments, M, N
  <2>7. Laid(M, index_text + 1)
    <3>1. Laid(index_pattern + 1, index_text + 1)
      BY <1>b, <2>1, <2>2, AdvancedLaid DEF Same
    <3> QED
      BY <2>1, <3>1
  <2>8. Occurs(index_text + 1 - M)
    BY <1>b, <2>2, <2>5, <2>7 DEF Occurs, Laid
  <2>9. IsFiniteSet(found)' /\ CountsOnce'
    <3>1. index_text + 1 - M \notin found
      BY <1>b, <2>4, <2>5
    <3>2. IsFiniteSet(found) /\ counter = Cardinality(found)
      BY DEF IInv, CountsOnce
    <3>3. /\ IsFiniteSet(found \cup {index_text + 1 - M})
          /\ Cardinality(found \cup {index_text + 1 - M}) = Cardinality(found) + 1
      BY <3>1, <3>2, FS_AddElement
    <3> QED
      BY <2>1, <3>2, <3>3 DEF CountsOnce
  <2>10. \A s \in found' : Occurs(s)
    BY <2>1, <2>8 DEF IInv, FindsOccurrences
  <2>11. CASE break_at_match
    <3>1. pc' = "done"
      BY <1>3, <2>11 DEF Match
    <3>2. SearchInv'
      BY <2>1, <2>2, <3>1 DEF SearchInv, table, arguments, M
    <3>3. ASSUME NEW s \in 0..N, Occurs(s)
          PROVE  s \in found' \/ \E r \in found' : r < s
      BY <1>b, <2>1, <2>4, <2>5, <3>3
    <3>4. FindsOccurrences'
      BY <2>1, <2>6, <2>10, <2>11, <3>3 DEF FindsOccurrences, arguments, N
    <3> QED
      BY <2>9, <3>2, <3>4
  <2>12. CASE ~ break_at_match
    <3>1. pc' = "search" /\ index_pattern' = lps[M]
      BY <1>3, <2>2, <2>12 DEF Match
    <3>2. Laid(lps[M], index_text + 1)
      BY <1>a, <1>b, <2>2, <2>3, <2>7, LaidByBorder DEF LongestBorders
    <3>3. ASSUME NEW s \in 0..N, Occurs(s), s < (index_text + 1) - lps[M]
          PROVE  s \in found'
      <4>1. CASE s < index_text - index_pattern
        BY <2>1, <2>4, <3>3, <4>1
      <4>2. CASE s = index_text + 1 - M
        BY <2>1, <4>2
      <4>3. CASE index_text + 1 - M < s
        <5>1. s <= index_text + 1 /\ index_text + 1 \in Nat /\ M \in 0..M /\ s \in Nat
          BY <1>b, <2>3, <3>3
        <5>2. Border(pattern, index_text + 1 - s, M)
          BY <1>a, <1>b, <2>7, <3>3, <4>3, <5>1, OccurrenceIsBorder
        <5>3. index_text + 1 - s \in 0..M - 1 /\ M \in 1..Len(lps)
          BY <1>b, <2>2, <4>3, <5>1
        <5>4. index_text + 1 - s <= lps[M]
          BY <1>a, <5>2, <5>3 DEF LongestBorders
        <5> QED
          BY <1>b, <2>3, <3>3, <5>4
      <4> QED
        BY <1>b, <2>5, <4>1, <4>2, <4>3
    <3>4. ASSUME NEW s \in found'
          PROVE  s < (index_text + 1) - lps[M]
      <4>1. s \in Nat /\ s <= index_text + 1 - M
        <5>1. CASE s \in found
          BY <1>a, <1>b, <2>4, <2>5, <5>1 DEF TypeOK
        <5>2. CASE s = index_text + 1 - M
          BY <1>b, <2>5, <5>2
        <5> QED
          BY <2>1, <5>1, <5>2
      <4> QED
        BY <1>b, <2>3, <4>1
    <3>5. MatchedSoFar'
      BY <2>1, <3>1, <3>2 DEF MatchedSoFar, Laid, arguments
    <3>6. lps[M] < M /\ lps[M] <= index_text + 1 /\ index_text + 1 <= N
      BY <1>b, <2>1, <2>2, <2>3
    <3>7. /\ M' = M /\ N' = N /\ break_at_match' = break_at_match /\ lps' = lps
      BY <2>1 DEF arguments, table, M, N
    <3>8. SearchInv'
      <4>0. index_text' - index_pattern' = (index_text + 1) - lps[M]
        BY <2>1, <3>1, Zenon
      <4>1. \A s \in 0..N' : Occurs(s)' /\ s < index_text' - index_pattern' => s \in found'
        BY <2>6, <3>3, <3>7, <4>0, Zenon
      <4>2. \A s \in found' : s < index_text' - index_pattern'
        BY <3>4, <4>0, Zenon
      <4>3. index_pattern' < M' /\ index_pattern' <= index_text' /\ index_text' <= N'
        BY <2>1, <3>1, <3>6, <3>7
      <4>4. pc' = "search" /\ Len(lps') = M' /\ ~ break_at_match'
        BY <2>2, <2>12, <3>1, <3>7
      <4> QED
        BY <3>5, <4>1, <4>2, <4>3, <4>4 DEF SearchInv
    <3>9. FindsOccurrences'
      BY <2>6, <2>10, <3>1 DEF FindsOccurrences
    <3> QED
      BY <2>9, <3>8, <3>9
  <2> QED
    BY <2>11, <2>12
<1>4. CASE Advance
  <2>1. /\ Searching /\ Same /\ index_pattern + 1 < M
        /\ index_text' = index_text + 1 /\ index_pattern' = index_pattern + 1
        /\ UNCHANGED <<pc, arguments, table, counter, found>>
    BY <1>4 DEF Advance
  <2>2. index_text < N /\ index_pattern <= index_text
    BY <2>1, SearchState DEF Searching
  <2>3. Laid(index_pattern + 1, index_text + 1)
    BY <1>b, <1>c, <2>1, AdvancedLaid DEF Same
  <2>4. index_text - index_pattern = index_text' - index_pattern'
    BY <1>b, <2>1
  <2> QED
    BY <1>b, <2>1, <2>2, <2>3, <2>4, MoveKeeps
<1>5. CASE AdvanceAndShift
  <2>1. /\ Searching /\ Same /\ index_pattern + 1 < M /\ index_text + 1 < N
        /\ ~ SameAt(index_pattern + 1, index_text + 1)
        /\ index_text' = index_text + 1 /\ index_pattern' = lps[index_pattern + 1]
        /\ UNCHANGED <<pc, arguments, table, counter, found>>
    BY <1>5 DEF AdvanceAndShift
  <2>2. index_pattern <= index_text /\ Len(lps) = M /\ index_pattern + 1 \in 1..M - 1
    BY <1>b, <2>1, SearchState
  <2>3. index_text + 1 \in Nat /\ index_pattern + 1 \in Nat /\ index_pattern + 1 \in 1..Len(lps)
    BY <1>b, <2>2
  <2>4. Laid(index_pattern + 1, index_text + 1)
    BY <1>b, <1>c, <2>1, AdvancedLaid DEF Same
  <2>5. lps[index_pattern + 1] \in 0..index_pattern
    BY <1>b, <2>1, <2>2, SearchState
  <2>6. Laid(lps[index_pattern + 1], index_text + 1)
    <3>1. Border(pattern, lps[index_pattern + 1], index_pattern + 1)
      BY <1>a, <2>3 DEF LongestBorders
    <3>2. lps[index_pattern + 1] \in Nat
      BY <2>5
    <3> QED
      BY <2>3, <2>4, <3>1, <3>2, LaidByBorder
  <2>7. ASSUME NEW p \in Nat, Occurs(p), index_text - index_pattern <= p
        PROVE  index_text' - index_pattern' <= p
    <3>1. (index_text + 1) - (index_pattern + 1) <= p
      BY <1>b, <2>7
    <3>2. (index_text + 1) - lps[index_pattern + 1] <= p
      BY <1>a, <2>1, <2>2, <2>3, <2>4, <2>7, <3>1, NoOccurrenceSkipped
    <3> QED
      BY <2>1, <3>2
  <2>8. /\ index_pattern' \in 0..M - 1 /\ index_text' \in 0..N
        /\ index_pattern' <= index_text'
        /\ index_text - index_pattern <= index_text' - index_pattern'
    BY <1>b, <2>1, <2>2, <2>5
  <2>9. Laid(index_pattern', index_text')
    BY <2>1, <2>6
  <2> QED
    BY <2>1, <2>7, <2>8, <2>9, MoveKeeps
<1>6. CASE Shift
  <2>1. /\ Searching /\ ~ SameAt(index_pattern, index_text) /\ index_pattern # 0
        /\ index_text' = index_text /\ index_pattern' = lps[index_pattern]
        /\ UNCHANGED <<pc, arguments, table, counter, found>>
    BY <1>6 DEF Shift, Same
  <2>2. /\ index_pattern <= index_text /\ Len(lps) = M /\ index_pattern \in 1..M - 1
        /\ index_text < N /\ index_pattern \in 1..Len(lps)
    BY <1>b, <2>1, SearchState DEF Searching
  <2>3. lps[index_pattern] \in 0..index_pattern - 1
    BY <1>b, <2>1, <2>2, SearchState
  <2>4. Laid(lps[index_pattern], index_text)
    <3>1. Border(pattern, lps[index_pattern], index_pattern)
      BY <1>a, <2>2 DEF LongestBorders
    <3>2. lps[index_pattern] \in Nat
      BY <2>3
    <3> QED
      BY <1>b, <1>c, <2>1, <3>1, <3>2, LaidByBorder
  <2>5. ASSUME NEW p \in Nat, Occurs(p), index_text - index_pattern <= p
        PROVE  index_text' - index_pattern' <= p
    <3>1. index_text - lps[index_pattern] <= p
      BY <1>a, <1>b, <1>c, <2>1, <2>2, <2>5, NoOccurrenceSkipped
    <3> QED
      BY <2>1, <3>1
  <2>6. /\ index_pattern' \in 0..M - 1 /\ index_text' \in 0..N
        /\ index_pattern' <= index_text'
        /\ index_text - index_pattern <= index_text' - index_pattern'
    BY <1>b, <2>1, <2>2, <2>3
  <2>7. Laid(index_pattern', index_text')
    BY <2>1, <2>4
  <2> QED
    BY <2>1, <2>5, <2>6, <2>7, MoveKeeps
<1>7. CASE Skip
  <2>1. /\ Searching /\ ~ SameAt(index_pattern, index_text) /\ index_pattern = 0
        /\ index_text' = index_text + 1 /\ index_pattern' = index_pattern
        /\ UNCHANGED <<pc, arguments, table, counter, found>>
    BY <1>7 DEF Skip, Same
  <2>2. index_text < N
    BY <2>1 DEF Searching
  <2>3. ASSUME NEW p \in Nat, Occurs(p), index_text - index_pattern <= p
        PROVE  index_text' - index_pattern' <= p
    <3>1. index_pattern \in 0..M - 1
      BY <1>b, <2>1
    <3>2. p # index_text - index_pattern
      BY <1>a, <1>b, <2>1, <2>3, <3>1, NoOccurrenceHere
    <3> QED
      BY <1>b, <2>1, <2>3, <3>2
  <2>4. Laid(index_pattern', index_text')
    BY <2>1 DEF Laid
  <2>5. /\ index_pattern' \in 0..M - 1 /\ index_text' \in 0..N
        /\ index_pattern' <= index_text'
        /\ index_text - index_pattern <= index_text' - index_pattern'
    BY <1>b, <2>1, <2>2
  <2> QED
    BY <2>1, <2>3, <2>4, <2>5, MoveKeeps
<1>8. CASE SearchDone
  <2>1. /\ pc = "search" /\ index_text >= N /\ pc' = "done"
        /\ UNCHANGED <<arguments, table, progress>>
    BY <1>8 DEF SearchDone
  <2>2. \A s : Occurs(s)' = Occurs(s)
    BY <2>1 DEF Occurs, arguments, M, N
  <2>3. ASSUME NEW s \in 0..N, Occurs(s)
        PROVE  s \in found
    <3>1. s < index_text - index_pattern
      <4>1. index_pattern < M /\ s + M <= N
        BY <2>1, <2>3 DEF IInv, SearchInv, Occurs
      <4> QED
        BY <1>b, <2>1, <4>1
    <3> QED
      BY <2>1, <2>3, <3>1 DEF IInv, SearchInv
  <2>4. FindsOccurrences'
    BY <2>1, <2>2, <2>3 DEF IInv, FindsOccurrences, arguments, progress, N
  <2>5. SearchInv'
    BY <2>1 DEF IInv, SearchInv, arguments, table, M
  <2> QED
    BY <2>1, <2>4, <2>5 DEF IInv, CountsOnce, progress
<1>9. CASE UNCHANGED vars
  BY <1>9 DEF vars, IInv, SearchInv, FindsOccurrences, CountsOnce, MatchedSoFar, Occurs,
              M, N, arguments, table, progress
<1> QED
  BY <1>1, <1>2, <1>3, <1>4, <1>5, <1>6, <1>7, <1>8, <1>9 DEF Next, Prefix, Search

-----------------------------------------------------------------------------
(* The theorems.                                                           *)

LEMMA InvInit == Init => IInv
<1> SUFFICES ASSUME Init
             PROVE  IInv
  OBVIOUS
<1>1. TypeOK
  BY KmpAssumption DEF Init, TypeOK
<1>2. M \in Nat \ {0} /\ N \in Nat /\ Len(lps) = 1
  BY <1>1, Sizes DEF Init
<1>3. TableInv
  BY <1>2 DEF Init, TableInv, LongestBorders, Border
<1>4. SearchInv
  BY <1>2 DEF Init, SearchInv, MatchedSoFar
<1>5. FindsOccurrences
  BY DEF Init, FindsOccurrences
<1>6. IsFiniteSet(found) /\ CountsOnce
  BY FS_EmptySet DEF Init, CountsOnce
<1> QED
  BY <1>1, <1>3, <1>4, <1>5, <1>6 DEF IInv

LEMMA InvStep == IInv /\ [Next]_vars => IInv'
BY TypeStep, TableStep, SearchStep DEF IInv

LEMMA Invariance == Spec => []IInv
BY InvInit, InvStep, PTL DEF Spec

(* The variables keep their types: no index falls below zero.              *)
THEOREM TypeCorrect == Spec => []TypeOK
<1>1. IInv => TypeOK
  BY DEF IInv
<1> QED
  BY <1>1, Invariance, PTL

(* computeLongestPrefix: every entry of the table is the length of the     *)
(* longest proper border of its prefix, for every pattern.                 *)
THEOREM TableCorrect == Spec => []LongestBorders
<1>1. IInv => LongestBorders
  BY DEF IInv, TableInv
<1> QED
  BY <1>1, Invariance, PTL

(* kmpSearch: what is reported is an occurrence, and at the end nothing is *)
(* missed, for every text and every pattern.                               *)
THEOREM SearchCorrect == Spec => []FindsOccurrences
<1>1. IInv => FindsOccurrences
  BY DEF IInv
<1> QED
  BY <1>1, Invariance, PTL

(* kmpSearch: the number returned is the number of the occurrences found.  *)
THEOREM CountCorrect == Spec => []CountsOnce
<1>1. IInv => CountsOnce
  BY DEF IInv
<1> QED
  BY <1>1, Invariance, PTL
=============================================================================
